------------------------------ MODULE Lineage -------------------------------
(***************************************************************************)
(* Sessions that resume from earlier ones.  resume_session makes the child *)
(* in several writes, and the process may die after each; the orchestrator *)
(* picks a child up as soon as its record is there.  Ended sessions may be *)
(* archived, children or not, and a caller that names its sessions may use *)
(* an archived id again.  find_ancestor_chain reads the records one by one *)
(* meanwhile.                                                              *)
(***************************************************************************)
EXTENDS Naturals, Sequences

CONSTANTS
  Session,
  MaxBirths,    \* bound on the sessions made
  NoSession     \* resumed_from is None

ASSUME LineageAssumption == MaxBirths \in Nat /\ NoSession \notin Session

VARIABLES
  disk,      \* per session: nothing, a directory, or a directory with a record
  link,      \* resumed_from of the record
  over,      \* the record is terminal
  brief,     \* SESSION.md: absent, torn, the task, or the task after the parent's context
  making,    \* the next write of the process that makes the session
  births,    \* sessions made so far
  given,     \* the task the planner was given
  walker,    \* whose ancestors are being looked for
  ahead,     \* the link of the handle the walk holds
  chain,     \* ancestors found, the nearest first
  ended,     \* how the walk ended
  archived,  \* history: ids of archived sessions
  reused,    \* history: one of them was used again
  linked,    \* history: every link a record has had
  early,     \* history: sessions planned before they were made
  unread     \* history: sessions whose record was there and could not be read

lineageVars == <<disk, link, over, brief, making, births, given, walker, ahead, chain, ended,
                 archived, reused, linked, early, unread>>
walkVars == <<walker, ahead, chain, ended, unread>>
origins == <<births, link, archived, reused>>

-----------------------------------------------------------------------------
LineageInit ==
  /\ disk = [s \in Session |-> "nothing"]
  /\ link = [s \in Session |-> NoSession]
  /\ over = [s \in Session |-> FALSE]
  /\ brief = [s \in Session |-> "absent"]
  /\ making = [s \in Session |-> "nothing"]
  /\ given = [s \in Session |-> "nothing yet"]
  /\ births = 0 /\ archived = {} /\ reused = FALSE /\ linked = {} /\ early = {} /\ unread = {}
  /\ walker = NoSession /\ ahead = NoSession /\ chain = <<>> /\ ended = "not begun"

\* create_session refuses an id that has a directory.
IdIsFree(s) == disk[s] = "nothing"

\* resume_session loads the parent, and refuses one that is not terminal unless
\* the caller allows it.
Begin(s, parent) ==
  /\ births < MaxBirths /\ births' = births + 1
  /\ IdIsFree(s) /\ making[s] \in {"nothing", "done", "dead"}
  /\ parent # NoSession => disk[parent] = "record"
  /\ disk' = [disk EXCEPT ![s] = "directory"]
  /\ link' = [link EXCEPT ![s] = parent]
  /\ over' = [over EXCEPT ![s] = FALSE]
  /\ brief' = [brief EXCEPT ![s] = "absent"]
  /\ given' = [given EXCEPT ![s] = "nothing yet"]
  /\ making' = [making EXCEPT ![s] = "record"]
  /\ reused' = (reused \/ s \in archived)
  /\ early' = early \ {s}
  /\ UNCHANGED <<archived, linked>> /\ UNCHANGED walkVars

Writes(s, now, next) == making[s] = now /\ making' = [making EXCEPT ![s] = next]

\* From here on the session can be listed, loaded and run.
WriteRecord(s) ==
  /\ Writes(s, "record", "task")
  /\ disk' = [disk EXCEPT ![s] = "record"]
  /\ linked' = linked \cup {<<s, link[s]>>}
  /\ UNCHANGED <<over, brief, given, early>> /\ UNCHANGED origins /\ UNCHANGED walkVars

\* SESSION.md is written in place: first it is empty.
OpenBrief(s) ==
  /\ disk[s] = "record"
  /\ Writes(s, "task", "task text") \/ Writes(s, "context", "context text")
  /\ brief' = [brief EXCEPT ![s] = "torn"]
  /\ UNCHANGED <<disk, over, given, linked, early>> /\ UNCHANGED origins /\ UNCHANGED walkVars

\* A context written in place of the task; only a mutant uses it.
FillBriefOver(s) ==
  /\ \/ /\ Writes(s, "task text", IF link[s] = NoSession THEN "done" ELSE "context")
        /\ brief' = [brief EXCEPT ![s] = "task"]
     \/ /\ Writes(s, "context text", "done")
        /\ brief' = [brief EXCEPT ![s] = "torn"]
  /\ UNCHANGED <<disk, over, given, linked, early>> /\ UNCHANGED origins /\ UNCHANGED walkVars

FillBrief(s) ==
  /\ \/ /\ Writes(s, "task text", IF link[s] = NoSession THEN "done" ELSE "context")
        /\ brief' = [brief EXCEPT ![s] = "task"]
     \/ /\ Writes(s, "context text", "done")
        /\ brief' = [brief EXCEPT ![s] = "context and task"]
  /\ UNCHANGED <<disk, over, given, linked, early>> /\ UNCHANGED origins /\ UNCHANGED walkVars

\* The process dies, or its write raises.
MakerDies(s) ==
  /\ making[s] \notin {"nothing", "done", "dead"} /\ making' = [making EXCEPT ![s] = "dead"]
  /\ UNCHANGED <<disk, over, brief, given, linked, early>> /\ UNCHANGED origins /\ UNCHANGED walkVars

\* _read_task_from_session_md: the task is cut out of SESSION.md, and the context
\* that was put before it is left behind.  What the first planning gets counts.
PlanSession(s) ==
  /\ disk[s] = "record" /\ ~over[s] /\ given[s] = "nothing yet"
  /\ given' = [given EXCEPT ![s] = IF brief[s] \in {"task", "context and task"} THEN "the task" ELSE "no task"]
  /\ early' = IF making[s] = "done" THEN early ELSE early \cup {s}
  /\ UNCHANGED <<disk, over, brief, making, linked>> /\ UNCHANGED origins /\ UNCHANGED walkVars

EndSession(s) ==
  /\ disk[s] = "record" /\ ~over[s]
  /\ over' = [over EXCEPT ![s] = TRUE]
  /\ UNCHANGED <<disk, brief, making, given, linked, early>> /\ UNCHANGED origins /\ UNCHANGED walkVars

\* archive_session moves the directory of a session that has ended.
ArchiveSession(s) ==
  /\ disk[s] = "record" /\ over[s]
  /\ disk' = [disk EXCEPT ![s] = "nothing"]
  /\ link' = [link EXCEPT ![s] = NoSession]
  /\ over' = [over EXCEPT ![s] = FALSE]
  /\ brief' = [brief EXCEPT ![s] = "absent"]
  /\ given' = [given EXCEPT ![s] = "nothing yet"]
  /\ archived' = archived \cup {s}
  /\ UNCHANGED <<making, births, reused, linked, early>> /\ UNCHANGED walkVars

-----------------------------------------------------------------------------
\* find_ancestor_chain of a session that was loaded.
StartWalk(s) ==
  /\ walker = NoSession
  /\ disk[s] = "record"
  /\ walker' = s /\ ahead' = link[s] /\ ended' = "not yet"
  /\ UNCHANGED <<disk, over, brief, making, given, linked, early, chain, unread>> /\ UNCHANGED origins

Found == {chain[i] : i \in DOMAIN chain}

\* Without the set of those seen; only a mutant uses it.
MeetsUnlooped ==
  IF ahead = NoSession THEN "origin" ELSE IF disk[ahead] = "record" THEN "an ancestor" ELSE "gone"

Meets ==
  CASE ahead = NoSession                -> "origin"
    [] ahead \in Found \cup {walker}    -> IF disk[ahead] = "record" THEN "cycle" ELSE "gone"
    [] OTHER                            -> IF disk[ahead] = "record" THEN "an ancestor" ELSE "gone"

\* parent_session: the record the held handle names is read, if there is one.
WalkStep ==
  /\ ended = "not yet"
  /\ IF Meets = "an ancestor"
       THEN chain' = Append(chain, ahead) /\ ahead' = link[ahead] /\ UNCHANGED ended
       ELSE ended' = Meets /\ UNCHANGED <<ahead, chain>>
  /\ UNCHANGED <<disk, over, brief, making, given, linked, early, walker, unread>> /\ UNCHANGED origins

\* A record that is there and cannot be opened, or parsed, ends the chain as one that
\* is not there does; bytes that are no text are not caught.
ReadFails ==
  /\ ended = "not yet" /\ ahead # NoSession /\ disk[ahead] = "record"
  /\ ended' \in {"gone", "raised"}
  /\ unread' = unread \cup {ahead}
  /\ UNCHANGED <<disk, over, brief, making, given, linked, early, walker, ahead, chain>>
  /\ UNCHANGED origins

LineageNext ==
  \/ \E s \in Session :
       \/ \E parent \in Session \cup {NoSession} : Begin(s, parent)
       \/ WriteRecord(s) \/ OpenBrief(s) \/ FillBrief(s) \/ MakerDies(s)
       \/ PlanSession(s) \/ EndSession(s) \/ ArchiveSession(s) \/ StartWalk(s)
  \/ WalkStep \/ ReadFails

LineageSpec == LineageInit /\ [][LineageNext]_lineageVars

-----------------------------------------------------------------------------
\* Every ancestor is found once, the session is none of its own, and each is what
\* the record of the one before it named when it was read, whatever is made,
\* archived or made again meanwhile; a cycle is met only where an archived id was
\* used again, and the walk stops short of the origin only where a session was
\* archived, or at the very record that could not be read.
AncestorsOnce ==
  /\ \A i \in DOMAIN chain :
       /\ chain[i] # walker
       /\ \A j \in 1 .. i - 1 : chain[j] # chain[i]
       /\ <<IF i = 1 THEN walker ELSE chain[i - 1], chain[i]>> \in linked
  /\ ended = "cycle" => reused
  /\ ended = "gone" => archived # {} \/ ahead \in unread
  /\ ended = "raised" => ahead \in unread

\* A planner goes without its task only if it read before the session was made,
\* or the process making it died: putting the context in front keeps the task.
TaskReachesPlanner == \A s \in Session : given[s] = "no task" => s \in early
=============================================================================
