------------------------------ MODULE Handoffs ------------------------------
(***************************************************************************)
(* The handoff files of one session and the watcher that consumes them.    *)
(* A half leaves handoff_to_<half>.json; at every poll the watcher lists   *)
(* the files, reads the only one, moves it to the audit directory under    *)
(* the second of the clock and the half, and calls its handler.  Writers   *)
(* are other processes: a file may be replaced between any two steps.      *)
(* The completion file of the session is consumed beside.                  *)
(***************************************************************************)
EXTENDS Naturals, FiniteSets

CONSTANTS
  Half,
  MaxWritten,    \* bound on the handoffs written; they are numbered
  MaxSecond,     \* bound on the clock
  MaxMishaps     \* bound on failing file operations, crashes and clock changes

ASSUME HandoffAssumption == MaxWritten \in Nat /\ MaxSecond \in Nat /\ MaxMishaps \in Nat

VARIABLES
  second,      \* the clock that names audit entries
  written,     \* number of handoffs written so far
  pending,     \* per half: the handoff in its file, 0 if there is none
  unreadable,  \* handoffs that are no JSON
  poll,        \* where the watcher stands
  seen,        \* halves its listing holds and it has not dealt with
  payload,     \* the handoff it has read
  audit,       \* logs/handoffs: per half and second a handoff, or 0
  completion,  \* session_complete.json
  dispatched,  \* history: handoffs the handler was called with
  malformed,   \* logs/handoffs/_malformed: per half the handoff under its bare name, or 0
  setAside,    \* there too, under the millisecond of the clock: halves and handoffs
  smothered,   \* history: halves and handoffs overwritten in _malformed
  replaced,    \* history: overwritten while pending
  shadowed,    \* history: overwritten in the audit directory
  dropped,     \* history: archived by a watcher that crashed before its handler
  completions, \* history: completions written, and left behind by a failed move
  reported,    \* history: calls of the completion handler
  turnedBack,  \* history: the clock was
  mishaps

handoffFiles == <<pending, unreadable, written>>
kept == <<malformed, setAside, smothered>>
records == <<audit, kept, shadowed>>
done == <<dispatched, dropped>>
ending == <<completion, completions, reported>>
handoffVars == <<second, handoffFiles, poll, seen, payload, records, ending, done, replaced, turnedBack, mishaps>>

HandoffId == 1 .. MaxWritten
OnlyHalf == CHOOSE h \in seen : TRUE   \* of a listing of one

-----------------------------------------------------------------------------
HandoffsInit ==
  /\ second = 0 /\ written = 0
  /\ pending = [h \in Half |-> 0] /\ unreadable = {}
  /\ poll = "asleep" /\ seen = {} /\ payload = 0
  /\ audit = [e \in Half \X (0 .. MaxSecond) |-> 0]
  /\ malformed = [h \in Half |-> 0] /\ setAside = {} /\ smothered = {}
  /\ dispatched = {} /\ replaced = {} /\ shadowed = {} /\ dropped = {}
  /\ completion = "absent" /\ completions = 0 /\ reported = 0
  /\ turnedBack = FALSE /\ mishaps = 0

\* write_handoff: one file per half, the newer takes the place of the older.
WriteHandoff(h) == \E broken \in BOOLEAN :
  /\ written < MaxWritten /\ written' = written + 1
  /\ pending' = [pending EXCEPT ![h] = written + 1]
  /\ replaced' = replaced \cup ({pending[h]} \ {0})
  /\ unreadable' = IF broken THEN unreadable \cup {written + 1} ELSE unreadable
  /\ UNCHANGED <<second, poll, seen, payload, ending, turnedBack, mishaps>>
  /\ UNCHANGED records /\ UNCHANGED done

SecondPasses ==
  /\ second < MaxSecond /\ second' = second + 1
  /\ UNCHANGED <<poll, seen, payload, ending, replaced, turnedBack, mishaps>>
  /\ UNCHANGED handoffFiles /\ UNCHANGED records /\ UNCHANGED done

Mishap == mishaps < MaxMishaps /\ mishaps' = mishaps + 1

\* Local time: set back, or the end of summer time.
ClockTurnsBack ==
  /\ Mishap
  /\ second > 0 /\ second' = second - 1
  /\ turnedBack' = TRUE
  /\ UNCHANGED <<poll, seen, payload, ending, replaced>>
  /\ UNCHANGED handoffFiles /\ UNCHANGED records /\ UNCHANGED done

-----------------------------------------------------------------------------
\* _process_handoffs.

ListHandoffs ==
  /\ poll = "asleep"
  /\ seen' = {h \in Half : pending[h] # 0} /\ seen' # {}
  /\ poll' = IF Cardinality(seen') = 1 THEN "reading" ELSE "quarantining"
  /\ UNCHANGED <<second, payload, ending, replaced, turnedBack, mishaps>>
  /\ UNCHANGED handoffFiles /\ UNCHANGED records /\ UNCHANGED done

DealtWith(h) == seen' = seen \ {h} /\ poll' = IF seen' = {} THEN "asleep" ELSE poll

\* Whatever is in the file of a half now is moved to _malformed.
MovesAway(h) ==
  /\ h \in seen /\ DealtWith(h)
  /\ pending' = [pending EXCEPT ![h] = 0]
  /\ UNCHANGED <<second, written, unreadable, payload, audit, shadowed, ending, replaced, turnedBack, mishaps>>
  /\ UNCHANGED done

\* Several files at once are all set aside, and no handler is called.  The name tells
\* the millisecond, which comes again only on a clock that was turned back.
Quarantine(h) ==
  /\ poll = "quarantining"
  /\ MovesAway(h)
  /\ UNCHANGED malformed
  /\ \/ setAside' = setAside \cup {<<h, pending[h]>>} /\ UNCHANGED smothered
     \/ \E earlier \in setAside :
          /\ turnedBack /\ earlier[1] = h
          /\ setAside' = (setAside \ {earlier}) \cup {<<h, pending[h]>>}
          /\ smothered' = smothered \cup {earlier}

\* A file that is no JSON keeps its name, and takes the place of an earlier one there.
Discard(h) ==
  /\ poll = "discarding"
  /\ MovesAway(h)
  /\ malformed' = [malformed EXCEPT ![h] = pending[h]]
  /\ smothered' = IF malformed[h] = 0 THEN smothered ELSE smothered \cup {<<h, malformed[h]>>}
  /\ UNCHANGED setAside

ReadFile ==
  /\ poll = "reading"
  /\ payload' = pending[OnlyHalf]
  /\ poll' = IF pending[OnlyHalf] \in unreadable THEN "discarding" ELSE "archiving"
  /\ UNCHANGED <<second, seen, ending, replaced, turnedBack, mishaps>>
  /\ UNCHANGED handoffFiles /\ UNCHANGED records /\ UNCHANGED done

\* The file is moved, not what was read of it, over an entry of the same second.
ArchiveFile ==
  /\ poll = "archiving"
  /\ LET entry == <<OnlyHalf, second>> IN
       /\ shadowed' = shadowed \cup ({audit[entry]} \ {0})
       /\ audit' = [audit EXCEPT ![entry] = pending[OnlyHalf]]
  /\ pending' = [pending EXCEPT ![OnlyHalf] = 0]
  /\ poll' = "dispatching"
  /\ UNCHANGED <<second, written, unreadable, seen, payload, kept, ending, replaced, turnedBack, mishaps>>
  /\ UNCHANGED done

\* on_handoff; what it raises goes to the log.
Dispatch ==
  /\ poll = "dispatching"
  /\ dispatched' = dispatched \cup {payload}
  /\ poll' = "asleep" /\ seen' = {}
  /\ UNCHANGED <<second, payload, ending, dropped, replaced, turnedBack, mishaps>>
  /\ UNCHANGED handoffFiles /\ UNCHANGED records

\* A file that cannot be moved and is dispatched all the same; only a mutant uses it.
DispatchesAnyway ==
  /\ Mishap
  /\ poll = "archiving" /\ poll' = "dispatching"
  /\ UNCHANGED <<second, seen, payload, ending, replaced, turnedBack>>
  /\ UNCHANGED handoffFiles /\ UNCHANGED records /\ UNCHANGED done

\* An operation fails: a file that cannot be read is discarded as a malformed one is;
\* one that cannot be moved stays, and is not dispatched; without the directory to
\* move it to the poll ends.
HandoffFileFails ==
  /\ Mishap
  /\ \/ /\ poll = "reading" /\ poll' = "discarding" /\ UNCHANGED seen
     \/ /\ poll \in {"archiving", "quarantining", "discarding"} /\ poll' = "asleep" /\ seen' = {}
     \/ /\ poll \in {"quarantining", "discarding"} /\ \E h \in seen : DealtWith(h)
  /\ UNCHANGED <<second, payload, ending, replaced, turnedBack>>
  /\ UNCHANGED handoffFiles /\ UNCHANGED records /\ UNCHANGED done

CrashWatcher ==
  /\ Mishap
  /\ poll # "asleep" /\ poll' = "asleep" /\ seen' = {}
  /\ dropped' = IF poll = "dispatching" THEN dropped \cup {payload} ELSE dropped
  /\ UNCHANGED <<second, payload, dispatched, ending, replaced, turnedBack>>
  /\ UNCHANGED handoffFiles /\ UNCHANGED records

-----------------------------------------------------------------------------
\* _process_complete.

\* Once; a second call of complete_task only writes the file again.
WriteComplete == \E broken \in BOOLEAN :
  /\ completion = "absent"
  /\ completion' = IF broken THEN "unreadable" ELSE "pending"
  /\ completions' = completions + 1
  /\ UNCHANGED <<second, poll, seen, payload, reported, replaced, turnedBack, mishaps>>
  /\ UNCHANGED handoffFiles /\ UNCHANGED records /\ UNCHANGED done

\* A file that cannot be read stays where it is; one that cannot be moved is
\* reported, and reported again at the next poll.
FileComplete ==
  /\ poll = "asleep" /\ completion = "pending"
  /\ poll' = "reporting"
  /\ \/ completion' = "filed" /\ UNCHANGED <<completions, mishaps>>
     \/ completions' = completions + 1 /\ Mishap /\ UNCHANGED completion
  /\ UNCHANGED <<second, seen, payload, reported, replaced, turnedBack>>
  /\ UNCHANGED handoffFiles /\ UNCHANGED records /\ UNCHANGED done

ReportComplete ==
  /\ poll = "reporting"
  /\ poll' = "asleep"
  /\ reported' = reported + 1
  /\ UNCHANGED <<second, seen, payload, completion, completions, replaced, turnedBack, mishaps>>
  /\ UNCHANGED handoffFiles /\ UNCHANGED records /\ UNCHANGED done

HandoffsNext ==
  \/ \E h \in Half : WriteHandoff(h) \/ Quarantine(h) \/ Discard(h)
  \/ SecondPasses \/ ClockTurnsBack
  \/ ListHandoffs \/ ReadFile \/ ArchiveFile \/ Dispatch
  \/ HandoffFileFails \/ CrashWatcher
  \/ WriteComplete \/ FileComplete \/ ReportComplete

HandoffsSpec == HandoffsInit /\ [][HandoffsNext]_handoffVars

-----------------------------------------------------------------------------
OnRecord == {audit[e] : e \in DOMAIN audit} \ {0}
KeptAside == ({malformed[h] : h \in Half} \cup {e[2] : e \in setAside}) \ {0}
Smothered == {e[2] : e \in smothered}

\* read_latest_archived_handoff: the entry with the greatest name.
LatestArchived(h) ==
  LET at == {s \in 0 .. MaxSecond : audit[<<h, s>>] # 0}
  IN IF at = {} THEN 0 ELSE audit[<<h, CHOOSE s \in at : \A r \in at : r <= s>>]

\* The audit directory tells what was dispatched.  A handoff the handler got is on
\* record, or was overwritten by a later one before it was moved or in the same
\* second after; one on record reached the handler, is about to, died with the
\* watcher, or came in place of the one read.  While the handler of a half runs,
\* the half finds what the handler was given as the latest on record, if neither
\* the file was replaced nor the clock turned back.  A handoff vanishes only under
\* another: in its file, on record, or in _malformed, where a later malformed one of its
\* half took its name, or a later one set aside took a millisecond that came again.  A
\* completion is reported once for every time it was left in place.
AuditTellsWhatWasDispatched ==
  /\ dispatched \subseteq OnRecord \cup replaced \cup shadowed
  /\ \A v \in OnRecord \cup shadowed :
       v \in dispatched \cup dropped \/ (poll = "dispatching" /\ v = payload)
         \/ \E w \in replaced : w < v /\ w \in dispatched \cup dropped \cup {payload}
  /\ poll = "dispatching" /\ ~turnedBack /\ payload \notin replaced => LatestArchived(OnlyHalf) = payload
  /\ 1 .. written = ({pending[h] : h \in Half} \ {0}) \cup replaced \cup KeptAside \cup Smothered \cup OnRecord \cup shadowed
  /\ \A e \in smothered :
       malformed[e[1]] > e[2] \/ (turnedBack /\ \E l \in setAside : l[1] = e[1] /\ l[2] > e[2])
  /\ reported <= completions
=============================================================================
