------------------------------- MODULE Memory -------------------------------
(***************************************************************************)
(* The memory store of one session: fact files in a directory per type, an *)
(* index of them, and the working text.  A call touches several files, one *)
(* after the other, and any process may die in between; the index is read, *)
(* changed and written back.  The store takes no locks, so that calls of   *)
(* two processes may overlap; which calls did is remembered.               *)
(***************************************************************************)
EXTENDS Integers, Sequences

CONSTANTS
  Process,
  TypeOrder,   \* types of facts, in the order in which read_fact searches
  UserFact,    \* ids chosen by callers of write_fact
  FreshFact,   \* ids consolidation draws; it never draws one twice
  MaxTexts,    \* bound on the working texts, which are numbered
  MaxDeaths    \* bound on dying processes

ASSUME MemoryAssumption ==
  /\ TypeOrder \in Seq({"semantic", "episodic", "procedural"})
  /\ TypeOrder # <<>> /\ TypeOrder[1] = "semantic"
  /\ MaxTexts \in Nat /\ MaxDeaths \in Nat

VARIABLES
  fact,        \* per type and id: the content of the file, or NoFact
  index,       \* index.json: per id the type of its entry, or "none"
  working,     \* working.md; 0 is the empty text
  desk,        \* per process the call it is in
  texts,       \* number of working texts set so far
  overlapped,  \* history: two calls were in progress at once
  torn,        \* history: ids whose last call died between file and index
  twice,       \* history: ids that had files of two types
  superseded,  \* history: working texts a caller replaced or cleared
  deleted,     \* history: contents of facts a caller deleted or wrote over
  deaths

memoryVars == <<fact, index, working, desk, texts, overlapped, torn, twice, superseded, deleted, deaths>>
histories == <<overlapped, torn, twice, superseded, deleted, deaths>>

FactType == {TypeOrder[i] : i \in DOMAIN TypeOrder}
FactId == UserFact \cup FreshFact

\* Contents: the number of the working text it was, or some other text.
NoFact == -1
OtherText == 0
EmptyIndex == [id \in FactId |-> "none"]

\* The types that have a file of the id; the one read_fact finds.
Types(id) == {type \in FactType : fact[<<type, id>>] # NoFact}
FirstType(id) ==
  TypeOrder[CHOOSE i \in DOMAIN TypeOrder :
              TypeOrder[i] \in Types(id) /\ \A j \in 1 .. i - 1 : TypeOrder[j] \notin Types(id)]

NoCall == [stage |-> "idle", type |-> "semantic", id |-> CHOOSE id \in FactId : TRUE,
           content |-> OtherText, entries |-> EmptyIndex, last |-> "return"]

Free(p) == desk[p].stage = "idle"
Busy(p) == \E q \in Process \ {p} : ~Free(q)

\* A call begins; `last` is what it does after the index.
Begins(p, stage, type, id, content, last) ==
  /\ Free(p)
  /\ desk' = [desk EXCEPT ![p] = [stage |-> stage, type |-> type, id |-> id,
                                  content |-> content, entries |-> EmptyIndex, last |-> last]]
  /\ overlapped' = (overlapped \/ Busy(p))

Goes(p, stage) == desk' = [desk EXCEPT ![p].stage = stage]
Returns(p) == desk' = [desk EXCEPT ![p] = NoCall]

-----------------------------------------------------------------------------
MemoryInit ==
  /\ fact = [f \in FactType \X FactId |-> NoFact]
  /\ index = EmptyIndex
  /\ working = 0 /\ texts = 0
  /\ desk = [p \in Process |-> NoCall]
  /\ overlapped = FALSE /\ torn = {} /\ twice = {} /\ superseded = {} /\ deleted = {} /\ deaths = 0

\* set_working and clear_working.
SetWorking(p) == \E text \in {0, texts + 1} :
  /\ Free(p) /\ text <= MaxTexts
  /\ working' = text
  /\ texts' = IF text = 0 THEN texts ELSE text
  /\ superseded' = superseded \cup {working}
  /\ overlapped' = (overlapped \/ Busy(p))
  /\ UNCHANGED <<fact, index, desk, torn, twice, deleted, deaths>>

\* write_fact; WORKING is refused.
BeginWrite(p, type, id) ==
  /\ Begins(p, "write_file", type, id, OtherText, "return")
  /\ UNCHANGED <<fact, index, working, texts, torn, twice, superseded, deleted, deaths>>

\* delete_fact; without a file it returns, and leaves an index entry behind.
BeginDelete(p, id) ==
  /\ Types(id) # {}
  /\ Begins(p, "unlink", FirstType(id), id, NoFact, "return")
  /\ UNCHANGED <<fact, index, working, texts, torn, twice, superseded, deleted, deaths>>

\* A consolidation that clears the working text at once; only a mutant uses it.
ConsolidateAndClear(p) == \E id \in FreshFact :
  /\ working # 0
  /\ Types(id) = {} /\ index[id] = "none" /\ id \notin torn
  /\ Begins(p, "write_file", "semantic", id, working, "return")
  /\ working' = 0
  /\ UNCHANGED <<fact, index, texts, torn, twice, superseded, deleted, deaths>>

\* consolidate, for a working text that is not empty.
BeginConsolidate(p) == \E id \in FreshFact :
  /\ working # 0
  /\ Types(id) = {} /\ index[id] = "none" /\ id \notin torn
  /\ Begins(p, "write_file", "semantic", id, working, "clear")
  /\ UNCHANGED <<fact, index, working, texts, torn, twice, superseded, deleted, deaths>>

\* The fact file appears at once and whole, over one of the same type and id.
WriteFactFile(p) ==
  /\ desk[p].stage = "write_file"
  /\ LET d == desk[p] IN
       /\ fact' = [fact EXCEPT ![<<d.type, d.id>>] = d.content]
       /\ deleted' = deleted \cup {fact[<<d.type, d.id>>]}
       /\ twice' = IF Types(d.id) \ {d.type} # {} THEN twice \cup {d.id} ELSE twice
  /\ Goes(p, "read_index")
  /\ UNCHANGED <<index, working, texts, overlapped, torn, superseded, deaths>>

\* A deletion that forgets the index; only a mutant uses it.
UnlinkOnly(p) ==
  /\ desk[p].stage = "unlink"
  /\ LET d == desk[p] IN
       /\ fact' = [fact EXCEPT ![<<d.type, d.id>>] = NoFact]
       /\ deleted' = deleted \cup {fact[<<d.type, d.id>>]}
  /\ Returns(p)
  /\ UNCHANGED <<index, working, texts, overlapped, torn, twice, superseded, deaths>>

\* The path found is unlinked, wherever it has gone meanwhile.
Unlink(p) ==
  /\ desk[p].stage = "unlink"
  /\ LET d == desk[p] IN
       /\ fact' = [fact EXCEPT ![<<d.type, d.id>>] = NoFact]
       /\ deleted' = deleted \cup {fact[<<d.type, d.id>>]}
  /\ Goes(p, "read_index")
  /\ UNCHANGED <<index, working, texts, overlapped, torn, twice, superseded, deaths>>

ReadIndex(p) ==
  /\ desk[p].stage = "read_index"
  /\ desk' = [desk EXCEPT ![p].stage = "write_index", ![p].entries = index]
  /\ UNCHANGED <<fact, index, working, texts>> /\ UNCHANGED histories

\* _update_index and _drop_from_index write back what was read, but for the entry
\* of the id.
WriteIndex(p) ==
  /\ desk[p].stage = "write_index"
  /\ LET d == desk[p] IN
       /\ index' = [d.entries EXCEPT ![d.id] = IF d.content = NoFact THEN "none" ELSE d.type]
       /\ torn' = torn \ {d.id}
       /\ IF d.last = "clear" THEN Goes(p, "clear") ELSE Returns(p)
  /\ UNCHANGED <<fact, working, texts, overlapped, twice, superseded, deleted, deaths>>

\* consolidate empties the working text, whatever it is by now.
ClearWorking(p) ==
  /\ desk[p].stage = "clear"
  /\ working' = 0
  /\ Returns(p)
  /\ UNCHANGED <<fact, index, texts>> /\ UNCHANGED histories

\* The process of a call dies, or a file operation of it raises.
DieInCall(p) ==
  /\ ~Free(p) /\ deaths < MaxDeaths /\ deaths' = deaths + 1
  /\ torn' = IF desk[p].stage \in {"read_index", "write_index"} THEN torn \cup {desk[p].id} ELSE torn
  /\ Returns(p)
  /\ UNCHANGED <<fact, index, working, texts, overlapped, twice, superseded, deleted>>

MemoryNext == \E p \in Process :
  \/ SetWorking(p) \/ BeginConsolidate(p)
  \/ \E id \in UserFact : \E type \in FactType : BeginWrite(p, type, id)
  \/ \E id \in FactId : BeginDelete(p, id)
  \/ WriteFactFile(p) \/ Unlink(p) \/ ReadIndex(p) \/ WriteIndex(p) \/ ClearWorking(p)
  \/ DieInCall(p)

MemorySpec == MemoryInit /\ [][MemoryNext]_memoryVars

-----------------------------------------------------------------------------
InProgress(id) == \E p \in Process : desk[p].stage \in {"read_index", "write_index"} /\ desk[p].id = id

\* As long as calls did not overlap, the index tells of a fact file if there is
\* one, and only then: except for an id whose last call died half way, and for an
\* id filed under two types, whose second file the index may not know.
IndexTracksFiles == ~overlapped => \A id \in FactId \ torn : ~InProgress(id) =>
  /\ index[id] # "none" => index[id] \in Types(id)
  /\ id \notin twice => Types(id) \subseteq {index[id]}

\* As long as calls did not overlap, a working text that nobody replaced, cleared
\* or deleted is still there, as the working text or as a fact, wherever a
\* consolidation died.
WorkingTextSurvives == ~overlapped =>
  \A text \in 1 .. texts :
     text \in {working} \cup superseded \cup deleted \cup {fact[f] : f \in DOMAIN fact}
=============================================================================
