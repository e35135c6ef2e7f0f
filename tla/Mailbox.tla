------------------------------ MODULE Mailbox -------------------------------
(***************************************************************************)
(* A directory of message files: writers publish them under names that     *)
(* begin with the millisecond of the wall clock, consumers poll with       *)
(* read_and_consume and hand what they took to a handler.  Two consumers   *)
(* may poll the same directory, any of them may crash, file operations may *)
(* fail, the clock may be set back, and files turn up that are no JSON or  *)
(* no text at all.                                                         *)
(***************************************************************************)
EXTENDS Naturals, Sequences, SequencesExt

CONSTANTS
  Writer, Consumer,
  MaxSent,     \* bound on the messages of a writer
  MaxMillis,   \* bound on the wall clock
  MaxFaults    \* bound on failing file operations, crashes and setbacks of the clock

ASSUME MailboxAssumption == MaxSent \in Nat /\ MaxMillis \in Nat \ {0} /\ MaxFaults \in Nat

VARIABLES
  place,     \* where each message is
  stamp,     \* the millisecond in its name
  form,      \* what can be made of its file
  wall,      \* the wall clock
  polling,   \* consumers in use
  listing,   \* per consumer: what is left of its sorted listing
  taken,     \* per consumer: messages consumed and not handled yet
  opened,    \* per consumer: whether the head of the listing has been parsed
  handled,   \* history: how often each message was handled
  lost,      \* history: archived by a call that raised or a consumer that crashed
  faults     \* history: failures, crashes and setbacks so far

mailboxVars == <<place, stamp, form, wall, polling, listing, taken, opened, handled, lost, faults>>

Message == Writer \X (1 .. MaxSent)
Place == {"unsent", "young", "pending", "archive", "errors", "deleted", "overwritten"}
Form == {"good", "malformed", "undecodable"}

There(m) == place[m] \in {"young", "pending"}
InListing(m) == \E c \in Consumer : \E i \in DOMAIN listing[c] : listing[c][i] = m

-----------------------------------------------------------------------------
MailboxInit ==
  /\ place = [m \in Message |-> "unsent"]
  /\ stamp = [m \in Message |-> 0]
  /\ form = [m \in Message |-> "good"]
  /\ wall \in 1 .. MaxMillis
  /\ polling \in (SUBSET Consumer) \ {{}}
  /\ listing = [c \in Consumer |-> <<>>]
  /\ taken = [c \in Consumer |-> <<>>]
  /\ opened = [c \in Consumer |-> FALSE]
  /\ handled = [m \in Message |-> 0]
  /\ lost = {}
  /\ faults = 0

\* write_ipc_message: the file appears at once and whole, under a name made of the
\* clock and a random number.  One made in the same millisecond may draw the same
\* number and is then replaced; that a write takes longer than the grace period, and
\* replaces a file that is being consumed, is left out.
Publish(w, k) ==
  LET m == <<w, k>> IN
  /\ wall < MaxMillis
  /\ place[m] = "unsent" /\ \A j \in 1 .. k - 1 : place[<<w, j>>] # "unsent"
  /\ \/ place' = [place EXCEPT ![m] = "young"]
     \/ \E n \in Message :
          /\ place[n] = "young" /\ stamp[n] = wall /\ ~InListing(n)
          /\ place' = [place EXCEPT ![m] = "young", ![n] = "overwritten"]
  /\ \E f \in Form : form' = [form EXCEPT ![m] = f]
  /\ stamp' = [stamp EXCEPT ![m] = wall]
  /\ UNCHANGED <<wall, polling, listing, taken, opened, handled, lost, faults>>

Tick ==
  /\ wall < MaxMillis /\ wall' = wall + 1
  /\ UNCHANGED <<place, stamp, form, polling, listing, taken, opened, handled, lost, faults>>

\* The clock is set back: files written since some instant are younger than the grace
\* period again, those from its future in any case.
ClockTurnsBack ==
  /\ faults < MaxFaults /\ faults' = faults + 1
  /\ \E t \in 1 .. wall - 1, since \in 1 .. wall - 1 :
       /\ since <= t /\ wall' = t
       /\ place' = [m \in Message |-> IF place[m] = "pending" /\ stamp[m] >= since THEN "young" ELSE place[m]]
  /\ UNCHANGED <<stamp, form, polling, listing, taken, opened, handled, lost>>

\* A file becomes older than the grace period, after those its writer wrote before it.
Ripen(w, k) ==
  /\ place[<<w, k>>] = "young" /\ stamp[<<w, k>>] < wall
  /\ \A j \in 1 .. MaxSent :
       place[<<w, j>>] = "young" =>
         stamp[<<w, k>>] < stamp[<<w, j>>] \/ (stamp[<<w, k>>] = stamp[<<w, j>>] /\ k <= j)
  /\ place' = [place EXCEPT ![<<w, k>>] = "pending"]
  /\ UNCHANGED <<stamp, form, wall, polling, listing, taken, opened, handled, lost, faults>>

\* Listings of the ripe files in the order of their names; in one millisecond the
\* random numbers decide.
Listings ==
  {l \in SetToSeqs({m \in Message : place[m] = "pending"}) :
     \A p, q \in DOMAIN l : stamp[l[p]] < stamp[l[q]] => p < q}

IdleConsumer(c) == listing[c] = <<>> /\ taken[c] = <<>>

Poll(c) ==
  /\ c \in polling /\ IdleConsumer(c)
  /\ \E l \in Listings : l # <<>> /\ listing' = [listing EXCEPT ![c] = l]
  /\ UNCHANGED <<place, stamp, form, wall, polling, taken, opened, handled, lost, faults>>

Passes(c) ==
  /\ listing' = [listing EXCEPT ![c] = Tail(@)]
  /\ opened' = [opened EXCEPT ![c] = FALSE]
  /\ UNCHANGED <<taken, lost>>

\* The call ends with an exception, or the consumer dies: what it archived is in
\* nobody's hands.
LetsGo(c) ==
  /\ lost' = lost \cup ToSet(taken[c])
  /\ taken' = [taken EXCEPT ![c] = <<>>]
  /\ listing' = [listing EXCEPT ![c] = <<>>]
  /\ opened' = [opened EXCEPT ![c] = FALSE]

\* A consumer that stops at a malformed file; only a mutant uses it.
ReadUnlessBad(c) ==
  /\ listing[c] # <<>> /\ ~opened[c]
  /\ LET m == Head(listing[c]) IN
       \/ /\ There(m) /\ form[m] = "good"
          /\ opened' = [opened EXCEPT ![c] = TRUE] /\ UNCHANGED <<listing, taken, lost>>
       \/ There(m) /\ form[m] # "good" /\ LetsGo(c)
       \/ ~There(m) /\ Passes(c)
  /\ UNCHANGED <<place, stamp, form, wall, polling, handled, faults>>

\* The next file of the listing is read.  One that is no JSON is quarantined, one that
\* is gone is passed over, and one that cannot be decoded raises what is not caught: the
\* call ends and leaves the file where it is.
ReadNext(c) ==
  /\ listing[c] # <<>> /\ ~opened[c]
  /\ LET m == Head(listing[c]) IN
       \/ /\ There(m) /\ form[m] = "good"
          /\ opened' = [opened EXCEPT ![c] = TRUE] /\ UNCHANGED <<place, listing, taken, lost>>
       \/ /\ There(m) /\ form[m] = "malformed"
          /\ place' = [place EXCEPT ![m] = "errors"] /\ Passes(c)
       \/ There(m) /\ form[m] = "undecodable" /\ LetsGo(c) /\ UNCHANGED place
       \/ ~There(m) /\ Passes(c) /\ UNCHANGED place
  /\ UNCHANGED <<stamp, form, wall, polling, handled, faults>>

\* A consumer that does not look whether its move succeeded; only a mutant uses it.
TakeRegardless(c) ==
  /\ listing[c] # <<>> /\ opened[c]
  /\ place' = [place EXCEPT ![Head(listing[c])] = "archive"]
  /\ taken' = [taken EXCEPT ![c] = Append(@, Head(listing[c]))]
  /\ listing' = [listing EXCEPT ![c] = Tail(@)]
  /\ opened' = [opened EXCEPT ![c] = FALSE]
  /\ UNCHANGED <<stamp, form, wall, polling, handled, lost, faults>>

\* A file that could be read is moved to the archive, and only who moves it has it.
TakeNext(c) ==
  /\ listing[c] # <<>> /\ opened[c]
  /\ LET m == Head(listing[c]) IN
       \/ /\ There(m)
          /\ place' = [place EXCEPT ![m] = "archive"]
          /\ taken' = [taken EXCEPT ![c] = Append(@, m)]
          /\ listing' = [listing EXCEPT ![c] = Tail(@)]
          /\ opened' = [opened EXCEPT ![c] = FALSE]
          /\ UNCHANGED lost
       \/ ~There(m) /\ Passes(c) /\ UNCHANGED place
  /\ UNCHANGED <<stamp, form, wall, polling, handled, faults>>

\* The file is there and an operation on it fails.  One that was parsed and cannot be
\* moved is left for the next poll.  One that cannot be read is quarantined, or deleted
\* if it cannot be moved; where it can be neither, where its age cannot be told or the
\* directory of errors not be made, the call raises.
FileFails(c) ==
  /\ faults < MaxFaults /\ faults' = faults + 1
  /\ listing[c] # <<>> /\ There(Head(listing[c]))
  /\ LET m == Head(listing[c]) IN
       \/ opened[c] /\ Passes(c) /\ UNCHANGED place
       \/ /\ ~opened[c] /\ Passes(c)
          /\ \E to \in {"errors", "deleted"} : place' = [place EXCEPT ![m] = to]
       \/ ~opened[c] /\ LetsGo(c) /\ UNCHANGED place
  /\ UNCHANGED <<stamp, form, wall, polling, handled>>

\* The handler is awaited; what it raises goes to the log.
HandleNext(c) ==
  /\ listing[c] = <<>> /\ taken[c] # <<>>
  /\ handled' = [handled EXCEPT ![Head(taken[c])] = @ + 1]
  /\ taken' = [taken EXCEPT ![c] = Tail(@)]
  /\ UNCHANGED <<place, stamp, form, wall, polling, listing, opened, lost, faults>>

\* The consumer dies and starts anew.
CrashConsumer(c) ==
  /\ ~IdleConsumer(c) /\ faults < MaxFaults /\ faults' = faults + 1
  /\ LetsGo(c)
  /\ UNCHANGED <<place, stamp, form, wall, polling, handled>>

ConsumerStep(c) == Poll(c) \/ ReadNext(c) \/ TakeNext(c) \/ HandleNext(c)

MailboxNext ==
  \/ \E w \in Writer, k \in 1 .. MaxSent : Publish(w, k) \/ Ripen(w, k)
  \/ Tick \/ ClockTurnsBack
  \/ \E c \in Consumer : ConsumerStep(c) \/ FileFails(c) \/ CrashConsumer(c)

MailboxSpec == MailboxInit /\ [][MailboxNext]_mailboxVars

\* A consumer keeps polling and gets on with what it has listed, and time passes.
MailboxFairness ==
  /\ \A c \in Consumer : WF_mailboxVars(ConsumerStep(c))
  /\ WF_mailboxVars(Tick)
  /\ \A w \in Writer, k \in 1 .. MaxSent : WF_mailboxVars(Ripen(w, k))

-----------------------------------------------------------------------------
MailboxTypeOK ==
  /\ place \in [Message -> Place]
  /\ stamp \in [Message -> 0 .. MaxMillis] /\ wall \in 1 .. MaxMillis
  /\ form \in [Message -> Form]
  /\ lost \in SUBSET Message
  /\ polling \in SUBSET Consumer
  /\ listing \in [Consumer -> Seq(Message)] /\ taken \in [Consumer -> Seq(Message)]
  /\ opened \in [Consumer -> BOOLEAN]
  /\ handled \in [Message -> Nat]
  /\ faults \in 0 .. MaxFaults

InHands(m) == \E c \in Consumer : \E i \in DOMAIN taken[c] : taken[c][i] = m

\* No message is handled twice, whoever polls; one that is archived was handled, is
\* about to be, or went with the call that archived it, which takes a fault or a file
\* that cannot be decoded; and where no clock was set back and nothing failed, a single
\* consumer hears a writer in the order it wrote, messages of one millisecond and those
\* so lost or overwritten apart.
HeardOnceInOrder ==
  /\ \A m \in Message :
       /\ handled[m] <= 1
       /\ handled[m] = 1 => place[m] = "archive" /\ form[m] = "good"
       /\ place[m] = "archive" => handled[m] = 1 \/ InHands(m) \/ m \in lost
  /\ lost # {} => faults > 0 \/ \E m \in Message : form[m] = "undecodable"
  /\ \A w \in Writer : \A j, k \in 1 .. MaxSent :
       (/\ j < k /\ handled[<<w, k>>] = 1 /\ handled[<<w, j>>] = 0
        /\ faults = 0 /\ \A c, d \in polling : c = d) =>
          \/ form[<<w, j>>] # "good" \/ stamp[<<w, j>>] = stamp[<<w, k>>]
          \/ <<w, j>> \in lost \/ place[<<w, j>>] = "overwritten"

\* A message whose grace period is over is consumed or quarantined, or lost on the way,
\* however many malformed files lie beside it, whatever crashes and wherever the clock
\* is set, unless a file that cannot be decoded lies before it for good.
EveryMessageArrives ==
  \A m \in Message :
    \/ place[m] = "pending" ~>
         (place[m] \in {"errors", "deleted", "overwritten"} \/ handled[m] = 1 \/ m \in lost)
    \/ \E u \in Message : <>[](There(u) /\ form[u] = "undecodable" /\ stamp[u] <= stamp[m])
=============================================================================
