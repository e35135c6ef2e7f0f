---------------------------- MODULE Confinement -----------------------------
(***************************************************************************)
(* The launch of a subprocess worker under an isolation policy, from the   *)
(* policy the worker is given to the entry point of the step.  Landlock    *)
(* confines a process from within: the wrapped command is a shim that      *)
(* builds a ruleset, restricts itself and only then becomes the payload,   *)
(* and each of its system calls may fail.  The sandbox of macOS confines   *)
(* from without, by a profile that is written when the command is wrapped  *)
(* and read when it is run.                                                *)
(*                                                                         *)
(* Timeouts and what the step does are in Workers.  Network access is left *)
(* out: for Landlock the flag is advisory.                                 *)
(***************************************************************************)
EXTENDS Integers

CONSTANT Runtime   \* paths a Python process needs: interpreter, libraries, certificates

VARIABLES
  host,       \* what the platform offers
  isolation,  \* isolation_policy of the worker
  readonly,   \* allowed_paths after the first
  present,    \* paths that exist
  launch,     \* how far the process has come
  ungranted,  \* paths the shim has no rule for yet
  ruleset,    \* rights granted by its rules
  access,     \* what the kernel lets the process do
  reply       \* what run_session has told its caller

confinementVars ==
  <<host, isolation, readonly, present, launch, ungranted, ruleset, access, reply>>

\* "home" stands for every path that is in no list.
Path == Runtime \cup {"session", "home"}

\* Groups of the access bits: special files, moves between directories (ABI 2) and
\* truncation (ABI 3) belong neither to _READ_RIGHTS nor to _WRITE_RIGHTS.
ReadRights == {"read"}
WriteRights == {"write"}
Right == ReadRights \cup WriteRights \cup {"special", "refer", "truncate"}

\* abi is 0 without Landlock; the shim knows the system calls of two machines.
Host ==
  [platform : {"linux"}, abi : 0 .. 4, machineKnown : BOOLEAN, sandboxExec : {FALSE}]
  \cup [platform : {"darwin"}, abi : {0}, machineKnown : {TRUE}, sandboxExec : BOOLEAN]
  \cup [platform : {"other"}, abi : {0}, machineKnown : {TRUE}, sandboxExec : {FALSE}]

LandlockAvailable == host.platform = "linux" /\ host.abi > 0
SandboxExecAvailable == host.platform = "darwin" /\ host.sandboxExec

DetectBestPolicy ==
  IF LandlockAvailable THEN "landlock"
  ELSE IF SandboxExecAvailable THEN "sandbox-exec" ELSE "noop"

ChooseHandledAccess(abi) ==
  (Right \ {"refer", "truncate"})
  \cup (IF abi >= 2 THEN {"refer"} ELSE {})
  \cup (IF abi >= 3 THEN {"truncate"} ELSE {})

-----------------------------------------------------------------------------
ConfinementInit ==
  /\ host \in Host
  /\ isolation = "none"
  /\ readonly = {}
  /\ present = Path
  /\ launch = "unused"
  /\ ungranted = {}
  /\ ruleset = [p \in Path |-> {}]
  /\ access = [p \in Path |-> Right]
  /\ reply = "waiting"

Proceeds(from, to) == launch = from /\ launch' = to

\* SubprocessWorker: without a policy, with the best one or with any that is named.
\* The read-only paths are given, or are those of the runtime that exist.
MakeWorker ==
  /\ Proceeds("unused", "made")
  /\ \/ isolation' = DetectBestPolicy
     \/ isolation' \in {"none", "noop", "landlock", "sandbox-exec"}
  /\ readonly' \in SUBSET Runtime \/ readonly' = Runtime \cap present
  /\ UNCHANGED <<host, present, ungranted, ruleset, access, reply>>

\* A directory is removed or archived while the process starts.
Vanish(p) ==
  /\ p \in present
  /\ present' = present \ {p}
  /\ UNCHANGED <<host, isolation, readonly, launch, ungranted, ruleset, access, reply>>

Ends(answer) == launch' = "over" /\ reply' = answer
Unchanged == UNCHANGED <<host, isolation, readonly, present>>

\* wrap_command of NoOpPolicy, or no policy: the command as it is.
SpawnUnconfined ==
  /\ isolation \in {"none", "noop"}
  /\ Proceeds("made", "payload")
  /\ UNCHANGED <<ungranted, ruleset, access, reply>> /\ Unchanged

\* wrap_command of LandlockPolicy: the first path to read and write, the rest to read.
SpawnShim ==
  /\ isolation = "landlock"
  /\ Proceeds("made", "shim")
  /\ ungranted' = readonly \cup {"session"}
  /\ UNCHANGED <<ruleset, access, reply>> /\ Unchanged

\* wrap_command of SandboxExecPolicy: the profile goes to a temporary file, or the
\* write fails and the exception leaves run_session.
WriteProfile ==
  /\ isolation = "sandbox-exec"
  /\ \/ Proceeds("made", "profiled") /\ UNCHANGED reply
     \/ launch = "made" /\ Ends("raised")
  /\ UNCHANGED <<ungranted, ruleset, access>> /\ Unchanged

\* create_subprocess_exec finds no such program.
SpawnFindsNothing ==
  /\ \/ launch = "profiled" /\ ~SandboxExecAvailable
     \/ launch = "made" /\ isolation \in {"none", "noop", "landlock"}
  /\ Ends("idle")
  /\ UNCHANGED <<ungranted, ruleset, access>> /\ Unchanged

\* sandbox-exec denies what the profile does not allow and runs the command; without
\* a profile it can read it runs nothing.
SandboxRuns ==
  /\ launch = "profiled" /\ SandboxExecAvailable
  /\ \/ /\ access' = [p \in Path |-> IF p = "session" THEN Right
                                     ELSE IF p \in readonly THEN ReadRights ELSE {}]
        /\ launch' = "payload"
        /\ UNCHANGED reply
     \/ Ends("idle") /\ UNCHANGED access
  /\ UNCHANGED <<ungranted, ruleset>> /\ Unchanged

-----------------------------------------------------------------------------
\* landlock_shim.

CreateRuleset ==
  /\ LandlockAvailable /\ host.machineKnown
  /\ Proceeds("shim", "ruleset")
  /\ UNCHANGED <<ungranted, ruleset, access, reply>> /\ Unchanged

\* _add_path, for the paths to read first; a path that cannot be opened fails.
AddPath(p) ==
  LET rights == IF p = "session" THEN ReadRights \cup WriteRights ELSE ReadRights
  IN /\ launch = "ruleset"
     /\ p \in ungranted \cap present
     /\ p = "session" => ungranted = {"session"}
     /\ ruleset' = [ruleset EXCEPT ![p] = @ \cup (rights \cap ChooseHandledAccess(host.abi))]
     /\ ungranted' = ungranted \ {p}
     /\ UNCHANGED <<launch, access, reply>> /\ Unchanged

\* prctl; the kernel restricts no process that could gain privileges.
SetNoNewPrivs ==
  /\ ungranted = {}
  /\ Proceeds("ruleset", "sealed")
  /\ UNCHANGED <<ungranted, ruleset, access, reply>> /\ Unchanged

\* From here on a right that is handled is denied where no rule grants it.
RestrictSelf ==
  /\ Proceeds("sealed", "restricted")
  /\ access' = [p \in Path |-> (Right \ ChooseHandledAccess(host.abi)) \cup ruleset[p]]
  /\ UNCHANGED <<ungranted, ruleset, reply>> /\ Unchanged

Exec ==
  /\ Proceeds("restricted", "payload")
  /\ UNCHANGED <<ungranted, ruleset, access, reply>> /\ Unchanged

\* Mutant of ShimFails: an unprotected child instead of none.
ShimRunsAnyway ==
  /\ launch \in {"shim", "ruleset", "sealed", "restricted"}
  /\ launch' = "payload"
  /\ UNCHANGED <<ungranted, ruleset, access, reply>> /\ Unchanged

\* Any of its calls fails: the shim exits with 3, or with 1 on an exception nobody
\* catches, and the caller is told that nothing was done.
ShimFails ==
  /\ launch \in {"shim", "ruleset", "sealed", "restricted"}
  /\ Ends("idle")
  /\ UNCHANGED <<ungranted, ruleset, access>> /\ Unchanged

\* The entry point of the worker exits with 2 when the session is gone.
EnterPayload ==
  /\ launch = "payload"
  /\ IF "session" \in present THEN Ends("step") ELSE Ends("idle")
  /\ UNCHANGED <<ungranted, ruleset, access>> /\ Unchanged

ConfinementNext ==
  \/ MakeWorker \/ SpawnUnconfined \/ SpawnShim \/ WriteProfile \/ SpawnFindsNothing
  \/ SandboxRuns \/ CreateRuleset \/ SetNoNewPrivs \/ RestrictSelf \/ Exec \/ ShimFails
  \/ EnterPayload
  \/ \E p \in Path : Vanish(p) \/ AddPath(p)

ConfinementSpec == ConfinementInit /\ [][ConfinementNext]_confinementVars

-----------------------------------------------------------------------------
\* What a policy allows the payload to do with a path.
Promised(p) ==
  IF p = "session" THEN Right ELSE IF p \in readonly THEN ReadRights ELSE {}

\* Under a policy that confines, the payload runs with no right its policy governs
\* beyond what was promised and with what it needs to work, or it does not run:
\* a call of the shim that fails, a path that is gone, a profile nobody reads ends
\* the launch (landlock_shim.py:347, "Fail closed").
ConfinedOrNotAtAll ==
  launch = "payload" /\ isolation \in {"landlock", "sandbox-exec"} =>
    LET governed == IF isolation = "landlock" THEN ChooseHandledAccess(host.abi) ELSE Right
    IN /\ \A p \in Path : access[p] \cap governed \subseteq Promised(p)
       /\ \A p \in readonly : ReadRights \subseteq access[p]
       /\ ReadRights \cup WriteRights \subseteq access["session"]
=============================================================================
