-------------------------- MODULE EnvironmentRelease --------------------------
(***************************************************************************)
(* The life of one dependency directory (node_modules, .venv) of a linked  *)
(* checkout: prepared by repokit.dependencies (Python), released by        *)
(* CleanWorktrees (toolkit/go/worktree) or clean_worktrees (Python), and   *)
(* meanwhile within everybody's reach.                                     *)
(*                                                                         *)
(* Preparation and release exclude each other by a lease on the            *)
(* repository.  A release writes a journal before it deletes anything and  *)
(* retires it afterwards, so that a directory whose receipt is already     *)
(* gone is still known to be RepoKit's.  Processes may die anywhere; the   *)
(* user edits manifests and may replace the directory.                     *)
(***************************************************************************)
EXTENDS Naturals

CONSTANTS Preparer,       \* processes that prepare the environment
          Cleaner,        \* processes that run worktree maintenance
          Nobody,         \* holder of a free lease
          Fingerprint,    \* digests of manifests and lockfile
          MaxIdentity,    \* bound on the directories made, each with its own identity
          Reinstalls,     \* whether the installer starts from an empty directory
          MaxEdits,       \* bound on the user's edits of manifests
          MaxUserActs,    \* bound on the user's changes of the directory
          MaxCrashes      \* bound on dying processes

ASSUME ProcessAssumption == Preparer \cap Cleaner = {} /\ Nobody \notin Preparer \cup Cleaner
ASSUME SwitchAssumption == Reinstalls \in BOOLEAN
ASSUME BoundAssumption == {MaxIdentity, MaxEdits, MaxUserActs, MaxCrashes} \subseteq Nat

VARIABLES
    inputs,     \* digest of the manifests as they are now
    during,     \* what they have been while the installer runs
    undone,     \* whether an edit was undone before the last installation was over
    dir,        \* the directory, or Absent: identity, contents, receipt
    used,       \* how many identities directories have had
    journal,    \* repokit-releases.json: the identity being released, if any
    lease,      \* who holds the repository's lease
    pc,         \* where each process is
    want,       \* the digest a preparation was asked for
    excess,     \* whether this environment is beyond max_prepared
    edits, acts, crashes

manifests == <<inputs, during, undone, edits>>
userVars == <<manifests, acts>>
vars == <<dir, used, journal, lease, pc, want, excess, userVars, crashes>>

\* Device and inode number; a number is not given out twice.
Identity == 1..MaxIdentity

Process == Preparer \cup Cleaner
None == [state |-> "none"]
Absent == [state |-> "absent"]
Some(i) == [state |-> "some", id |-> i]
\* Its contents are an installation, half of one ("partial"), what a deletion has
\* left ("remains") or a user's own; its receipt names the inputs, if any.
Remains == [kind |-> "remains"]

Present == dir # Absent
\* dependencies.py, _observe: what a receipt that fits the inputs is taken for.
Ready == Present /\ dir.receipt = Some(inputs)

\* pendingReleases: a journal entry without its directory is a finished
\* deletion, another directory in its place is an error.
Deleted == journal # None /\ ~Present
AnyDirectory == TRUE                              \* mutant: path compared, not identity
SameDirectory == journal = Some(dir.id)
Replaced == journal # None /\ Present /\ ~SameDirectory
Pending == journal # None /\ Present /\ SameDirectory
RetiredNever == journal                           \* mutant: recovery left out
Retired == IF Deleted THEN None ELSE journal

\* worktreeEnvironments: what a clean may delete.
ManagedReceipt == Present /\ dir.receipt # None   \* mutant: journal not consulted
Managed == Pending \/ (Present /\ dir.receipt # None)

Move(p, from, to) == pc[p] = from /\ pc' = [pc EXCEPT ![p] = to]
Leave(p) == lease' = Nobody /\ pc' = [pc EXCEPT ![p] = "idle"]

-----------------------------------------------------------------------------
\* Preparation (dependencies.py, prepare_dependencies).
Inspect(p) ==
    /\ Move(p, "idle", "wait")
    /\ want' = [want EXCEPT ![p] = inputs]
    /\ UNCHANGED <<dir, used, journal, lease, excess, userVars, crashes>>

Acquire(p) ==
    /\ Move(p, "wait", IF p \in Preparer THEN "pending" ELSE "list") /\ lease = Nobody
    /\ lease' = p
    /\ UNCHANGED <<dir, used, journal, want, excess, userVars, crashes>>

\* "environment release pending", or an error for a replaced directory.
RefusePending(p) ==
    /\ pc[p] = "pending" /\ (Pending \/ Replaced)
    /\ Leave(p)
    /\ UNCHANGED <<dir, used, journal, want, excess, userVars, crashes>>

NothingPending(p) ==
    /\ Move(p, "pending", "check") /\ ~Pending /\ ~Replaced
    /\ journal' = Retired
    /\ UNCHANGED <<dir, used, lease, want, excess, userVars, crashes>>

\* Inputs changed since the inspection, or nothing to do.
NoInstall(p) ==
    /\ pc[p] = "check" /\ (inputs # want[p] \/ Ready)
    /\ Leave(p)
    /\ UNCHANGED <<dir, used, journal, want, excess, userVars, crashes>>

NewIdentity(i) == i = used + 1 /\ used' = i

\* The installer runs: from an empty directory (npm ci) or in place (uv sync).
Install(p) ==
    /\ Move(p, "check", "install") /\ inputs = want[p] /\ ~Ready
    /\ IF Reinstalls \/ ~Present
         THEN \E i \in Identity :
                 /\ NewIdentity(i)
                 /\ dir' = [state |-> "present", id |-> i, contents |-> [kind |-> "partial"],
                            receipt |-> None]
         ELSE dir' = [dir EXCEPT !.contents = [kind |-> "partial"]] /\ UNCHANGED used
    /\ during' = {inputs} /\ undone' = FALSE
    /\ UNCHANGED <<journal, lease, want, excess, inputs, edits, acts, crashes>>

\* It may have read the manifests before an edit or after one.
Installed(p) ==
    /\ Move(p, "install", "verify") /\ Present
    /\ \E f \in during :
          dir' = [dir EXCEPT !.contents = [kind |-> "installed", of |-> f]]
    /\ during' = {}
    /\ UNCHANGED <<used, journal, lease, want, excess, inputs, undone, edits, acts, crashes>>

\* The installer fails or is interrupted, or its directory is gone.
InstallFails(p) ==
    /\ pc[p] = "install"
    /\ Leave(p) /\ during' = {}
    /\ UNCHANGED <<dir, used, journal, want, excess, inputs, undone, edits, acts, crashes>>

UncheckedInputs(p) == TRUE                        \* mutant: no second inspection
SameInputs(p) == inputs = want[p]

\* The receipt is the last thing written.
WriteReceipt(p) ==
    /\ pc[p] = "verify" /\ Present /\ SameInputs(p)
    /\ dir' = [dir EXCEPT !.receipt = Some(want[p])]
    /\ Leave(p)
    /\ UNCHANGED <<used, journal, want, excess, userVars, crashes>>

NoReceipt(p) ==
    /\ pc[p] = "verify" /\ (~Present \/ ~SameInputs(p))
    /\ Leave(p)
    /\ UNCHANGED <<dir, used, journal, want, excess, userVars, crashes>>

-----------------------------------------------------------------------------
\* Maintenance (clean.go, CleanWorktrees; environment.go).
Begin(c) ==
    /\ Move(c, "idle", "wait")
    /\ UNCHANGED <<dir, used, journal, lease, want, excess, userVars, crashes>>

\* The inventory, first for the counts and again before the release.
List(c) ==
    /\ Move(c, "list", "again") /\ ~Replaced /\ Present /\ excess /\ Managed
    /\ UNCHANGED <<dir, used, journal, lease, want, excess, userVars, crashes>>

ListAgain(c) ==
    /\ Move(c, "again", "mark") /\ ~Replaced /\ Managed
    /\ UNCHANGED <<dir, used, journal, lease, want, excess, userVars, crashes>>

\* Nothing to release here, or an error: replaced or changed meanwhile.
NoRelease(c) ==
    /\ \/ pc[c] = "list" /\ (Replaced \/ ~Managed \/ ~excess)
       \/ pc[c] \in {"again", "mark"} /\ (Replaced \/ ~Managed)
    /\ journal' = Retired
    /\ Leave(c)
    /\ UNCHANGED <<dir, used, want, excess, userVars, crashes>>

\* releaseEnvironment, up to the first deletion: bind the identity.
Marked == Some(dir.id)
Mark(c) ==
    /\ Move(c, "mark", "delete") /\ ~Replaced /\ Present
    /\ journal' = Marked
    /\ UNCHANGED <<dir, used, lease, want, excess, userVars, crashes>>

\* removeEnvironmentContents works by path, entry by entry, the directory last.
\* Its receipt is one of the entries, and goes before the others or after them.
DeleteEntry(c) ==
    /\ pc[c] = "delete" /\ Present
    /\ \/ dir.receipt # None /\ dir' = [dir EXCEPT !.receipt = None]
       \/ dir.contents # Remains /\ dir' = [dir EXCEPT !.contents = Remains]
    /\ UNCHANGED <<pc, used, journal, lease, want, excess, userVars, crashes>>

DeleteRest(c) ==
    /\ Move(c, "delete", "retire")
    /\ ~Present \/ (dir.contents = Remains /\ dir.receipt = None)
    /\ dir' = Absent
    /\ UNCHANGED <<used, journal, lease, want, excess, userVars, crashes>>

Retire(c) ==
    /\ pc[c] = "retire"
    /\ journal' = None
    /\ Leave(c)
    /\ UNCHANGED <<dir, used, want, excess, userVars, crashes>>

-----------------------------------------------------------------------------
\* A process dies and the kernel gives its lease back, or it gives up between two
\* entries (context over, I/O error).  Its installer ends with it.
Crash(p) ==
    /\ pc[p] # "idle" /\ crashes < MaxCrashes
    /\ crashes' = crashes + 1
    /\ pc' = [pc EXCEPT ![p] = "idle"]
    /\ lease' = IF lease = p THEN Nobody ELSE lease
    /\ UNCHANGED <<dir, used, journal, want, excess, userVars>>

\* Anything is edited at any time, and put back.
Installing(p) == pc[p] \in {"install", "verify"}
Edit(f) ==
    /\ edits < MaxEdits /\ f # inputs
    /\ inputs' = f /\ edits' = edits + 1
    /\ during' = IF \E p \in Preparer : pc[p] = "install" THEN during \cup {f} ELSE during
    /\ undone' = (undone \/ \E p \in Preparer : Installing(p) /\ f = want[p])
    /\ UNCHANGED <<dir, used, journal, lease, pc, want, excess, acts, crashes>>

\* The user leaves the directory to whoever holds the lease.
UserMay == acts < MaxUserActs /\ lease = Nobody /\ acts' = acts + 1

UserInstalls(i) ==
    /\ UserMay /\ ~Present /\ NewIdentity(i)
    /\ dir' = [state |-> "present", id |-> i, contents |-> [kind |-> "user"], receipt |-> None]
    /\ UNCHANGED <<journal, lease, pc, want, excess, manifests, crashes>>

UserRemoves ==
    /\ UserMay /\ Present
    /\ dir' = Absent
    /\ UNCHANGED <<used, journal, lease, pc, want, excess, manifests, crashes>>

\* Other checkouts come and go, and so does max_prepared.
Recount ==
    /\ lease = Nobody
    /\ excess' = ~excess
    /\ UNCHANGED <<dir, used, journal, lease, pc, want, userVars, crashes>>

-----------------------------------------------------------------------------
Init ==
    /\ inputs \in Fingerprint /\ during = {} /\ undone = FALSE /\ dir = Absent /\ used = 0 /\ journal = None
    /\ lease = Nobody /\ pc = [p \in Process |-> "idle"]
    /\ want = [p \in Preparer |-> inputs]
    /\ excess = TRUE /\ edits = 0 /\ acts = 0 /\ crashes = 0

Prepare(p) ==
    \/ Inspect(p) \/ Acquire(p) \/ RefusePending(p) \/ NothingPending(p) \/ NoInstall(p)
    \/ Install(p) \/ Installed(p) \/ InstallFails(p) \/ WriteReceipt(p) \/ NoReceipt(p)
Clean(c) ==
    \/ Begin(c) \/ Acquire(c) \/ List(c) \/ ListAgain(c) \/ NoRelease(c) \/ Mark(c)
    \/ DeleteEntry(c) \/ DeleteRest(c) \/ Retire(c)
World ==
    \/ Recount \/ UserRemoves \/ \E f \in Fingerprint : Edit(f)
    \/ \E i \in Identity : UserInstalls(i)
    \/ \E p \in Process : Crash(p)

Next ==
    \/ \E p \in Preparer : Prepare(p)
    \/ \E c \in Cleaner : Clean(c)
    \/ World

Spec == Init /\ [][Next]_vars

\* Maintenance is run again and again; a lease wait that loses a race is
\* repeated, so a process that keeps asking for the lease gets it.
FairSpec ==
    /\ Spec
    /\ \A c \in Cleaner : WF_vars(Clean(c)) /\ SF_vars(Acquire(c))
    /\ \A p \in Preparer : WF_vars(Prepare(p) /\ pc[p] # "idle")

-----------------------------------------------------------------------------
\* What a preparation takes for ready, having looked at the journal first, or
\* would, is a whole installation, whatever was interrupted, edited, half deleted
\* or crashed in between (dependencies.py:308 "interruption after launch is
\* uncertain, never ready").  It is one of the manifests as they are, unless an
\* edit was undone before the installation was over, whose inputs are compared
\* before it and after it (dependencies.py:319, 366).
ReadyIsInstalled ==
    Ready /\ (~Pending \/ \E p \in Preparer : pc[p] = "check") =>
        dir.contents.kind = "installed" /\ (undone \/ dir.contents.of = inputs)

\* What a deletion has left is known to be RepoKit's: the journal names it,
\* whether its receipt is gone or fits, and though its process may be dead
\* (environment.go:89).
RemainsJournaled ==
    Present /\ dir.contents = Remains => journal = Some(dir.id)

\* A directory the user made is never deleted, not even where the journal names
\* its predecessor (docs/worktrees.md:93 "recovery never authorizes deleting a
\* replacement directory").
ReplacementKept ==
    \A c \in Cleaner : (pc[c] = "delete" /\ Present) => dir.contents # [kind |-> "user"]

\* The journal tells the two apart, whatever dies: what may be deleted further,
\* and what may not be touched.
JournalIsTrue == RemainsJournaled /\ ReplacementKept

\* Nothing is prepared in a directory that is being released
\* (environment.go:53, worktrees.py:212).
ReleaseBeforePreparation ==
    \A p \in Preparer : pc[p] \in {"install", "verify"} => journal = None

\* A release that was begun is finished by later maintenance, whatever dies:
\* its journal is retired, unless the environment has come within the limit
\* again or another directory has taken its place, which is an error the user
\* has to settle (clean.go:273; docs/worktrees.md:53 "can be retried").
ReleaseFinishes == journal # None ~> (journal = None \/ Replaced \/ ~excess)
=============================================================================
