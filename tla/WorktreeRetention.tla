-------------------------- MODULE WorktreeRetention --------------------------
(***************************************************************************)
(* One repository's linked checkouts and the cleaning that keeps their     *)
(* number down (toolkit/go/worktree: clean.go, CleanWorktrees; git.go).    *)
(*                                                                         *)
(* A cleaning lists the checkouts, observes each, removes those whose pull *)
(* request is merged, then the oldest beyond MaxCount, and then releases   *)
(* the oldest environments beyond MaxPrepared.  It holds the repository's  *)
(* lease, which only those who prepare and add checkouts respect: between  *)
(* any two of its steps, the checks before a removal and the removal among *)
(* them, users commit, edit, lock, detach and remove.                      *)
(*                                                                         *)
(* What releasing one environment does is in EnvironmentRelease.tla.       *)
(* Questions to git and the forge may go unanswered.                       *)
(***************************************************************************)
EXTENDS Naturals, Sequences, FiniteSets

CONSTANTS Place,         \* where checkouts may be: numbers, ordered as the names
          Nested,       \* pairs <<p, q>>: q is a directory in p
          MaxCount, MaxPrepared,
          MaxTime,      \* bound on creation times
          MaxActs       \* bound on what users do and on unanswered questions

ASSUME PathAssumption == IsFiniteSet(Place) /\ Place \subseteq Nat /\ Nested \subseteq Place \X Place
ASSUME PolicyAssumption == {MaxCount, MaxPrepared} \subseteq Nat /\ MaxPrepared <= MaxCount
ASSUME BoundAssumption == {MaxTime, MaxActs} \subseteq Nat

VARIABLES
    wt,        \* the checkout at each path, or none
    merged,    \* paths whose branch has a pull request merged at its first head
    stage,        \* stage of the cleaning
    dry,       \* whether it only plans
    since,     \* acts when it began
    checked,   \* when each check of the removal at hand was passed, in order
    todo,      \* what the stage has yet to come to, in order
    entry,      \* what the cleaning knows of each checkout it listed
    removed,   \* why the cleaning removed, or would remove, it; "" if not
    released,  \* whose environment it released, or would
    plan,      \* what the last dry run predicted, and acts when it did
    time, acts

facts == <<wt, merged, time, acts>>
found == <<dry, since, entry>>
retentionVars == <<facts, stage, found, todo, checked, removed, released, plan>>

None == [state |-> "none"]
\* "clean", or the one thing that is in the way; "ignored": unmanaged files git
\* ignores; "locked": git worktree lock, or a git operation in progress; "stray":
\* detached, with commits no branch has.
State == {"clean", "dirty", "ignored", "locked", "detached", "stray"}
CheckoutRecord ==
    [state : State, at : 0..MaxActs, head : 0..MaxActs, created : 0..MaxTime,
     env : {"none", "managed", "unmanaged"}]
Unobserved == [head |-> 0, detached |-> FALSE, created |-> 0, env |-> "none", excluded |-> TRUE]
NoPlan == [acts |-> MaxActs + 1, removed |-> [p \in Place |-> ""], released |-> {}]

There(p) == wt[p] # None
Detached(p) == wt[p].state \in {"detached", "stray"}
Candidates == {p \in Place : entry[p] # None}
Excluded(p) == entry[p].excluded

\* The elements of S, each before those it is before in the given pairs.
InOrder(S, before) ==
    CHOOSE s \in [1..Cardinality(S) -> S] :
        \A i, j \in 1..Cardinality(S) : i < j => <<s[i], s[j]>> \in before
ByName == {pair \in Place \X Place : pair[1] < pair[2]}

\* The order of retention; a creation time that is not known is 0.
Older(p, q) ==
    \/ entry[p].created < entry[q].created
    \/ entry[p].created = entry[q].created /\ p < q
OldestFirst(S) == InOrder(S, {pair \in S \X S : Older(pair[1], pair[2])})
Beyond(S, limit) ==
    IF Cardinality(S) <= limit THEN <<>>
    ELSE SubSeq(OldestFirst(S), 1, Cardinality(S) - limit)

-----------------------------------------------------------------------------
\* worktreeProtection: the checkout is still the one that was listed, is on a
\* branch, is not locked and has no other checkout in it.
SameUnchecked(p) == There(p)                      \* mutant: only the path is compared
SameEntry(p) == There(p) /\ wt[p].head = entry[p].head /\ Detached(p) = entry[p].detached
Same(p) == SameEntry(p)
HoldsAnother(p) == \E q \in Place \ {p} : <<p, q>> \in Nested /\ There(q)
Protected(p) == ~Same(p) \/ Detached(p) \/ wt[p].state = "locked" \/ HoldsAnother(p)

\* worktreeRemovalProtection: nothing unsaved, nothing ignored but environments.
SavedTracked(p) == There(p) /\ wt[p].state # "dirty"   \* mutant: ignored files do not count
SavedAll(p) ==
    There(p) /\ wt[p].state \notin {"dirty", "ignored"} /\ wt[p].env \in {"none"} \cup ({entry[p].env} \ {"unmanaged"})
Saved(p) == SavedAll(p)

\* git worktree remove, without --force: it looks at what git would track.
GitRemoves(p) == There(p) /\ wt[p].state \notin {"dirty", "locked"}

\* What nothing else holds, and the check before a removal that looks for it last.
Irreplaceable(p) == wt[p].state \in {"ignored", "stray"}
LooksFor(state) == IF state = "ignored" THEN 2 ELSE 3

-----------------------------------------------------------------------------
BeginCleaning(d) ==
    /\ stage = "idle" /\ stage' = "observe" /\ dry' = d /\ since' = acts
    /\ entry' = [p \in Place |-> IF There(p)
                               THEN [Unobserved EXCEPT !.head = wt[p].head, !.detached = Detached(p)]
                               ELSE None]
    /\ todo' = InOrder({p \in Place : There(p)}, ByName)
    /\ removed' = [p \in Place |-> ""] /\ released' = {}
    /\ UNCHANGED <<facts, checked, plan>>

At(s) == stage = s /\ todo # <<>>
Enter(from, to) == stage = from /\ todo = <<>> /\ stage' = to
This == Head(todo)
Done == todo # <<>> /\ todo' = Tail(todo)

\* git or the forge does not answer.
Unanswered == acts < MaxActs /\ acts' = acts + 1

\* What it knows decides all that follows; what it cannot tell it leaves alone.
Observe ==
    /\ At("observe") /\ Done
    /\ \/ /\ There(This)
          /\ entry' = [entry EXCEPT ![This].created = wt[This].created, ![This].env = wt[This].env,
                                  ![This].excluded = Protected(This)]
          /\ UNCHANGED acts
       \/ IF There(This) THEN Unanswered /\ UNCHANGED entry ELSE UNCHANGED <<acts, entry>>
    /\ UNCHANGED <<wt, merged, time, stage, dry, since, checked, removed, released, plan>>

\* Without a forge there is no merged stage.
Observed ==
    /\ Enter("observe", "merged")
    /\ \/ todo' = InOrder(Candidates, ByName) /\ UNCHANGED acts
       \/ todo' = <<>> /\ Unanswered
    /\ UNCHANGED <<wt, merged, time, found, checked, removed, released, plan>>

-----------------------------------------------------------------------------
\* MergedPullRequest of the branch and head that were listed, asked twice.
IsMerged(p) == p \in merged /\ entry[p].head = 0 /\ ~entry[p].detached

NotMerged ==
    /\ At("merged") /\ Done
    /\ Excluded(This) \/ ~IsMerged(This)
    /\ UNCHANGED <<facts, stage, found, checked, removed, released, plan>>

AskFails ==
    /\ At("merged") /\ Done /\ ~Excluded(This) /\ checked = <<>> /\ Unanswered
    /\ entry' = [entry EXCEPT ![This].excluded = TRUE]
    /\ UNCHANGED <<wt, merged, time, stage, dry, since, checked, removed, released, plan>>

\* Those the merged stage left, the oldest of them beyond the limit.
SurvivorsListed == Candidates                         \* mutant: not counted again
SurvivorsLeft == {p \in Candidates : removed[p] = ""}
Survivors == SurvivorsLeft

Count ==
    /\ Enter("merged", "count")
    /\ todo' = Beyond(Survivors, MaxCount)
    /\ UNCHANGED <<facts, found, checked, removed, released, plan>>

-----------------------------------------------------------------------------
\* remove, which both stages use: three checks, each a question of its own.
Removing ==
    /\ At("merged") \/ At("count")
    /\ stage = "merged" => IsMerged(This)
    /\ ~Excluded(This)
Clear(p, k) == IF k = 2 THEN Saved(p) ELSE ~Protected(p)
NextCheck == Len(checked) + 1

CheckRemoval ==
    /\ Removing /\ Len(checked) < 3 /\ Clear(This, NextCheck)
    /\ checked' = Append(checked, acts)
    /\ UNCHANGED <<facts, stage, found, todo, removed, released, plan>>

MarkedIfDone(p) == IF dry THEN removed ELSE [removed EXCEPT ![p] = stage]   \* mutant
MarkedAnyway(p) == [removed EXCEPT ![p] = stage]
Marked(p) == MarkedAnyway(p)

RemoveCheckout ==
    /\ Removing /\ Done /\ Len(checked) = 3
    /\ dry \/ GitRemoves(This)
    /\ removed' = Marked(This) /\ checked' = <<>>
    /\ wt' = IF dry THEN wt ELSE [wt EXCEPT ![This] = None]
    /\ UNCHANGED <<merged, time, acts, stage, found, released, plan>>

\* It is protected or not saved, a question fails, or git refuses to remove it.
RefuseRemoval ==
    /\ Done
    /\ \/ At("count") /\ Excluded(This) /\ UNCHANGED acts
       \/ Removing /\ Len(checked) < 3 /\ ~Clear(This, NextCheck) /\ UNCHANGED acts
       \/ Removing /\ Len(checked) = 3 /\ ~dry /\ ~GitRemoves(This) /\ UNCHANGED acts
       \/ Removing /\ (Len(checked) < 3 \/ ~dry) /\ Unanswered
    /\ checked' = <<>>
    /\ UNCHANGED <<wt, merged, time, stage, found, removed, released, plan>>

-----------------------------------------------------------------------------
Prepared == {p \in Candidates : removed[p] = "" /\ entry[p].env # "none"}

CountPrepared ==
    /\ Enter("count", "release")
    /\ todo' = Beyond(Prepared, MaxPrepared)
    /\ UNCHANGED <<facts, found, checked, removed, released, plan>>

Releasable(p) == ~Excluded(p) /\ ~Protected(p) /\ entry[p].env = "managed" /\ wt[p].env = "managed"

ReleaseEnvironments ==
    /\ At("release") /\ Done /\ Releasable(This)
    /\ released' = released \cup {This}
    /\ wt' = IF dry THEN wt ELSE [wt EXCEPT ![This].env = "none"]
    /\ UNCHANGED <<merged, time, acts, stage, found, checked, removed, plan>>

Retain ==
    /\ At("release") /\ Done
    /\ IF Releasable(This) THEN Unanswered ELSE UNCHANGED acts
    /\ UNCHANGED <<wt, merged, time, stage, found, checked, removed, released, plan>>

EndCleaning ==
    /\ Enter("release", "idle")
    /\ plan' = IF dry THEN [acts |-> since, removed |-> removed, released |-> released] ELSE NoPlan
    /\ entry' = [p \in Place |-> None] /\ since' = 0 /\ dry' = FALSE
    /\ removed' = [p \in Place |-> ""] /\ released' = {}
    /\ UNCHANGED <<facts, todo, checked>>

-----------------------------------------------------------------------------
\* Users, at any time; adding and preparing wait for the lease.
Act ==
    /\ acts < MaxActs /\ acts' = acts + 1
    /\ UNCHANGED <<stage, found, todo, checked, removed, released, plan>>
Alter(p, c) == There(p) /\ wt' = [wt EXCEPT ![p] = c]

\* Edits, files git ignores, locks; detaching, and committing there in one go.
Turn(p, state) ==
    /\ Act /\ Alter(p, [wt[p] EXCEPT !.state = state, !.at = acts'])
    /\ "clean" \in {state, wt[p].state} /\ state # wt[p].state
    /\ UNCHANGED <<merged, time>>

Commit(p) ==
    /\ Act /\ Alter(p, [wt[p] EXCEPT !.head = acts'])
    /\ wt[p].state = "clean" /\ wt[p].head = 0
    /\ UNCHANGED <<merged, time>>

Install(p) ==
    /\ Act /\ Alter(p, [wt[p] EXCEPT !.env = "unmanaged"])
    /\ wt[p].env = "none"
    /\ UNCHANGED <<merged, time>>

Discard(p) ==
    /\ Act /\ Alter(p, None)
    /\ UNCHANGED <<merged, time>>

MergeRequest(p) ==
    /\ Act /\ There(p) /\ wt[p].head = 0 /\ p \notin merged
    /\ merged' = merged \cup {p}
    /\ UNCHANGED <<wt, time>>

\* AddWorktree, and dependencies prepared in the new checkout.
AddCheckout(p, env) ==
    /\ Act /\ stage = "idle" /\ ~There(p) /\ time < MaxTime
    /\ time' = time + 1
    /\ wt' = [wt EXCEPT ![p] = [state |-> "clean", at |-> 0, head |-> 0, created |-> time', env |-> env]]
    /\ merged' = merged \ {p}

RetentionInit ==
    /\ wt \in [Place -> [state : {"clean"}, at : {0}, head : {0}, created : 0..1,
                         env : {"none", "managed"}]]
    /\ merged \in SUBSET Place
    /\ stage = "idle" /\ dry = FALSE /\ since = 0 /\ todo = <<>> /\ checked = <<>>
    /\ entry = [p \in Place |-> None]
    /\ removed = [p \in Place |-> ""] /\ released = {} /\ plan = NoPlan
    /\ time = 1 /\ acts = 0

Clean ==
    \/ \E d \in BOOLEAN : BeginCleaning(d)
    \/ Observe \/ Observed \/ NotMerged \/ AskFails \/ Count \/ CheckRemoval \/ RemoveCheckout \/ RefuseRemoval
    \/ CountPrepared \/ ReleaseEnvironments \/ Retain \/ EndCleaning

User(p) ==
    \/ \E state \in State : Turn(p, state)
    \/ Commit(p) \/ Install(p) \/ Discard(p) \/ MergeRequest(p)
    \/ \E env \in {"none", "managed"} : AddCheckout(p, env)

RetentionNext == Clean \/ \E p \in Place : User(p)

RetentionSpec == RetentionInit /\ [][RetentionNext]_retentionVars

-----------------------------------------------------------------------------
\* A cleaning that removes a checkout deletes nothing that nothing else holds and
\* that was there when it last looked for such a thing: neither files git ignores
\* nor commits on no branch (clean.go:190-200, 367, 398-414).
Deletes(p) == ~dry /\ removed[p] = "" /\ removed'[p] # ""
SeenWorkKept ==
    [][\A p \in Place :
          Deletes(p) /\ Irreplaceable(p) => wt[p].at > checked[LooksFor(wt[p].state)]]_retentionVars

\* It deletes nothing of the kind at all (docs/worktrees.md:35 "Dirty/untracked
\* files and unmanaged ignored files prevent checkout removal").
NothingLost == [][\A p \in Place : Deletes(p) => ~Irreplaceable(p)]_retentionVars

\* A checkout is removed for its merged pull request only if its head was the one
\* that was merged when the removal last compared them, though it was listed,
\* asked about and checked earlier (docs/worktrees.md:37 "New commits on a reused
\* branch are therefore not erased"; its branch keeps a commit made since).
MergedHeadOnly ==
    [][\A p \in Place : removed'[p] = "merged" /\ removed[p] = "" /\ There(p) =>
            p \in merged /\ (wt[p].head = 0 \/ wt[p].head > checked[3])]_retentionVars

\* What is removed for the count is older than MaxCount others that are kept,
\* counted after the merged ones are gone (clean.go:109 "Protected old entries do
\* not displace the newest retained set").
NewestKept ==
    \A p \in Place : removed[p] = "count"
        => Cardinality({q \in Candidates : removed[q] = "" /\ Older(p, q)}) >= MaxCount

\* If nobody interferes, every checkout and environment a cleaning leaves and
\* could have removed or released is among the newest the policy allows.
Calm == acts = since
AtEnd == stage = "release" /\ todo = <<>>
LimitsReached ==
    AtEnd /\ ~dry /\ Calm =>
        \A p \in Place : There(p) /\ ~Excluded(p) =>
            /\ Saved(p) => Cardinality({q \in Place : There(q) /\ Older(p, q)}) < MaxCount
            /\ wt[p].env = "managed" =>
                 Cardinality({q \in Place : There(q) /\ wt[q].env # "none" /\ Older(p, q)}) < MaxPrepared

\* Removed is what the limits ask for: not less, and none of the newest.
RetentionIsExact == NewestKept /\ LimitsReached

\* A dry run predicts what the cleaning after it does, if nothing changes
\* (docs/worktrees.md:79 "`--dry-run` projects both stages").
DryRunPredicts ==
    AtEnd /\ ~dry /\ Calm /\ plan.acts = acts =>
        removed = plan.removed /\ released = plan.released
=============================================================================
