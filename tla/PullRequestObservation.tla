------------------------ MODULE PullRequestObservation ------------------------
(***************************************************************************)
(* One pull request's stored observation, queried and refreshed by many    *)
(* processes (toolkit/python/repokit/forge/observation: service.py, _get;  *)
(* store.py, locked and write).                                            *)
(*                                                                         *)
(* A query works under a lease: an empty directory, made to lock, renewed  *)
(* while it is held and taken for stale when it is not.  Its inode and     *)
(* modification time fence whoever lost it: they are compared before the   *)
(* new observation replaces the old one.  Processes may be arbitrarily     *)
(* slow and may die; the remote goes on changing.                          *)
(*                                                                         *)
(* What the code promises holds as long as nobody is held up in one of two *)
(* gaps: between the comparison and the replacement it guards              *)
(* ("suspended"), and between one call on the lock directory and the next  *)
(* ("overtaken").  Each behaviour says which gaps it has; the properties   *)
(* say which they allow.  A query that has ended leaves no trace but what  *)
(* it stored.                                                              *)
(***************************************************************************)
EXTENDS Naturals, FiniteSets

CONSTANTS Proc,        \* processes with an observer of this pull request
          Lease,       \* ticks without renewal before the lease is stale
          Gaps,        \* the sets of gaps behaviours may have
          MaxVersion,  \* bound: the state the remote ends in
          MaxCrashes   \* bound on dying processes

ASSUME LeaseAssumption == Lease \in Nat \ {0}
ASSUME GapsAssumption == Gaps \subseteq SUBSET {"suspended", "overtaken"}
ASSUME BoundAssumption == MaxVersion \in Nat \ {0} /\ MaxCrashes \in Nat

VARIABLES
    remote,   \* version of the pull request at the forge; the last one is merged
    stored,   \* observation.json: the version, whether it is fresh, or failed to be
    lock,     \* observation.json.lock: Free, or its age and who knows it
    pc,       \* where each process's query is
    verify,   \* whether the query wants a new read in any case
    base,     \* version of the observation read under the lease
    fetched,  \* what the forge said, if it said anything
    crashes,
    gaps      \* where a process may be held up; the same throughout

local == <<verify, base, fetched>>
vars == <<remote, stored, lock, pc, local, crashes, gaps>>

\* 0: nothing known.  Reads never return a later version than the remote's.
Version == 0..MaxVersion
Merged(v) == v = MaxVersion
Nothing == [version |-> 0, fresh |-> FALSE, failed |-> FALSE]

\* `known': the processes that remember this directory's inode and mtime.
Free == [state |-> "free"]
Taken == lock # Free
Unknown(p) == IF Taken THEN [lock EXCEPT !.known = @ \ {p}] ELSE lock

StaleNever == FALSE                               \* mutant: no crash recovery
Stale == Taken /\ lock.age > Lease
OwnedByAnybody(p) == Taken /\ lock.age <= Lease   \* mutant: identity not compared
Owned(p) == Taken /\ lock.age <= Lease /\ p \in lock.known

Suspended == "suspended" \in gaps
Overtaken == "overtaken" \in gaps

Move(p, from, to) == pc[p] = from /\ pc' = [pc EXCEPT ![p] = to]
Leave(p) == pc' = [pc EXCEPT ![p] = "unlock"]
Forget(p) ==
    /\ pc' = [pc EXCEPT ![p] = "idle"]
    /\ verify' = [verify EXCEPT ![p] = FALSE] /\ base' = [base EXCEPT ![p] = 0]
    /\ fetched' = [fetched EXCEPT ![p] = 0]

-----------------------------------------------------------------------------
\* locked: mkdir, or remove a stale directory and try again, or wait.
Begin(p) ==
    /\ Move(p, "idle", "wait")
    /\ verify' \in {[verify EXCEPT ![p] = v] : v \in BOOLEAN}
    /\ UNCHANGED <<remote, stored, lock, base, fetched, crashes>>

MakeLock(p) ==
    /\ Move(p, "wait", IF Overtaken THEN "made" ELSE "read") /\ ~Taken
    /\ lock' = [state |-> "taken", age |-> 0, known |-> IF Overtaken THEN {} ELSE {p}]
    /\ UNCHANGED <<remote, stored, local, crashes>>

Reap(p) ==
    /\ pc[p] = "wait" /\ Stale
    /\ lock' = Free
    /\ UNCHANGED <<remote, stored, pc, local, crashes>>

SeeStale(p) ==
    /\ Overtaken /\ Move(p, "wait", "reap") /\ Stale
    /\ UNCHANGED <<remote, stored, lock, local, crashes>>

\* rmdir takes whatever directory is there now.
ReapLater(p) ==
    /\ Move(p, "reap", "wait")
    /\ lock' = Free
    /\ UNCHANGED <<remote, stored, local, crashes>>

\* The deadline passes while somebody else holds the lease.
GiveUp(p) ==
    /\ pc[p] = "wait" /\ Taken /\ ~Stale
    /\ Forget(p)
    /\ UNCHANGED <<remote, stored, lock, crashes>>

\* identity = lock.stat(): whichever directory it is by now.
Remember(p) ==
    /\ pc[p] = "made"
    /\ IF Taken
         THEN /\ pc' = [pc EXCEPT ![p] = "read"]
              /\ lock' = [lock EXCEPT !.known = @ \cup {p}]
              /\ UNCHANGED local
         ELSE Forget(p) /\ UNCHANGED lock
    /\ UNCHANGED <<remote, stored, crashes>>

\* The thread that renews the lease every ten seconds.
Renew(p) ==
    /\ pc[p] \in {"read", "fetch", "commit", "replace"} /\ Owned(p) /\ lock.age > 0
    /\ lock' = [lock EXCEPT !.age = 0, !.known = {p}]
    /\ UNCHANGED <<remote, stored, pc, local, crashes>>

-----------------------------------------------------------------------------
\* _get: the stored observation is used if it is terminal or not yet due.
Read(p) == stored

Reuse(p) ==
    /\ pc[p] = "read"
    /\ LET o == Read(p)
       IN Merged(o.version) \/ (~verify[p] /\ o.fresh /\ ~o.failed /\ o.version # 0)
    /\ Leave(p)
    /\ UNCHANGED <<remote, stored, lock, local, crashes>>

\* "PR retry pending": the last refresh failed and its delay is not over.
RefuseRetry(p) ==
    /\ pc[p] = "read" /\ ~verify[p]
    /\ ~Merged(Read(p).version) /\ Read(p).fresh /\ Read(p).failed
    /\ Leave(p)
    /\ UNCHANGED <<remote, stored, lock, local, crashes>>

Refresh(p) ==
    /\ Move(p, "read", "fetch")
    /\ ~Merged(Read(p).version) /\ (verify[p] \/ ~Read(p).fresh)
    /\ base' = [base EXCEPT ![p] = Read(p).version]
    /\ UNCHANGED <<remote, stored, lock, verify, fetched, crashes>>

\* The forge answers with what it has, or the read fails.
Fetch(p, v) ==
    /\ Move(p, "fetch", "commit") /\ v \in {0, remote}
    /\ fetched' = [fetched EXCEPT ![p] = v]
    /\ UNCHANGED <<remote, stored, lock, verify, base, crashes>>

\* A failure keeps the facts of the observation it started from.
NewObservation(p) ==
    IF fetched[p] = 0
    THEN [version |-> base[p], fresh |-> TRUE, failed |-> TRUE]
    ELSE [version |-> fetched[p], fresh |-> TRUE, failed |-> FALSE]

Replace(p) ==
    /\ stored' = NewObservation(p)
    /\ Leave(p)
    /\ UNCHANGED <<remote, lock, local, crashes>>

\* write: the comparison and the replacement it guards.
Commit(p) ==
    /\ pc[p] = "commit" /\ Owned(p)
    /\ Replace(p)

Suspend(p) ==
    /\ Suspended /\ Move(p, "commit", "replace") /\ Owned(p)
    /\ UNCHANGED <<remote, stored, lock, local, crashes>>

CommitLater(p) ==
    /\ pc[p] = "replace"
    /\ Replace(p)

\* "PR state lease replaced or expired"
LeaseLost(p) ==
    /\ pc[p] = "commit" /\ ~Owned(p)
    /\ Leave(p)
    /\ UNCHANGED <<remote, stored, lock, local, crashes>>

\* The lease is given back, unless it is somebody else's by now.
UnlockAnyway(p) ==                                \* mutant: no owned() before rmdir
    /\ pc[p] = "unlock"
    /\ lock' = Free
    /\ Forget(p)
    /\ UNCHANGED <<remote, stored, crashes>>
Unlock(p) ==
    /\ pc[p] = "unlock"
    /\ lock' = IF Owned(p) THEN Free ELSE Unknown(p)
    /\ Forget(p)
    /\ UNCHANGED <<remote, stored, crashes>>

-----------------------------------------------------------------------------
\* A process dies; its directory stays.
Crash(p) ==
    /\ pc[p] # "idle" /\ crashes < MaxCrashes
    /\ crashes' = crashes + 1
    /\ lock' = Unknown(p)
    /\ Forget(p)
    /\ UNCHANGED <<remote, stored>>

Change ==
    /\ remote < MaxVersion
    /\ remote' = remote + 1
    /\ UNCHANGED <<stored, lock, pc, local, crashes>>

Tick ==
    /\ Taken /\ lock.age <= Lease
    /\ lock' = [lock EXCEPT !.age = @ + 1]
    /\ UNCHANGED <<remote, stored, pc, local, crashes>>

\* nextRefreshAt is reached.
BecomeDue ==
    /\ stored.fresh /\ ~Merged(stored.version)
    /\ stored' = [stored EXCEPT !.fresh = FALSE]
    /\ UNCHANGED <<remote, lock, pc, local, crashes>>

Init ==
    /\ remote = 1 /\ stored = Nothing /\ lock = Free
    /\ pc = [p \in Proc |-> "idle"] /\ verify = [p \in Proc |-> FALSE]
    /\ base = [p \in Proc |-> 0] /\ fetched = [p \in Proc |-> 0]
    /\ crashes = 0 /\ gaps \in Gaps

Step(p) ==
    /\ UNCHANGED gaps
    /\ \/ Begin(p) \/ MakeLock(p) \/ Reap(p) \/ SeeStale(p) \/ ReapLater(p) \/ Remember(p)
       \/ Reuse(p) \/ RefuseRetry(p) \/ Refresh(p) \/ \E v \in Version : Fetch(p, v)
       \/ Commit(p) \/ Suspend(p) \/ CommitLater(p) \/ LeaseLost(p) \/ Unlock(p)
Interfere(p) == (GiveUp(p) \/ Renew(p) \/ Crash(p)) /\ UNCHANGED gaps
Pass == Tick /\ UNCHANGED gaps
World == (Change \/ BecomeDue) /\ UNCHANGED gaps

Next ==
    \/ \E p \in Proc : Step(p) \/ Interfere(p)
    \/ Pass \/ World

Spec == Init /\ [][Next]_vars

\* Hosts go on asking, processes that live go on running, and so does time.
FairSpec == Spec /\ WF_vars(Pass) /\ \A p \in Proc : WF_vars(Step(p))

-----------------------------------------------------------------------------
\* The stored observation never goes back to an older state of the pull
\* request, so a merge once stored stays: whoever was overtaken while it read
\* the forge must not publish (service.py:51 "Merged is immutable";
\* store.py:73 "serialize refresh and publication using the same lease").  It
\* takes processes that are not held up in one of the gaps.
ObservationAdvances == [][gaps = {} => stored'.version >= stored.version]_vars

\* The same with the gaps the code has: refuted.
NeverBackwards == [][stored'.version >= stored.version]_vars

\* A lease is taken away only by its owner, when the query is over, or when it
\* is stale: a query that has lost its lease leaves its successor's alone
\* (store.py:135 "A reclaimed lease belongs to the next owner; never remove it").
LeaseRespected ==
    [][gaps = {} /\ Taken /\ lock' = Free => Stale \/ \E p \in lock.known : pc[p] = "unlock"]_vars

\* A lease whose process is dead does not lock the pull request for good.
Abandoned == Taken /\ lock.known = {} /\ \A p \in Proc : pc[p] # "made"
LeaseRecovered == Abandoned ~> ~Abandoned
=============================================================================
