--------------------- MODULE PullRequestObservationProofs ---------------------
(***************************************************************************)
(* Proofs about PullRequestObservation.tla, for any processes, lease time, *)
(* number of versions and of crashes.                                      *)
(***************************************************************************)
EXTENDS PullRequestObservation, TLAPS

-----------------------------------------------------------------------------
(* The invariant.                                                          *)

Place == {"idle", "wait", "made", "reap", "read", "fetch", "commit", "replace", "unlock"}
Lock == [state : {"taken"}, age : Nat, known : SUBSET Proc]

TypeOK ==
    /\ remote \in Version
    /\ stored \in [version : Version, fresh : BOOLEAN, failed : BOOLEAN]
    /\ lock = Free \/ lock \in Lock
    /\ pc \in [Proc -> Place] /\ verify \in [Proc -> BOOLEAN]
    /\ base \in [Proc -> Version] /\ fetched \in [Proc -> Version]
    /\ crashes \in Nat /\ gaps \in Gaps

\* Nothing is stored that the forge has not said.
StoredOK ==
    /\ stored.version <= remote
    /\ \A p \in Proc : base[p] <= remote /\ fetched[p] <= remote

\* Where nobody is held up in a gap, a lease is known to one process at most,
\* and as long as it is, what that process has read is still what is stored: one
\* whose lease was reaped is not among the knowing and will not publish.
LeaseOK ==
    gaps = {} =>
        /\ \A p \in Proc : pc[p] \notin {"made", "reap", "replace"}
        /\ Taken => \A p, q \in lock.known : p = q
        /\ \A p \in Proc : (Taken /\ p \in lock.known) =>
              /\ pc[p] \in {"fetch", "commit"} => base[p] = stored.version
              /\ (pc[p] = "commit" /\ fetched[p] # 0) => fetched[p] >= stored.version

IInv == TypeOK /\ StoredOK /\ LeaseOK

\* Locks, observations and places stay what they are.
LEMMA StepType == TypeOK /\ [Next]_vars => TypeOK'
  <1> SUFFICES ASSUME TypeOK, [Next]_vars PROVE TypeOK'
    OBVIOUS
  <1> USE BoundAssumption DEF TypeOK, local, Place, Lock, Free, Taken, Version, Move,
        Leave, Forget
  <1>1. ASSUME NEW p \in Proc, Begin(p), UNCHANGED gaps PROVE TypeOK'
    BY <1>1 DEF Begin
  <1>2. ASSUME NEW p \in Proc, MakeLock(p), UNCHANGED gaps PROVE TypeOK'
    BY <1>2 DEF MakeLock, Overtaken
  <1>3. ASSUME NEW p \in Proc, Reap(p), UNCHANGED gaps PROVE TypeOK'
    BY <1>3 DEF Reap, Stale
  <1>4. ASSUME NEW p \in Proc, SeeStale(p), UNCHANGED gaps PROVE TypeOK'
    BY <1>4 DEF SeeStale, Stale, Overtaken
  <1>5. ASSUME NEW p \in Proc, ReapLater(p), UNCHANGED gaps PROVE TypeOK'
    BY <1>5 DEF ReapLater
  <1>6. ASSUME NEW p \in Proc, Remember(p), UNCHANGED gaps PROVE TypeOK'
    <2>1. CASE Taken
      <3>1. lock \in Lock
        BY <2>1
      <3>2. lock' = [lock EXCEPT !.known = @ \cup {p}]
        BY <1>6, <2>1 DEF Remember
      <3>3. lock' \in Lock
        BY <3>1, <3>2
      <3> QED
        BY <1>6, <2>1, <3>3 DEF Remember
    <2>2. CASE ~Taken
      <3>1. Forget(p) /\ lock' = lock /\ UNCHANGED <<remote, stored, crashes>>
        BY ONLY <1>6, <2>2, Zenon DEF Remember
      <3> QED
        BY <1>6, <3>1
    <2> QED
      BY <2>1, <2>2
  <1>7. ASSUME NEW p \in Proc, Reuse(p), UNCHANGED gaps PROVE TypeOK'
    BY <1>7 DEF Reuse, Read
  <1>8. ASSUME NEW p \in Proc, RefuseRetry(p), UNCHANGED gaps PROVE TypeOK'
    BY <1>8 DEF RefuseRetry, Read
  <1>9. ASSUME NEW p \in Proc, Refresh(p), UNCHANGED gaps PROVE TypeOK'
    BY <1>9 DEF Refresh, Read
  <1>10. ASSUME NEW p \in Proc, NEW v \in Version, Fetch(p, v), UNCHANGED gaps
         PROVE  TypeOK'
    BY <1>10 DEF Fetch
  <1>11. ASSUME NEW p \in Proc, Commit(p), UNCHANGED gaps PROVE TypeOK'
    BY <1>11 DEF Commit, Replace, NewObservation, Owned
  <1>12. ASSUME NEW p \in Proc, Suspend(p), UNCHANGED gaps PROVE TypeOK'
    BY <1>12 DEF Suspend, Suspended, Owned
  <1>13. ASSUME NEW p \in Proc, CommitLater(p), UNCHANGED gaps PROVE TypeOK'
    BY <1>13 DEF CommitLater, Replace, NewObservation
  <1>14. ASSUME NEW p \in Proc, LeaseLost(p), UNCHANGED gaps PROVE TypeOK'
    BY <1>14 DEF LeaseLost, Owned
  <1>15. ASSUME NEW p \in Proc, Unlock(p), UNCHANGED gaps PROVE TypeOK'
    BY <1>15 DEF Unlock, Owned, Unknown
  <1>16. ASSUME NEW p \in Proc, GiveUp(p), UNCHANGED gaps PROVE TypeOK'
    BY <1>16 DEF GiveUp, Stale
  <1>17. ASSUME NEW p \in Proc, Renew(p), UNCHANGED gaps PROVE TypeOK'
    BY <1>17 DEF Renew, Owned
  <1>18. ASSUME NEW p \in Proc, Crash(p), UNCHANGED gaps PROVE TypeOK'
    BY <1>18 DEF Crash, Unknown
  <1>19. CASE Tick /\ UNCHANGED gaps
    BY <1>19 DEF Tick
  <1>20. CASE Change /\ UNCHANGED gaps
    BY <1>20 DEF Change
  <1>21. CASE BecomeDue /\ UNCHANGED gaps
    BY <1>21 DEF BecomeDue, Merged
  <1>22. CASE UNCHANGED vars
    BY <1>22 DEF vars
  <1> QED
    BY <1>1, <1>2, <1>3, <1>4, <1>5, <1>6, <1>7, <1>8, <1>9, <1>10, <1>11, <1>12,
       <1>13, <1>14, <1>15, <1>16, <1>17, <1>18, <1>19, <1>20, <1>21, <1>22
    DEF Next, Step, Interfere, Pass, World

\* What is stored was fetched, and the remote only grows.
LEMMA StepStored == IInv /\ [Next]_vars => StoredOK'
  <1> SUFFICES ASSUME IInv, [Next]_vars PROVE StoredOK'
    OBVIOUS
  <1> USE BoundAssumption DEF IInv, TypeOK, StoredOK, local, Version, Move, Leave, Forget
  <1>1. ASSUME NEW p \in Proc, Begin(p), UNCHANGED gaps PROVE StoredOK'
    BY <1>1 DEF Begin
  <1>2. ASSUME NEW p \in Proc, MakeLock(p), UNCHANGED gaps PROVE StoredOK'
    BY <1>2 DEF MakeLock, Overtaken
  <1>3. ASSUME NEW p \in Proc, Reap(p), UNCHANGED gaps PROVE StoredOK'
    BY <1>3 DEF Reap, Stale
  <1>4. ASSUME NEW p \in Proc, SeeStale(p), UNCHANGED gaps PROVE StoredOK'
    BY <1>4 DEF SeeStale, Stale, Overtaken
  <1>5. ASSUME NEW p \in Proc, ReapLater(p), UNCHANGED gaps PROVE StoredOK'
    BY <1>5 DEF ReapLater
  <1>6. ASSUME NEW p \in Proc, Remember(p), UNCHANGED gaps PROVE StoredOK'
    BY <1>6 DEF Remember, Overtaken
  <1>7. ASSUME NEW p \in Proc, Reuse(p), UNCHANGED gaps PROVE StoredOK'
    BY <1>7 DEF Reuse, Read
  <1>8. ASSUME NEW p \in Proc, RefuseRetry(p), UNCHANGED gaps PROVE StoredOK'
    BY <1>8 DEF RefuseRetry, Read
  <1>9. ASSUME NEW p \in Proc, Refresh(p), UNCHANGED gaps PROVE StoredOK'
    BY <1>9 DEF Refresh, Read
  <1>10. ASSUME NEW p \in Proc, NEW v \in Version, Fetch(p, v), UNCHANGED gaps
         PROVE  StoredOK'
    BY <1>10 DEF Fetch
  <1>11. ASSUME NEW p \in Proc, Commit(p), UNCHANGED gaps PROVE StoredOK'
    BY <1>11 DEF Commit, Replace, NewObservation, Owned
  <1>12. ASSUME NEW p \in Proc, Suspend(p), UNCHANGED gaps PROVE StoredOK'
    BY <1>12 DEF Suspend, Suspended, Owned
  <1>13. ASSUME NEW p \in Proc, CommitLater(p), UNCHANGED gaps PROVE StoredOK'
    BY <1>13 DEF CommitLater, Replace, NewObservation
  <1>14. ASSUME NEW p \in Proc, LeaseLost(p), UNCHANGED gaps PROVE StoredOK'
    BY <1>14 DEF LeaseLost, Owned
  <1>15. ASSUME NEW p \in Proc, Unlock(p), UNCHANGED gaps PROVE StoredOK'
    BY <1>15 DEF Unlock, Owned, Unknown
  <1>16. ASSUME NEW p \in Proc, GiveUp(p), UNCHANGED gaps PROVE StoredOK'
    BY <1>16 DEF GiveUp, Stale
  <1>17. ASSUME NEW p \in Proc, Renew(p), UNCHANGED gaps PROVE StoredOK'
    BY <1>17 DEF Renew, Owned
  <1>18. ASSUME NEW p \in Proc, Crash(p), UNCHANGED gaps PROVE StoredOK'
    BY <1>18 DEF Crash, Unknown
  <1>19. CASE Tick /\ UNCHANGED gaps
    BY <1>19 DEF Tick
  <1>20. CASE Change /\ UNCHANGED gaps
    BY <1>20 DEF Change
  <1>21. CASE BecomeDue /\ UNCHANGED gaps
    BY <1>21 DEF BecomeDue, Merged
  <1>22. CASE UNCHANGED vars
    BY <1>22 DEF vars
  <1> QED
    BY <1>1, <1>2, <1>3, <1>4, <1>5, <1>6, <1>7, <1>8, <1>9, <1>10, <1>11, <1>12,
       <1>13, <1>14, <1>15, <1>16, <1>17, <1>18, <1>19, <1>20, <1>21, <1>22
    DEF Next, Step, Interfere, Pass, World

\* Whoever publishes is the one that knows the lease; whoever gets the lease
\* later reads after that.
LEMMA StepLease == IInv /\ [Next]_vars => LeaseOK'
  <1> SUFFICES ASSUME IInv, [Next]_vars PROVE LeaseOK'
    OBVIOUS
  <1> USE DEF IInv, TypeOK, StoredOK, LeaseOK, local, Place, Lock, Free, Taken, Version,
        Move, Leave, Forget
  <1>1. ASSUME NEW p \in Proc, Begin(p), UNCHANGED gaps PROVE LeaseOK'
    BY <1>1 DEF Begin
  <1>2. ASSUME NEW p \in Proc, MakeLock(p), UNCHANGED gaps PROVE LeaseOK'
    BY <1>2 DEF MakeLock, Overtaken
  <1>3. ASSUME NEW p \in Proc, Reap(p), UNCHANGED gaps PROVE LeaseOK'
    BY <1>3 DEF Reap, Stale
  <1>4. ASSUME NEW p \in Proc, SeeStale(p), UNCHANGED gaps PROVE LeaseOK'
    BY <1>4 DEF SeeStale, Stale, Overtaken
  <1>5. ASSUME NEW p \in Proc, ReapLater(p), UNCHANGED gaps PROVE LeaseOK'
    BY <1>5 DEF ReapLater
  <1>6. ASSUME NEW p \in Proc, Remember(p), UNCHANGED gaps PROVE LeaseOK'
    BY <1>6 DEF Remember, Overtaken
  <1>7. ASSUME NEW p \in Proc, Reuse(p), UNCHANGED gaps PROVE LeaseOK'
    BY <1>7 DEF Reuse, Read
  <1>8. ASSUME NEW p \in Proc, RefuseRetry(p), UNCHANGED gaps PROVE LeaseOK'
    BY <1>8 DEF RefuseRetry, Read
  <1>9. ASSUME NEW p \in Proc, Refresh(p), UNCHANGED gaps PROVE LeaseOK'
    BY <1>9 DEF Refresh, Read
  <1>10. ASSUME NEW p \in Proc, NEW v \in Version, Fetch(p, v), UNCHANGED gaps
         PROVE  LeaseOK'
    BY <1>10 DEF Fetch
  <1>11. ASSUME NEW p \in Proc, Commit(p), UNCHANGED gaps PROVE LeaseOK'
    BY <1>11 DEF Commit, Replace, NewObservation, Owned
  <1>12. ASSUME NEW p \in Proc, Suspend(p), UNCHANGED gaps PROVE LeaseOK'
    BY <1>12 DEF Suspend, Suspended, Owned
  <1>13. ASSUME NEW p \in Proc, CommitLater(p), UNCHANGED gaps PROVE LeaseOK'
    BY <1>13 DEF CommitLater, Replace, NewObservation
  <1>14. ASSUME NEW p \in Proc, LeaseLost(p), UNCHANGED gaps PROVE LeaseOK'
    BY <1>14 DEF LeaseLost, Owned
  <1>15. ASSUME NEW p \in Proc, Unlock(p), UNCHANGED gaps PROVE LeaseOK'
    BY <1>15 DEF Unlock, Owned, Unknown
  <1>16. ASSUME NEW p \in Proc, GiveUp(p), UNCHANGED gaps PROVE LeaseOK'
    BY <1>16 DEF GiveUp, Stale
  <1>17. ASSUME NEW p \in Proc, Renew(p), UNCHANGED gaps PROVE LeaseOK'
    BY <1>17 DEF Renew, Owned
  <1>18. ASSUME NEW p \in Proc, Crash(p), UNCHANGED gaps PROVE LeaseOK'
    BY <1>18 DEF Crash, Unknown
  <1>19. CASE Tick /\ UNCHANGED gaps
    BY <1>19 DEF Tick
  <1>20. CASE Change /\ UNCHANGED gaps
    BY <1>20 DEF Change
  <1>21. CASE BecomeDue /\ UNCHANGED gaps
    BY <1>21 DEF BecomeDue, Merged
  <1>22. CASE UNCHANGED vars
    BY <1>22 DEF vars
  <1> QED
    BY <1>1, <1>2, <1>3, <1>4, <1>5, <1>6, <1>7, <1>8, <1>9, <1>10, <1>11, <1>12,
       <1>13, <1>14, <1>15, <1>16, <1>17, <1>18, <1>19, <1>20, <1>21, <1>22
    DEF Next, Step, Interfere, Pass, World

\* Everything is as the invariant says before anything is stored.
LEMMA InitInv == Init => IInv
  BY BoundAssumption DEF Init, IInv, TypeOK, StoredOK, LeaseOK, Place, Nothing,
     Free, Taken, Version

\* The invariant holds throughout.
LEMMA Invariant == Spec => []IInv
  <1>1. IInv /\ [Next]_vars => IInv'
    BY StepType, StepStored, StepLease DEF IInv
  <1> QED
    BY <1>1, InitInv, PTL DEF Spec

-----------------------------------------------------------------------------
(* Theorems.                                                               *)

\* Only publications and the passing of time change what is stored.
LEMMA StoredChanges ==
    ASSUME [Next]_vars
    PROVE  stored' = stored \/ BecomeDue \/ \E p \in Proc : Commit(p) \/ CommitLater(p)
  BY DEF Next, Step, Interfere, Pass, World, vars, Begin, MakeLock, Reap, SeeStale, ReapLater,
     Remember, Reuse, RefuseRetry, Refresh, Fetch, Suspend, LeaseLost, Unlock, GiveUp, Renew,
     Crash, Tick, Change

\* A publication is made by the process that knows the lease, from what it read
\* under it.
LEMMA StepAdvances ==
    ASSUME IInv, [Next]_vars, gaps = {}
    PROVE  stored'.version >= stored.version
  <1>t. /\ stored.version \in Version /\ \A p \in Proc : base[p] \in Version /\ fetched[p] \in Version
    BY DEF IInv, TypeOK
  <1>1. CASE stored' = stored
    BY <1>1, <1>t DEF Version
  <1>2. CASE BecomeDue
    BY <1>2, <1>t DEF BecomeDue, Version, IInv, TypeOK
  <1>3. ASSUME NEW p \in Proc, CommitLater(p) PROVE FALSE
    BY <1>3 DEF CommitLater, IInv, LeaseOK
  <1>4. ASSUME NEW p \in Proc, Commit(p) PROVE stored'.version >= stored.version
    <2>1. /\ base[p] = stored.version
          /\ fetched[p] # 0 => fetched[p] >= stored.version
      BY <1>4 DEF Commit, Owned, IInv, LeaseOK
    <2>2. stored'.version = IF fetched[p] = 0 THEN base[p] ELSE fetched[p]
      BY <1>4 DEF Commit, Replace, NewObservation
    <2> QED
      BY <2>1, <2>2, <1>t DEF Version
  <1> QED
    BY <1>1, <1>2, <1>3, <1>4, StoredChanges

\* As long as nobody is held up in one of the gaps, the stored observation never
\* goes back, whoever is slow, overtaken or dead, and so a merge once stored
\* stays (service.py:51, store.py:73).
THEOREM StoredAdvances == Spec => ObservationAdvances
  <1>1. IInv /\ [Next]_vars => (gaps = {} => stored'.version >= stored.version)
    BY StepAdvances
  <1> QED
    BY <1>1, Invariant, PTL DEF Spec, ObservationAdvances

\* Only these make the directory go.
LEMMA LockGoes ==
    ASSUME TypeOK, [Next]_vars, Taken, lock' = Free
    PROVE  \E p \in Proc : Reap(p) \/ ReapLater(p) \/ Unlock(p)
  <1>1. lock \in Lock /\ lock # Free
    BY DEF TypeOK, Taken
  <1>2. ~\E p \in Proc : MakeLock(p) \/ Remember(p) \/ Renew(p) \/ Crash(p)
    BY <1>1 DEF Lock, Free, Taken, MakeLock, Remember, Renew, Crash, Unknown
  <1>3. ~Tick
    BY <1>1 DEF Lock, Free, Taken, Tick
  <1> QED
    BY <1>1, <1>2, <1>3 DEF Next, Step, Interfere, Pass, World, vars, Begin, SeeStale, Reuse,
       RefuseRetry, Refresh, Fetch, Commit, Suspend, CommitLater, Replace, LeaseLost, GiveUp,
       Change, BecomeDue

\* Reap takes a stale directory, Unlock its owner's own.
LEMMA StepRespects ==
    ASSUME IInv, [Next]_vars, gaps = {}, Taken, lock' = Free
    PROVE  Stale \/ \E p \in lock.known : pc[p] = "unlock"
  <1>1. \A p \in Proc : ~ReapLater(p)
    BY DEF ReapLater, Move, IInv, LeaseOK
  <1>2. ASSUME NEW p \in Proc, Unlock(p) PROVE Owned(p) /\ pc[p] = "unlock"
    BY <1>2 DEF Unlock, Unknown, Taken, Lock, Free, IInv, TypeOK
  <1> QED
    BY <1>1, <1>2, LockGoes DEF Reap, Owned, IInv

\* A lease is taken from a process only when it is stale, or by its owner at the
\* end of its query (store.py:135).
THEOREM OwnersAreRespected == Spec => LeaseRespected
  <1>1. IInv /\ [Next]_vars => (gaps = {} /\ Taken /\ lock' = Free
                                => Stale \/ \E p \in lock.known : pc[p] = "unlock")
    BY StepRespects
  <1> QED
    BY <1>1, Invariant, PTL DEF Spec, LeaseRespected
=============================================================================
