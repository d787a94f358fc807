------------------------- MODULE HistoryStoreProofs -------------------------
(***************************************************************************)
(* Proofs about HistoryStore.tla, for any number of sessions, checks,      *)
(* checkouts, retention windows and any length of the log.                 *)
(***************************************************************************)
EXTENDS HistoryStore, TLAPS

-----------------------------------------------------------------------------
(* Type correctness.                                                       *)

\* A new event is an event, whoever records what.
LEMMA NewEventType ==
    ASSUME TypeOK, NEW kind \in {"started", "finished", "reused"}, NEW r \in Run,
           NEW s \in Session, NEW t \in Task, NEW st \in Status \cup {"none"},
           NEW c \in BOOLEAN
    PROVE  NewEvent(kind, r, s, t, st, c) \in Event
  BY DEF TypeOK, NewEvent, Event

\* The store begins within its types.
LEMMA InitType == Init => TypeOK
  <1> SUFFICES ASSUME Init PROVE TypeOK
    OBVIOUS
  <1>1. clock \in Nat \ {0} /\ wal \in Seq(Event) /\ first \in 1..(Len(wal) + 1)
    BY DEF Init
  <1>2. /\ inputsAt \in [Session -> Nat] /\ outputsAt \in [Run -> Nat]
        /\ now \in [Session -> Nat] /\ handle \in [Session -> Nat]
    BY DEF Init
  <1>3. check \in [Session -> [Task -> CheckState]]
    BY PlannedAssumption DEF Init, CheckState
  <1>4. status \in [Session -> [Task -> Status \cup {"none"}]]
    BY DEF Init
  <1>5. source \in [Session -> [Task -> Run]]
    BY DEF Init, Run
  <1>6. view \in [Session -> [lo : Nat \ {0}, hi : Nat]]
    BY DEF Init
  <1>7. /\ pc \in [Session -> Place] /\ batch \in [Session -> SUBSET Event]
        /\ consistent \in [Session -> BOOLEAN] /\ healthy \in [Session -> BOOLEAN]
        /\ torn \in BOOLEAN /\ lock \in Session \cup {NoSession}
    BY DEF Init, Place
  <1> QED
    BY <1>1, <1>2, <1>3, <1>4, <1>5, <1>6, <1>7 DEF TypeOK

\* A record written through a fresh handle goes behind the log.
LEMMA WrittenBehind ==
    ASSUME wal \in Seq(Event), NEW s \in Session, handle[s] = Len(wal), NEW e \in Event
    PROVE  /\ Written(s, e) \in Seq(Event)
           /\ Len(Written(s, e)) = Len(wal) + 1
           /\ \A i \in 1..Len(wal) : Written(s, e)[i] = wal[i]
           /\ Written(s, e)[Len(wal) + 1] = e
  BY DEF Written

\* Who holds the lock and what he knows: the holder is in one of the three
\* places that use the log, his handle is fresh, and a batch exists only while
\* its maker holds s.mu or records the end of his round.
LockOK ==
    \A s \in Session :
        /\ pc[s] = "collect" => lock = s
        /\ lock = s => pc[s] \in {"collect", "run", "record"}
        /\ (lock = s /\ pc[s] # "collect") => handle[s] = Len(wal)
        /\ (pc[s] = "run" /\ (lock = s \/ batch[s] # {})) => ~MutexFree(s)
        /\ pc[s] \notin {"run", "record"} => batch[s] = {}

\* At first nobody holds the lock.
LEMMA InitLock == Init => LockOK
  BY SessionAssumption DEF Init, LockOK

\* Every step keeps the types.
LEMMA StepType == TypeOK /\ LockOK /\ [Next]_vars => TypeOK'
  <1> SUFFICES ASSUME TypeOK /\ LockOK, [Next]_vars PROVE TypeOK'
    OBVIOUS
  <1> USE DEF logVars, fileVars, roundVars
  <1>1. CASE Tick
    BY <1>1 DEF Tick, TypeOK
  <1>2. ASSUME NEW s \in Session, Crash(s) PROVE TypeOK'
    BY <1>2 DEF Crash, TypeOK, Released, Place
  <1>3. ASSUME NEW s \in Session, Maintain(s) PROVE TypeOK'
    BY <1>3 DEF Maintain, TypeOK, FirstKept, Place
  <1>4. ASSUME NEW s \in Session, MaintainDone(s) PROVE TypeOK'
    BY <1>4 DEF MaintainDone, TypeOK, Place
  <1>5. ASSUME NEW s \in Session, SaveInputs(s) PROVE TypeOK'
    BY <1>5 DEF SaveInputs, TypeOK, Place
  <1>6. ASSUME NEW s \in Session, NothingToRecord(s) PROVE TypeOK'
    BY <1>6 DEF NothingToRecord, TypeOK, Place
  <1>7. ASSUME NEW s \in Session, OpenLog(s) PROVE TypeOK'
    <2>1. {e \in batch[s] : ~Orphan(e, first, Len(wal))} \in SUBSET Event
      BY DEF TypeOK
    <2>2. batch' \in [Session -> SUBSET Event]
      BY <1>7, <2>1 DEF OpenLog, TypeOK
    <2> QED
      BY <1>7, <2>2 DEF OpenLog, HandleOpened, TypeOK
  <1>8. ASSUME NEW s \in Session, WriteNext(s) PROVE TypeOK'
    <2>1. PICK e \in batch[s] : /\ wal' = Written(s, e)
                               /\ batch' = [batch EXCEPT ![s] = @ \ {e}]
      BY <1>8 DEF WriteNext
    <2>2. e \in Event /\ handle[s] = Len(wal)
      BY <1>8, <2>1 DEF WriteNext, TypeOK, LockOK
    <2>3. wal' \in Seq(Event) /\ Len(wal') = Len(wal) + 1
      BY <2>1, <2>2, WrittenBehind DEF TypeOK
    <2> QED
      BY <1>8, <2>1, <2>3 DEF WriteNext, TypeOK
  <1>9. ASSUME NEW s \in Session, CloseLog(s) PROVE TypeOK'
    BY <1>9 DEF CloseLog, TypeOK, Started, Place, CheckState
  <1>10. ASSUME NEW s \in Session, ReadBack(s) PROVE TypeOK'
    BY <1>10 DEF ReadBack, TypeOK, Place
  <1>11. ASSUME NEW s \in Session, Fail(s) PROVE TypeOK'
    BY <1>11 DEF Fail, TypeOK, Started, Released, Place, CheckState
  <1>12. ASSUME NEW s \in Session, NEW x \in Session, CollectInputs(s, x)
         PROVE  TypeOK'
    BY <1>12 DEF CollectInputs, TypeOK
  <1>13. ASSUME NEW s \in Session, NEW r \in Run, CollectOutputs(s, r)
         PROVE  TypeOK'
    BY <1>13 DEF CollectOutputs, TypeOK
  <1>14. ASSUME NEW s \in Session, NEW same \in BOOLEAN, Capture(s, same)
         PROVE  TypeOK'
    BY <1>14 DEF Capture, TypeOK, Place
  <1>15. ASSUME NEW s \in Session, NEW t \in Task, Launch(s, t) PROVE TypeOK'
    <2> DEFINE e == NewEvent("started", <<s, t>>, s, t, "none", FALSE)
    <2>1. e \in Event
      BY NewEventType DEF Run
    <2>2. /\ batch' = IF healthy[s] THEN [batch EXCEPT ![s] = {e}] ELSE batch
          /\ check' = IF healthy[s] THEN [check EXCEPT ![s][t] = "logging"]
                      ELSE [check EXCEPT ![s][t] = "running"]
      BY <1>15 DEF Launch
    <2> HIDE DEF e
    <2>3. batch' \in [Session -> SUBSET Event]
      BY <2>1, <2>2 DEF TypeOK
    <2>4. check' \in [Session -> [Task -> CheckState]]
      BY <2>2 DEF TypeOK, CheckState
    <2> QED
      BY <1>15, <2>3, <2>4 DEF Launch, TypeOK
  <1>16. ASSUME NEW s \in Session, NEW t \in Task, Collect(s, t) PROVE TypeOK'
    <2> DEFINE r == NewEvent("reused", source[s][t], s, t, "passed", consistent[s])
               f == NewEvent("finished", <<s, t>>, s, t, status[s][t], consistent[s])
    <2>1. /\ source[s][t] \in Run /\ <<s, t>> \in Run
          /\ status[s][t] \in Status \cup {"none"} /\ consistent[s] \in BOOLEAN
      BY DEF TypeOK, Run
    <2>2. r \in Event /\ f \in Event
      BY <2>1, NewEventType DEF Status
    <2>3. /\ batch' = IF check[s][t] = "reused" THEN [batch EXCEPT ![s] = @ \cup {r}]
                      ELSE [batch EXCEPT ![s] = @ \cup {f}]
          /\ outputsAt' = IF check[s][t] = "reused" THEN outputsAt
                          ELSE [outputsAt EXCEPT ![<<s, t>>] = clock]
          /\ check' = [check EXCEPT ![s][t] = "recorded"]
      BY <1>16 DEF Collect
    <2> HIDE DEF r, f
    <2>4. batch' \in [Session -> SUBSET Event]
      BY <2>2, <2>3 DEF TypeOK
    <2>5. outputsAt' \in [Run -> Nat] /\ check' \in [Session -> [Task -> CheckState]]
      BY <2>1, <2>3 DEF TypeOK, CheckState
    <2> QED
      BY <1>16, <2>4, <2>5 DEF Collect, TypeOK
  <1>17. ASSUME NEW s \in Session, NEW t \in Task, NEW st \in Status, Exit(s, t, st)
         PROVE  TypeOK'
    BY <1>17 DEF Exit, TypeOK, CheckState
  <1>18. ASSUME NEW s \in Session, NEW t \in Task, NEW r \in Run, Reuse(s, t, r)
         PROVE  TypeOK'
    BY <1>18 DEF Reuse, TypeOK, CheckState
  <1>19. ASSUME NEW s \in Session, NEW t \in Task, NEW r \in Run, EvidenceMissing(s, t, r)
         PROVE  TypeOK'
    BY <1>19 DEF EvidenceMissing, TypeOK
  <1>20. CASE UNCHANGED vars
    BY <1>20 DEF vars, TypeOK
  <1> QED
    BY <1>1, <1>2, <1>3, <1>4, <1>5, <1>6, <1>7, <1>8, <1>9, <1>10, <1>11, <1>12,
       <1>13, <1>14, <1>15, <1>16, <1>17, <1>18, <1>19, <1>20
    DEF Next, Step

\* Every step keeps the discipline of lock, handle and mutex.
LEMMA StepLock == TypeOK /\ LockOK /\ [Next]_vars => LockOK'
  <1> SUFFICES ASSUME TypeOK /\ LockOK, [Next]_vars PROVE LockOK'
    OBVIOUS
  <1> USE DEF logVars, fileVars, roundVars
  <1>t. /\ pc \in [Session -> Place] /\ check \in [Session -> [Task -> CheckState]]
        /\ batch \in [Session -> SUBSET Event] /\ handle \in [Session -> Nat]
    BY DEF TypeOK
  <1>1. CASE Tick
    BY <1>1, <1>t, SessionAssumption DEF Tick, LockOK, MutexFree
  <1>2. ASSUME NEW s \in Session, Crash(s) PROVE LockOK'
    BY <1>2, <1>t, SessionAssumption DEF Crash, LockOK, MutexFree, Released
  <1>3. ASSUME NEW s \in Session, Maintain(s) PROVE LockOK'
    BY <1>3, <1>t, SessionAssumption DEF Maintain, LockOK, MutexFree, Accessible
  <1>4. ASSUME NEW s \in Session, MaintainDone(s) PROVE LockOK'
    BY <1>4, <1>t, SessionAssumption DEF MaintainDone, LockOK, MutexFree
  <1>5. ASSUME NEW s \in Session, SaveInputs(s) PROVE LockOK'
    BY <1>5, <1>t, SessionAssumption DEF SaveInputs, LockOK, MutexFree
  <1>6. ASSUME NEW s \in Session, NothingToRecord(s) PROVE LockOK'
    BY <1>6, <1>t, SessionAssumption DEF NothingToRecord, LockOK, MutexFree
  <1>7. ASSUME NEW s \in Session, OpenLog(s) PROVE LockOK'
    BY <1>7, <1>t, SessionAssumption DEF OpenLog, HandleOpened, LockOK, MutexFree, Accessible, Appending
  <1>8. ASSUME NEW s \in Session, WriteNext(s) PROVE LockOK'
    <2>1. PICK e \in batch[s] : /\ wal' = Written(s, e)
                               /\ batch' = [batch EXCEPT ![s] = @ \ {e}]
      BY <1>8 DEF WriteNext
    <2>2. e \in Event /\ handle[s] = Len(wal)
      BY <1>8, <2>1 DEF WriteNext, TypeOK, LockOK
    <2>3. wal' \in Seq(Event) /\ Len(wal') = Len(wal) + 1
      BY <2>1, <2>2, WrittenBehind DEF TypeOK
    <2> QED
      BY <1>8, <2>1, <2>2, <2>3, <1>t DEF WriteNext, LockOK, MutexFree
  <1>9. ASSUME NEW s \in Session, CloseLog(s) PROVE LockOK'
    BY <1>9, <1>t, SessionAssumption DEF CloseLog, LockOK, MutexFree, Started
  <1>10. ASSUME NEW s \in Session, ReadBack(s) PROVE LockOK'
    BY <1>10, <1>t, SessionAssumption DEF ReadBack, LockOK, MutexFree
  <1>11. ASSUME NEW s \in Session, Fail(s) PROVE LockOK'
    BY <1>11, <1>t, SessionAssumption DEF Fail, LockOK, MutexFree, Released, Started, InHistory
  <1>12. ASSUME NEW s \in Session, NEW x \in Session, CollectInputs(s, x)
         PROVE  LockOK'
    BY <1>12, <1>t, SessionAssumption DEF CollectInputs, LockOK, MutexFree
  <1>13. ASSUME NEW s \in Session, NEW r \in Run, CollectOutputs(s, r)
         PROVE  LockOK'
    BY <1>13, <1>t, SessionAssumption DEF CollectOutputs, LockOK, MutexFree
  <1>14. ASSUME NEW s \in Session, NEW same \in BOOLEAN, Capture(s, same)
         PROVE  LockOK'
    <2>1. MutexFree(s)
      BY <1>14 DEF Capture, MutexFree
    <2>2. lock # s /\ batch[s] = {}
      BY <1>14, <2>1, <1>t DEF Capture, LockOK
    <2> QED
      BY <1>14, <2>2, <1>t DEF Capture, LockOK, MutexFree
  <1>15. ASSUME NEW s \in Session, NEW t \in Task, Launch(s, t) PROVE LockOK'
    <2>1. MutexFree(s) /\ lock # s /\ batch[s] = {}
      BY <1>15, <1>t DEF Launch, LockOK
    <2>2. CASE healthy[s]
      <3>1. check'[s][t] = "logging" /\ pc' = pc /\ lock' = lock /\ pc[s] = "run"
        BY <1>15, <2>2, <1>t DEF Launch
      <3>2. \A u \in Session \ {s} : check'[u] = check[u] /\ batch'[u] = batch[u]
        BY <1>15, <2>2, <1>t DEF Launch
      <3> QED
        BY <1>15, <2>1, <3>1, <3>2 DEF Launch, LockOK, MutexFree
    <2>3. CASE ~healthy[s]
      BY <1>15, <2>1, <2>3, <1>t DEF Launch, LockOK, MutexFree
    <2> QED
      BY <2>2, <2>3
  <1>16. ASSUME NEW s \in Session, NEW t \in Task, Collect(s, t) PROVE LockOK'
    BY <1>16, <1>t, SessionAssumption DEF Collect, LockOK, MutexFree
  <1>17. ASSUME NEW s \in Session, NEW t \in Task, NEW st \in Status, Exit(s, t, st)
         PROVE  LockOK'
    BY <1>17, <1>t, SessionAssumption DEF Exit, LockOK, MutexFree
  <1>18. ASSUME NEW s \in Session, NEW t \in Task, NEW r \in Run, Reuse(s, t, r)
         PROVE  LockOK'
    BY <1>18, <1>t, SessionAssumption DEF Reuse, LockOK, MutexFree
  <1>19. ASSUME NEW s \in Session, NEW t \in Task, NEW r \in Run, EvidenceMissing(s, t, r)
         PROVE  LockOK'
    BY <1>19, <1>t, SessionAssumption DEF EvidenceMissing, LockOK, MutexFree
  <1>20. CASE UNCHANGED vars
    BY <1>20, <1>t, SessionAssumption DEF vars, LockOK, MutexFree
  <1> QED
    BY <1>1, <1>2, <1>3, <1>4, <1>5, <1>6, <1>7, <1>8, <1>9, <1>10, <1>11, <1>12,
       <1>13, <1>14, <1>15, <1>16, <1>17, <1>18, <1>19, <1>20
    DEF Next, Step

-----------------------------------------------------------------------------
(* The log.                                                                *)

\* What is in the log about a Run.
HasStart(r) == \E i \in 1..Len(wal) : StartOf(i, r)
HasCompletion(r) ==
    \E j \in 1..Len(wal) : wal[j].type = "finished" /\ wal[j].run = r

\* Among its first n records the log shows r to be a consistent success of
\* task t in the checkout of session s.
Proven(r, t, s, n) ==
    \E j \in 1..n : \E i \in 1..(j - 1) :
        /\ StartOf(i, r)
        /\ CheckoutOf[wal[i].by] = CheckoutOf[s] /\ wal[i].task = t
        /\ wal[j].type = "finished" /\ wal[j].run = r
        /\ wal[j].status = "passed" /\ wal[j].consistent

\* A Run is started once and completed once, by its own session, and is reused
\* only where the log already shows it to be a success of the same task.
LogOK ==
    \A k \in 1..Len(wal) :
        /\ wal[k].type # "reused" => wal[k].run = <<wal[k].by, wal[k].task>>
        /\ wal[k].type = "started" => \A i \in 1..(k - 1) : ~StartOf(i, wal[k].run)
        /\ wal[k].type = "finished" =>
             \A i \in 1..(k - 1) : ~(wal[i].type = "finished" /\ wal[i].run = wal[k].run)
        /\ wal[k].type = "reused" => Proven(wal[k].run, wal[k].task, wal[k].by, k - 1)

\* How far a check has come bounds what the log can hold about it.
WorkOK ==
    \A s \in Session :
        /\ view[s].hi <= Len(wal)
        /\ \A t \in Task :
             /\ check[s][t] \in {"todo", "reused"} => ~HasStart(<<s, t>>)
             /\ check[s][t] # "recorded" => ~HasCompletion(<<s, t>>)
             /\ check[s][t] = "reused" => Proven(source[s][t], t, s, Len(wal))
             /\ pc[s] = "record" => check[s][t] \in {"exited", "reused", "recorded"}

\* What a batch says is still true of the log, although it was made up without
\* the lock.
BatchOK ==
    \A s \in Session : \A e \in batch[s] :
        /\ e.by = s
        /\ e.type # "reused" => e.run = <<s, e.task>>
        /\ e.type = "started" =>
             pc[s] = "run" /\ check[s][e.task] = "logging" /\ ~HasStart(e.run)
        /\ e.type # "started" => pc[s] = "record" /\ check[s][e.task] = "recorded"
        /\ e.type = "finished" => ~HasCompletion(e.run)
        /\ e.type = "reused" => Proven(e.run, e.task, s, Len(wal))
        /\ \A f \in batch[s] : f.task = e.task => f = e

IInv == TypeOK /\ LockOK /\ LogOK /\ WorkOK /\ BatchOK

\* At first there is no log, no batch and no view of one.
LEMMA InitLog == Init => LogOK /\ WorkOK /\ BatchOK
  <1> SUFFICES ASSUME Init PROVE LogOK /\ WorkOK /\ BatchOK
    OBVIOUS
  <1>1. Len(wal) = 0 /\ \A s \in Session : batch[s] = {} /\ view[s].hi = 0
    BY DEF Init
  <1>2. \A s \in Session, t \in Task : check[s][t] \in {"todo", "recorded"} /\ pc[s] = "open"
    BY DEF Init
  <1>3. \A r : ~HasStart(r) /\ ~HasCompletion(r)
    BY <1>1 DEF HasStart, HasCompletion
  <1> QED
    BY <1>1, <1>2, <1>3 DEF LogOK, WorkOK, BatchOK

\* A step that leaves the log alone leaves what is known from it alone.
LEMMA LogKept ==
    ASSUME wal' = wal
    PROVE  /\ \A q : HasStart(q)' <=> HasStart(q)
           /\ \A q : HasCompletion(q)' <=> HasCompletion(q)
           /\ \A r, t, s, n : Proven(r, t, s, n)' <=> Proven(r, t, s, n)
  BY DEF HasStart, HasCompletion, Proven, StartOf

\* A record behind the log adds itself to what is known and takes nothing away.
LEMMA LogGrows ==
    ASSUME wal \in Seq(Event), wal' \in Seq(Event), NEW e \in Event,
           Len(wal') = Len(wal) + 1, wal'[Len(wal) + 1] = e,
           \A i \in 1..Len(wal) : wal'[i] = wal[i]
    PROVE  /\ \A q : HasStart(q)' <=> HasStart(q) \/ (e.type = "started" /\ e.run = q)
           /\ \A r : HasCompletion(r)' <=>
                        HasCompletion(r) \/ (e.type = "finished" /\ e.run = r)
           /\ \A r, t, s : \A n \in 0..Len(wal) : Proven(r, t, s, n) => Proven(r, t, s, n)'
           /\ \A r, t, s : Proven(r, t, s, Len(wal)) => Proven(r, t, s, Len(wal))'
  <1>1. Len(wal) \in Nat
    OBVIOUS
  <1>2. \A i \in 1..Len(wal') : i \in 1..Len(wal) \/ i = Len(wal) + 1
    BY <1>1
  <1>3. \A q : HasStart(q)' <=> HasStart(q) \/ (e.type = "started" /\ e.run = q)
    BY <1>1, <1>2 DEF HasStart, StartOf
  <1>4. \A q : HasCompletion(q)' <=> HasCompletion(q) \/ (e.type = "finished" /\ e.run = q)
    BY <1>1, <1>2 DEF HasCompletion
  <1>5. \A n \in 0..Len(wal) : \A j \in 1..n : \A i \in 1..(j - 1) :
           wal'[j] = wal[j] /\ wal'[i] = wal[i]
    BY <1>1
  <1>6. ASSUME NEW r, NEW t, NEW s, NEW n \in 0..Len(wal), NEW m \in n..Len(wal'),
               Proven(r, t, s, n)
        PROVE  \E j \in 1..m : \E i \in 1..(j - 1) :
                 /\ wal'[i].type = "started" /\ wal'[i].run = r
                 /\ CheckoutOf[wal'[i].by] = CheckoutOf[s] /\ wal'[i].task = t
                 /\ wal'[j].type = "finished" /\ wal'[j].run = r
                 /\ wal'[j].status = "passed" /\ wal'[j].consistent
    <2>1. PICK j \in 1..n : \E i \in 1..(j - 1) :
             /\ wal[i].type = "started" /\ wal[i].run = r
             /\ CheckoutOf[wal[i].by] = CheckoutOf[s] /\ wal[i].task = t
             /\ wal[j].type = "finished" /\ wal[j].run = r
             /\ wal[j].status = "passed" /\ wal[j].consistent
      BY <1>6 DEF Proven, StartOf
    <2>2. PICK i \in 1..(j - 1) :
             /\ wal[i].type = "started" /\ wal[i].run = r
             /\ CheckoutOf[wal[i].by] = CheckoutOf[s] /\ wal[i].task = t
             /\ wal[j].type = "finished" /\ wal[j].run = r
             /\ wal[j].status = "passed" /\ wal[j].consistent
      BY <2>1
    <2>3. wal'[i] = wal[i] /\ wal'[j] = wal[j] /\ j \in 1..m
      BY <1>5, <1>1
    <2> QED
      BY <2>2, <2>3
  <1>7. \A r, t, s : \A n \in 0..Len(wal) : Proven(r, t, s, n) => Proven(r, t, s, n)'
    <2> SUFFICES ASSUME NEW r, NEW t, NEW s, NEW n \in 0..Len(wal), Proven(r, t, s, n)
                 PROVE  Proven(r, t, s, n)'
      OBVIOUS
    <2>1. n \in n..Len(wal')
      BY <1>1
    <2> QED
      BY <1>6, <2>1 DEF Proven, StartOf
  <1>8. \A r, t, s : Proven(r, t, s, Len(wal)) => Proven(r, t, s, Len(wal))'
    <2> SUFFICES ASSUME NEW r, NEW t, NEW s, Proven(r, t, s, Len(wal))
                 PROVE  Proven(r, t, s, Len(wal))'
      OBVIOUS
    <2>1. Len(wal) \in 0..Len(wal) /\ Len(wal') \in Len(wal)..Len(wal')
      BY <1>1
    <2> QED
      BY <1>6, <2>1 DEF Proven, StartOf
  <1> QED
    BY <1>3, <1>4, <1>7, <1>8

\* What WriteNext does: one event of the holder's batch goes behind the log.
LEMMA WriteNextAppends ==
    ASSUME TypeOK, LockOK, NEW s \in Session, WriteNext(s)
    PROVE  \E e \in batch[s] :
             /\ e \in Event
             /\ wal' \in Seq(Event) /\ Len(wal') = Len(wal) + 1
             /\ wal'[Len(wal) + 1] = e /\ \A i \in 1..Len(wal) : wal'[i] = wal[i]
             /\ batch' = [batch EXCEPT ![s] = @ \ {e}]
  <1>1. PICK e \in batch[s] : /\ wal' = Written(s, e)
                             /\ batch' = [batch EXCEPT ![s] = @ \ {e}]
    BY DEF WriteNext
  <1>2. e \in Event /\ handle[s] = Len(wal) /\ wal \in Seq(Event)
    BY <1>1 DEF WriteNext, TypeOK, LockOK
  <1> QED
    BY <1>1, <1>2, WrittenBehind

\* A record is added, or retention may forget a prefix; nothing else happens to
\* the log.
LEMMA LogMoves ==
    ASSUME TypeOK, [Next]_vars
    PROVE  (wal' = wal /\ first' >= first) \/ \E s \in Session : WriteNext(s)
  <1>1. first \in Nat
    BY DEF TypeOK
  <1>2. CASE UNCHANGED vars \/ Tick \/ \E s \in Session : Crash(s)
    <2>1. CASE UNCHANGED vars
      BY <1>1, <2>1 DEF vars, logVars
    <2>2. CASE Tick
      BY <1>1, <2>2 DEF Tick, logVars
    <2>3. ASSUME NEW s \in Session, Crash(s) PROVE wal' = wal /\ first' = first
      BY <2>3 DEF Crash
    <2> QED
      BY <1>1, <1>2, <2>1, <2>2, <2>3
  <1>3. ASSUME NEW s \in Session, Maintain(s) PROVE wal' = wal /\ first' >= first
    BY <1>1, <1>3 DEF Maintain, FirstKept
  <1>4. ASSUME NEW s \in Session, Step(s), ~WriteNext(s), ~Maintain(s)
        PROVE  wal' = wal /\ first' = first
    BY <1>4 DEF Step, logVars, MaintainDone, SaveInputs, NothingToRecord, OpenLog,
       CloseLog, ReadBack, Fail, CollectInputs, CollectOutputs, Capture, Launch,
       Collect, Exit, Reuse, EvidenceMissing
  <1> QED
    BY <1>1, <1>2, <1>3, <1>4 DEF Next

\* Every record that is added is one the log allows.
LEMMA StepLog == IInv /\ [Next]_vars => LogOK'
  <1> SUFFICES ASSUME IInv, [Next]_vars PROVE LogOK'
    OBVIOUS
  <1>1. wal' = wal \/ \E s \in Session : WriteNext(s)
    BY LogMoves DEF IInv
  <1>2. CASE wal' = wal
    BY <1>2, LogKept DEF IInv, LogOK, StartOf
  <1>3. ASSUME NEW s \in Session, WriteNext(s) PROVE LogOK'
    <2>1. PICK e \in batch[s] :
             /\ e \in Event
             /\ wal' \in Seq(Event) /\ Len(wal') = Len(wal) + 1
             /\ wal'[Len(wal) + 1] = e /\ \A i \in 1..Len(wal) : wal'[i] = wal[i]
      BY <1>3, WriteNextAppends DEF IInv
    <2>2. wal \in Seq(Event) /\ Len(wal) \in Nat
      BY DEF IInv, TypeOK
    <2>3. \A r, t, u : \A n \in 0..Len(wal) : Proven(r, t, u, n) => Proven(r, t, u, n)'
      BY <2>1, <2>2, LogGrows
    <2>4. /\ e.by = s
          /\ e.type # "reused" => e.run = <<s, e.task>>
          /\ e.type = "started" => ~HasStart(e.run)
          /\ e.type = "finished" => ~HasCompletion(e.run)
          /\ e.type = "reused" => Proven(e.run, e.task, s, Len(wal))
      BY DEF IInv, BatchOK
    <2> SUFFICES ASSUME NEW k \in 1..Len(wal')
                 PROVE  /\ wal'[k].type # "reused" =>
                             wal'[k].run = <<wal'[k].by, wal'[k].task>>
                        /\ wal'[k].type = "started" =>
                             \A i \in 1..(k - 1) : ~StartOf(i, wal[k].run)'
                        /\ wal'[k].type = "finished" =>
                             \A i \in 1..(k - 1) :
                                ~(wal'[i].type = "finished" /\ wal'[i].run = wal'[k].run)
                        /\ wal'[k].type = "reused" =>
                             Proven(wal[k].run, wal[k].task, wal[k].by, k - 1)'
      BY DEF LogOK
    <2>5. \A i \in 1..(k - 1) : i \in 1..Len(wal) /\ wal'[i] = wal[i]
      BY <2>1, <2>2
    <2>6. CASE k \in 1..Len(wal)
      <3>1. wal'[k] = wal[k] /\ k - 1 \in 0..Len(wal)
        BY <2>1, <2>2, <2>6
      <3> QED
        BY <2>3, <2>5, <2>6, <3>1 DEF IInv, LogOK, StartOf
    <2>7. CASE k = Len(wal) + 1
      <3>1. wal'[k] = e /\ k - 1 = Len(wal)
        BY <2>1, <2>2, <2>7
      <3>2. e.type = "reused" => Proven(wal[k].run, wal[k].task, wal[k].by, k - 1)'
        BY <2>2, <2>3, <2>4, <3>1
      <3> QED
        BY <2>4, <2>5, <3>1, <3>2 DEF HasStart, HasCompletion, StartOf
    <2> QED
      BY <2>1, <2>2, <2>6, <2>7
  <1> QED
    BY <1>1, <1>2, <1>3

\* What reuse grants is shown by the log.
LEMMA ReuseProven ==
    ASSUME IInv, NEW s \in Session, NEW t \in Task, NEW r \in Run, Reuse(s, t, r)
    PROVE  Proven(r, t, s, Len(wal))
  <1>1. view[s].hi <= Len(wal) /\ view[s].lo \in Nat \ {0} /\ view[s].hi \in Nat
    BY DEF IInv, WorkOK, TypeOK
  <1>2. PICK j \in Completions(r, view[s].lo, view[s].hi) : Reusable(j)
    BY DEF Reuse
  <1>3. PICK i \in view[s].lo..view[s].hi :
           /\ StartOf(i, r)
           /\ CheckoutOf[wal[i].by] = CheckoutOf[s] /\ wal[i].task = t
    BY DEF Reuse, Candidate
  <1>4. PICK k \in view[s].lo..(j - 1) : StartOf(k, r)
    BY <1>2 DEF Completions, Live
  <1>5. /\ j \in 1..Len(wal) /\ i \in 1..Len(wal) /\ k \in 1..Len(wal) /\ k \in 1..(j - 1)
        /\ Len(wal) \in Nat
    <2>1. Len(wal) \in Nat
      BY DEF IInv, TypeOK
    <2>2. j \in view[s].lo..view[s].hi
      BY <1>2 DEF Completions
    <2> QED
      BY <1>1, <1>3, <1>4, <2>1, <2>2
  <1>6. i = k
    BY <1>3, <1>4, <1>5 DEF IInv, LogOK, StartOf
  <1>7. wal[j].type = "finished" /\ wal[j].run = r /\ wal[j].status = "passed" /\ wal[j].consistent
    BY <1>2 DEF Completions, Reusable
  <1> QED
    BY <1>3, <1>4, <1>5, <1>6, <1>7 DEF Proven

\* Every step keeps what the checks' progress says of the log.
LEMMA StepWork == IInv /\ [Next]_vars => WorkOK'
  <1> SUFFICES ASSUME IInv, [Next]_vars PROVE WorkOK'
    OBVIOUS
  <1> USE DEF logVars, fileVars, roundVars
  <1>t. /\ pc \in [Session -> Place] /\ check \in [Session -> [Task -> CheckState]]
        /\ batch \in [Session -> SUBSET Event]
        /\ view \in [Session -> [lo : Nat \ {0}, hi : Nat]]
        /\ source \in [Session -> [Task -> Run]] /\ wal \in Seq(Event)
    BY DEF IInv, TypeOK
  <1>1. CASE Tick
    <2>1. wal' = wal
      BY <1>1 DEF Tick, logVars
    <2>2. /\ \A q : HasStart(q)' <=> HasStart(q)
          /\ \A q : HasCompletion(q)' <=> HasCompletion(q)
          /\ \A q, k, u : Proven(q, k, u, Len(wal))' <=> Proven(q, k, u, Len(wal))
      BY <2>1, LogKept
    <2> QED
      BY <1>1, <2>1, <2>2, <1>t DEF Tick, IInv, WorkOK
  <1>2. ASSUME NEW s \in Session, Crash(s) PROVE WorkOK'
    <2>1. wal' = wal
      BY <1>2 DEF Crash, logVars
    <2>2. /\ \A q : HasStart(q)' <=> HasStart(q)
          /\ \A q : HasCompletion(q)' <=> HasCompletion(q)
          /\ \A q, k, u : Proven(q, k, u, Len(wal))' <=> Proven(q, k, u, Len(wal))
      BY <2>1, LogKept
    <2> QED
      BY <1>2, <2>1, <2>2, <1>t DEF Crash, IInv, WorkOK
  <1>3. ASSUME NEW s \in Session, Maintain(s) PROVE WorkOK'
    <2>1. wal' = wal
      BY <1>3 DEF Maintain, logVars
    <2>2. /\ \A q : HasStart(q)' <=> HasStart(q)
          /\ \A q : HasCompletion(q)' <=> HasCompletion(q)
          /\ \A q, k, u : Proven(q, k, u, Len(wal))' <=> Proven(q, k, u, Len(wal))
      BY <2>1, LogKept
    <2> QED
      BY <1>3, <2>1, <2>2, <1>t DEF Maintain, IInv, WorkOK
  <1>4. ASSUME NEW s \in Session, MaintainDone(s) PROVE WorkOK'
    <2>1. wal' = wal
      BY <1>4 DEF MaintainDone, logVars
    <2>2. /\ \A q : HasStart(q)' <=> HasStart(q)
          /\ \A q : HasCompletion(q)' <=> HasCompletion(q)
          /\ \A q, k, u : Proven(q, k, u, Len(wal))' <=> Proven(q, k, u, Len(wal))
      BY <2>1, LogKept
    <2> QED
      BY <1>4, <2>1, <2>2, <1>t DEF MaintainDone, IInv, WorkOK
  <1>5. ASSUME NEW s \in Session, SaveInputs(s) PROVE WorkOK'
    <2>1. wal' = wal
      BY <1>5 DEF SaveInputs, logVars
    <2>2. /\ \A q : HasStart(q)' <=> HasStart(q)
          /\ \A q : HasCompletion(q)' <=> HasCompletion(q)
          /\ \A q, k, u : Proven(q, k, u, Len(wal))' <=> Proven(q, k, u, Len(wal))
      BY <2>1, LogKept
    <2> QED
      BY <1>5, <2>1, <2>2, <1>t DEF SaveInputs, IInv, WorkOK
  <1>6. ASSUME NEW s \in Session, NothingToRecord(s) PROVE WorkOK'
    <2>1. wal' = wal
      BY <1>6 DEF NothingToRecord, logVars
    <2>2. /\ \A q : HasStart(q)' <=> HasStart(q)
          /\ \A q : HasCompletion(q)' <=> HasCompletion(q)
          /\ \A q, k, u : Proven(q, k, u, Len(wal))' <=> Proven(q, k, u, Len(wal))
      BY <2>1, LogKept
    <2> QED
      BY <1>6, <2>1, <2>2, <1>t DEF NothingToRecord, IInv, WorkOK
  <1>7. ASSUME NEW s \in Session, OpenLog(s) PROVE WorkOK'
    <2>1. wal' = wal
      BY <1>7 DEF OpenLog, logVars
    <2>2. /\ \A q : HasStart(q)' <=> HasStart(q)
          /\ \A q : HasCompletion(q)' <=> HasCompletion(q)
          /\ \A q, k, u : Proven(q, k, u, Len(wal))' <=> Proven(q, k, u, Len(wal))
      BY <2>1, LogKept
    <2> QED
      BY <1>7, <2>1, <2>2, <1>t DEF OpenLog, IInv, WorkOK
  <1>8. ASSUME NEW s \in Session, WriteNext(s) PROVE WorkOK'
    <2>1. PICK e \in batch[s] :
             /\ e \in Event
             /\ wal' \in Seq(Event) /\ Len(wal') = Len(wal) + 1
             /\ wal'[Len(wal) + 1] = e /\ \A i \in 1..Len(wal) : wal'[i] = wal[i]
             /\ batch' = [batch EXCEPT ![s] = @ \ {e}]
      BY <1>8, WriteNextAppends DEF IInv
    <2>2. /\ \A q : HasStart(q)' <=> HasStart(q) \/ (e.type = "started" /\ e.run = q)
          /\ \A r : HasCompletion(r)' <=>
                       HasCompletion(r) \/ (e.type = "finished" /\ e.run = r)
          /\ \A r, t, u : Proven(r, t, u, Len(wal)) => Proven(r, t, u, Len(wal))'
      BY <1>t, <2>1, LogGrows
    <2>3. /\ e.type # "reused" => e.run = <<s, e.task>>
          /\ e.type = "started" => check[s][e.task] = "logging"
          /\ e.type # "started" => check[s][e.task] = "recorded"
      BY DEF IInv, BatchOK
    <2>4. /\ pc' = pc /\ check' = check /\ source' = source /\ view' = view
          /\ Len(wal) \in Nat
      BY <1>8, <1>t DEF WriteNext, roundVars
    <2> SUFFICES ASSUME NEW u \in Session, NEW v \in Task
                 PROVE  /\ view'[u].hi <= Len(wal')
                        /\ check'[u][v] \in {"todo", "reused"} => ~HasStart(<<u, v>>)'
                        /\ check'[u][v] # "recorded" => ~HasCompletion(<<u, v>>)'
                        /\ check'[u][v] = "reused" => Proven(source[u][v], v, u, Len(wal))'
                        /\ pc'[u] = "record" =>
                             check'[u][v] \in {"exited", "reused", "recorded"}
      <3>1. \A u \in Session : view'[u].hi <= Len(wal')
        BY <1>t, <2>1, <2>4 DEF IInv, WorkOK
      <3> QED
        BY <3>1 DEF WorkOK
    <2>5. view'[u].hi <= Len(wal')
      BY <1>t, <2>1, <2>4 DEF IInv, WorkOK
    <2>7. check[u][v] = "reused" => Proven(source[u][v], v, u, Len(wal))'
      BY <2>2, <2>4 DEF IInv, WorkOK
    <2>6. e.type # "reused" /\ e.run = <<u, v>> => u = s /\ v = e.task
      BY <2>3
    <2> QED
      BY <2>2, <2>3, <2>4, <2>5, <2>6, <2>7 DEF IInv, WorkOK
  <1>9. ASSUME NEW s \in Session, CloseLog(s) PROVE WorkOK'
    <2>1. wal' = wal
      BY <1>9 DEF CloseLog, logVars
    <2>2. /\ \A q : HasStart(q)' <=> HasStart(q)
          /\ \A q : HasCompletion(q)' <=> HasCompletion(q)
          /\ \A q, k, u : Proven(q, k, u, Len(wal))' <=> Proven(q, k, u, Len(wal))
      BY <2>1, LogKept
    <2> QED
      BY <1>9, <2>1, <2>2, <1>t DEF CloseLog, IInv, WorkOK, Started
  <1>10. ASSUME NEW s \in Session, ReadBack(s) PROVE WorkOK'
    <2>1. wal' = wal
      BY <1>10 DEF ReadBack, logVars
    <2>2. /\ \A q : HasStart(q)' <=> HasStart(q)
          /\ \A q : HasCompletion(q)' <=> HasCompletion(q)
          /\ \A q, k, u : Proven(q, k, u, Len(wal))' <=> Proven(q, k, u, Len(wal))
      BY <2>1, LogKept
    <2> QED
      BY <1>10, <2>1, <2>2, <1>t DEF ReadBack, IInv, WorkOK
  <1>11. ASSUME NEW s \in Session, Fail(s) PROVE WorkOK'
    <2>1. wal' = wal
      BY <1>11 DEF Fail, logVars
    <2>2. /\ \A q : HasStart(q)' <=> HasStart(q)
          /\ \A q : HasCompletion(q)' <=> HasCompletion(q)
          /\ \A q, k, u : Proven(q, k, u, Len(wal))' <=> Proven(q, k, u, Len(wal))
      BY <2>1, LogKept
    <2> QED
      BY <1>11, <2>1, <2>2, <1>t DEF Fail, IInv, WorkOK, Started
  <1>12. ASSUME NEW s \in Session, NEW x \in Session, CollectInputs(s, x)
         PROVE  WorkOK'
    <2>1. wal' = wal
      BY <1>12 DEF CollectInputs, logVars
    <2>2. /\ \A q : HasStart(q)' <=> HasStart(q)
          /\ \A q : HasCompletion(q)' <=> HasCompletion(q)
          /\ \A q, k, u : Proven(q, k, u, Len(wal))' <=> Proven(q, k, u, Len(wal))
      BY <2>1, LogKept
    <2> QED
      BY <1>12, <2>1, <2>2, <1>t DEF CollectInputs, IInv, WorkOK
  <1>13. ASSUME NEW s \in Session, NEW r \in Run, CollectOutputs(s, r)
         PROVE  WorkOK'
    <2>1. wal' = wal
      BY <1>13 DEF CollectOutputs, logVars
    <2>2. /\ \A q : HasStart(q)' <=> HasStart(q)
          /\ \A q : HasCompletion(q)' <=> HasCompletion(q)
          /\ \A q, k, u : Proven(q, k, u, Len(wal))' <=> Proven(q, k, u, Len(wal))
      BY <2>1, LogKept
    <2> QED
      BY <1>13, <2>1, <2>2, <1>t DEF CollectOutputs, IInv, WorkOK
  <1>14. ASSUME NEW s \in Session, NEW same \in BOOLEAN, Capture(s, same)
         PROVE  WorkOK'
    <2>1. wal' = wal
      BY <1>14 DEF Capture, logVars
    <2>2. /\ \A q : HasStart(q)' <=> HasStart(q)
          /\ \A q : HasCompletion(q)' <=> HasCompletion(q)
          /\ \A q, k, u : Proven(q, k, u, Len(wal))' <=> Proven(q, k, u, Len(wal))
      BY <2>1, LogKept
    <2> QED
      BY <1>14, <2>1, <2>2, <1>t DEF Capture, IInv, WorkOK
  <1>15. ASSUME NEW s \in Session, NEW t \in Task, Launch(s, t) PROVE WorkOK'
    <2>1. wal' = wal
      BY <1>15 DEF Launch, logVars
    <2>2. /\ \A q : HasStart(q)' <=> HasStart(q)
          /\ \A q : HasCompletion(q)' <=> HasCompletion(q)
          /\ \A q, k, u : Proven(q, k, u, Len(wal))' <=> Proven(q, k, u, Len(wal))
      BY <2>1, LogKept
    <2> SUFFICES ASSUME NEW u \in Session, NEW v \in Task
                 PROVE  /\ check'[u][v] \in {"todo", "reused"} => ~HasStart(<<u, v>>)
                        /\ check'[u][v] # "recorded" => ~HasCompletion(<<u, v>>)
                        /\ check'[u][v] = "reused" =>
                             Proven(source[u][v], v, u, Len(wal))
                        /\ pc[u] = "record" =>
                             check'[u][v] \in {"exited", "reused", "recorded"}
      BY <1>15, <2>1, <2>2 DEF Launch, roundVars, IInv, WorkOK
    <2>5. PICK c \in {"logging", "running"} : check' = [check EXCEPT ![s][t] = c]
      BY <1>15 DEF Launch
    <2>3. CASE u = s /\ v = t
      <3>1. check'[u][v] \in {"logging", "running"}
        BY <2>5, <2>3, <1>t
      <3>2. check[u][v] = "todo" /\ pc[u] = "run"
        BY <1>15, <2>3 DEF Launch
      <3> QED
        BY <3>1, <3>2 DEF IInv, WorkOK
    <2>4. CASE ~(u = s /\ v = t)
      <3>1. check'[u][v] = check[u][v]
        BY <2>4, <2>5, <1>t
      <3> QED
        BY <3>1 DEF IInv, WorkOK
    <2> QED
      BY <2>3, <2>4
  <1>16. ASSUME NEW s \in Session, NEW t \in Task, Collect(s, t) PROVE WorkOK'
    <2>1. wal' = wal
      BY <1>16 DEF Collect, logVars
    <2>2. /\ \A q : HasStart(q)' <=> HasStart(q)
          /\ \A q : HasCompletion(q)' <=> HasCompletion(q)
          /\ \A q, k, u : Proven(q, k, u, Len(wal))' <=> Proven(q, k, u, Len(wal))
      BY <2>1, LogKept
    <2> QED
      BY <1>16, <2>1, <2>2, <1>t DEF Collect, IInv, WorkOK
  <1>17. ASSUME NEW s \in Session, NEW t \in Task, NEW st \in Status, Exit(s, t, st)
         PROVE  WorkOK'
    <2>1. wal' = wal
      BY <1>17 DEF Exit, logVars
    <2>2. /\ \A q : HasStart(q)' <=> HasStart(q)
          /\ \A q : HasCompletion(q)' <=> HasCompletion(q)
          /\ \A q, k, u : Proven(q, k, u, Len(wal))' <=> Proven(q, k, u, Len(wal))
      BY <2>1, LogKept
    <2> QED
      BY <1>17, <2>1, <2>2, <1>t DEF Exit, IInv, WorkOK
  <1>18. ASSUME NEW s \in Session, NEW t \in Task, NEW r \in Run, Reuse(s, t, r)
         PROVE  WorkOK'
    <2>1. wal' = wal
      BY <1>18 DEF Reuse, logVars
    <2>2. /\ \A q : HasStart(q)' <=> HasStart(q)
          /\ \A q : HasCompletion(q)' <=> HasCompletion(q)
          /\ \A q, k, u : Proven(q, k, u, Len(wal))' <=> Proven(q, k, u, Len(wal))
      BY <2>1, LogKept
    <2>3. Proven(r, t, s, Len(wal)) /\ check[s][t] = "todo" /\ pc[s] = "run"
      BY <1>18, ReuseProven DEF Reuse
    <2> QED
      BY <1>18, <2>1, <2>2, <2>3, <1>t DEF Reuse, IInv, WorkOK
  <1>19. ASSUME NEW s \in Session, NEW t \in Task, NEW r \in Run, EvidenceMissing(s, t, r)
         PROVE  WorkOK'
    <2>1. wal' = wal
      BY <1>19 DEF EvidenceMissing, logVars
    <2>2. /\ \A q : HasStart(q)' <=> HasStart(q)
          /\ \A q : HasCompletion(q)' <=> HasCompletion(q)
          /\ \A q, k, u : Proven(q, k, u, Len(wal))' <=> Proven(q, k, u, Len(wal))
      BY <2>1, LogKept
    <2> QED
      BY <1>19, <2>1, <2>2, <1>t DEF EvidenceMissing, IInv, WorkOK
  <1>20. CASE UNCHANGED vars
    <2>1. wal' = wal
      BY <1>20 DEF vars, logVars
    <2>2. /\ \A q : HasStart(q)' <=> HasStart(q)
          /\ \A q : HasCompletion(q)' <=> HasCompletion(q)
          /\ \A q, k, u : Proven(q, k, u, Len(wal))' <=> Proven(q, k, u, Len(wal))
      BY <2>1, LogKept
    <2> QED
      BY <1>20, <2>1, <2>2, <1>t DEF vars, IInv, WorkOK
  <1> QED
    BY <1>1, <1>2, <1>3, <1>4, <1>5, <1>6, <1>7, <1>8, <1>9, <1>10, <1>11, <1>12,
       <1>13, <1>14, <1>15, <1>16, <1>17, <1>18, <1>19, <1>20
    DEF Next, Step

\* Every step keeps what the batches say true.
LEMMA StepBatch == IInv /\ [Next]_vars => BatchOK'
  <1> SUFFICES ASSUME IInv, [Next]_vars PROVE BatchOK'
    OBVIOUS
  <1> USE DEF logVars, fileVars, roundVars
  <1>t. /\ pc \in [Session -> Place] /\ check \in [Session -> [Task -> CheckState]]
        /\ batch \in [Session -> SUBSET Event]
        /\ view \in [Session -> [lo : Nat \ {0}, hi : Nat]]
        /\ source \in [Session -> [Task -> Run]] /\ wal \in Seq(Event)
    BY DEF IInv, TypeOK
  <1>1. CASE Tick
    <2>1. wal' = wal
      BY <1>1 DEF Tick, logVars
    <2>2. /\ \A q : HasStart(q)' <=> HasStart(q)
          /\ \A q : HasCompletion(q)' <=> HasCompletion(q)
          /\ \A q, k, u : Proven(q, k, u, Len(wal))' <=> Proven(q, k, u, Len(wal))
      BY <2>1, LogKept
    <2> QED
      BY <1>1, <2>1, <2>2, <1>t DEF Tick, IInv, BatchOK
  <1>2. ASSUME NEW s \in Session, Crash(s) PROVE BatchOK'
    <2>1. wal' = wal
      BY <1>2 DEF Crash, logVars
    <2>2. /\ \A q : HasStart(q)' <=> HasStart(q)
          /\ \A q : HasCompletion(q)' <=> HasCompletion(q)
          /\ \A q, k, u : Proven(q, k, u, Len(wal))' <=> Proven(q, k, u, Len(wal))
      BY <2>1, LogKept
    <2> QED
      BY <1>2, <2>1, <2>2, <1>t DEF Crash, IInv, BatchOK
  <1>3. ASSUME NEW s \in Session, Maintain(s) PROVE BatchOK'
    <2>1. wal' = wal
      BY <1>3 DEF Maintain, logVars
    <2>2. /\ \A q : HasStart(q)' <=> HasStart(q)
          /\ \A q : HasCompletion(q)' <=> HasCompletion(q)
          /\ \A q, k, u : Proven(q, k, u, Len(wal))' <=> Proven(q, k, u, Len(wal))
      BY <2>1, LogKept
    <2> QED
      BY <1>3, <2>1, <2>2, <1>t DEF Maintain, IInv, BatchOK
  <1>4. ASSUME NEW s \in Session, MaintainDone(s) PROVE BatchOK'
    <2>1. wal' = wal
      BY <1>4 DEF MaintainDone, logVars
    <2>2. /\ \A q : HasStart(q)' <=> HasStart(q)
          /\ \A q : HasCompletion(q)' <=> HasCompletion(q)
          /\ \A q, k, u : Proven(q, k, u, Len(wal))' <=> Proven(q, k, u, Len(wal))
      BY <2>1, LogKept
    <2> QED
      BY <1>4, <2>1, <2>2, <1>t DEF MaintainDone, IInv, BatchOK
  <1>5. ASSUME NEW s \in Session, SaveInputs(s) PROVE BatchOK'
    <2>1. wal' = wal
      BY <1>5 DEF SaveInputs, logVars
    <2>2. /\ \A q : HasStart(q)' <=> HasStart(q)
          /\ \A q : HasCompletion(q)' <=> HasCompletion(q)
          /\ \A q, k, u : Proven(q, k, u, Len(wal))' <=> Proven(q, k, u, Len(wal))
      BY <2>1, LogKept
    <2> QED
      BY <1>5, <2>1, <2>2, <1>t DEF SaveInputs, IInv, BatchOK
  <1>6. ASSUME NEW s \in Session, NothingToRecord(s) PROVE BatchOK'
    <2>1. wal' = wal
      BY <1>6 DEF NothingToRecord, logVars
    <2>2. /\ \A q : HasStart(q)' <=> HasStart(q)
          /\ \A q : HasCompletion(q)' <=> HasCompletion(q)
          /\ \A q, k, u : Proven(q, k, u, Len(wal))' <=> Proven(q, k, u, Len(wal))
      BY <2>1, LogKept
    <2> QED
      BY <1>6, <2>1, <2>2, <1>t DEF NothingToRecord, IInv, BatchOK
  <1>7. ASSUME NEW s \in Session, OpenLog(s) PROVE BatchOK'
    <2>1. wal' = wal
      BY <1>7 DEF OpenLog, logVars
    <2>2. /\ \A q : HasStart(q)' <=> HasStart(q)
          /\ \A q : HasCompletion(q)' <=> HasCompletion(q)
          /\ \A q, k, u : Proven(q, k, u, Len(wal))' <=> Proven(q, k, u, Len(wal))
      BY <2>1, LogKept
    <2> QED
      BY <1>7, <2>1, <2>2, <1>t DEF OpenLog, IInv, BatchOK
  <1>8. ASSUME NEW s \in Session, WriteNext(s) PROVE BatchOK'
    <2>1. PICK e \in batch[s] :
             /\ e \in Event
             /\ wal' \in Seq(Event) /\ Len(wal') = Len(wal) + 1
             /\ wal'[Len(wal) + 1] = e /\ \A i \in 1..Len(wal) : wal'[i] = wal[i]
             /\ batch' = [batch EXCEPT ![s] = @ \ {e}]
      BY <1>8, WriteNextAppends DEF IInv
    <2>2. /\ \A q : HasStart(q)' <=> HasStart(q) \/ (e.type = "started" /\ e.run = q)
          /\ \A r : HasCompletion(r)' <=>
                       HasCompletion(r) \/ (e.type = "finished" /\ e.run = r)
          /\ \A r, t, u : Proven(r, t, u, Len(wal)) => Proven(r, t, u, Len(wal))'
      BY <1>t, <2>1, LogGrows
    <2>3. /\ e.type # "reused" => e.run = <<s, e.task>>
          /\ e.type = "started" => check[s][e.task] = "logging"
          /\ e.type # "started" => check[s][e.task] = "recorded"
      BY DEF IInv, BatchOK
    <2>4. /\ pc' = pc /\ check' = check /\ source' = source /\ view' = view
          /\ Len(wal) \in Nat
      BY <1>8, <1>t DEF WriteNext, roundVars
    <2> QED
      BY <2>1, <2>2, <2>3, <2>4, <1>t DEF IInv, BatchOK
  <1>9. ASSUME NEW s \in Session, CloseLog(s) PROVE BatchOK'
    <2>1. wal' = wal
      BY <1>9 DEF CloseLog, logVars
    <2>2. /\ \A q : HasStart(q)' <=> HasStart(q)
          /\ \A q : HasCompletion(q)' <=> HasCompletion(q)
          /\ \A q, k, u : Proven(q, k, u, Len(wal))' <=> Proven(q, k, u, Len(wal))
      BY <2>1, LogKept
    <2> QED
      BY <1>9, <2>1, <2>2, <1>t DEF CloseLog, IInv, BatchOK, Started
  <1>10. ASSUME NEW s \in Session, ReadBack(s) PROVE BatchOK'
    <2>1. wal' = wal
      BY <1>10 DEF ReadBack, logVars
    <2>2. /\ \A q : HasStart(q)' <=> HasStart(q)
          /\ \A q : HasCompletion(q)' <=> HasCompletion(q)
          /\ \A q, k, u : Proven(q, k, u, Len(wal))' <=> Proven(q, k, u, Len(wal))
      BY <2>1, LogKept
    <2> QED
      BY <1>10, <2>1, <2>2, <1>t DEF ReadBack, IInv, BatchOK
  <1>11. ASSUME NEW s \in Session, Fail(s) PROVE BatchOK'
    <2>1. wal' = wal
      BY <1>11 DEF Fail, logVars
    <2>2. /\ \A q : HasStart(q)' <=> HasStart(q)
          /\ \A q : HasCompletion(q)' <=> HasCompletion(q)
          /\ \A q, k, u : Proven(q, k, u, Len(wal))' <=> Proven(q, k, u, Len(wal))
      BY <2>1, LogKept
    <2> QED
      BY <1>11, <2>1, <2>2, <1>t DEF Fail, IInv, BatchOK, Started
  <1>12. ASSUME NEW s \in Session, NEW x \in Session, CollectInputs(s, x)
         PROVE  BatchOK'
    <2>1. wal' = wal
      BY <1>12 DEF CollectInputs, logVars
    <2>2. /\ \A q : HasStart(q)' <=> HasStart(q)
          /\ \A q : HasCompletion(q)' <=> HasCompletion(q)
          /\ \A q, k, u : Proven(q, k, u, Len(wal))' <=> Proven(q, k, u, Len(wal))
      BY <2>1, LogKept
    <2> QED
      BY <1>12, <2>1, <2>2, <1>t DEF CollectInputs, IInv, BatchOK
  <1>13. ASSUME NEW s \in Session, NEW r \in Run, CollectOutputs(s, r)
         PROVE  BatchOK'
    <2>1. wal' = wal
      BY <1>13 DEF CollectOutputs, logVars
    <2>2. /\ \A q : HasStart(q)' <=> HasStart(q)
          /\ \A q : HasCompletion(q)' <=> HasCompletion(q)
          /\ \A q, k, u : Proven(q, k, u, Len(wal))' <=> Proven(q, k, u, Len(wal))
      BY <2>1, LogKept
    <2> QED
      BY <1>13, <2>1, <2>2, <1>t DEF CollectOutputs, IInv, BatchOK
  <1>14. ASSUME NEW s \in Session, NEW same \in BOOLEAN, Capture(s, same)
         PROVE  BatchOK'
    <2>1. wal' = wal
      BY <1>14 DEF Capture, logVars
    <2>2. /\ \A q : HasStart(q)' <=> HasStart(q)
          /\ \A q : HasCompletion(q)' <=> HasCompletion(q)
          /\ \A q, k, u : Proven(q, k, u, Len(wal))' <=> Proven(q, k, u, Len(wal))
      BY <2>1, LogKept
    <2>3. MutexFree(s) /\ pc[s] = "run"
      BY <1>14 DEF Capture, MutexFree
    <2>4. batch[s] = {}
      BY <2>3 DEF IInv, LockOK
    <2> QED
      BY <1>14, <2>1, <2>2, <2>4, <1>t DEF Capture, IInv, BatchOK
  <1>15. ASSUME NEW s \in Session, NEW t \in Task, Launch(s, t) PROVE BatchOK'
    <2>1. wal' = wal
      BY <1>15 DEF Launch, logVars
    <2>2. /\ \A q : HasStart(q)' <=> HasStart(q)
          /\ \A q : HasCompletion(q)' <=> HasCompletion(q)
          /\ \A q, k, u : Proven(q, k, u, Len(wal))' <=> Proven(q, k, u, Len(wal))
      BY <2>1, LogKept
    <2>3. CASE healthy[s]
      <3> DEFINE e == NewEvent("started", <<s, t>>, s, t, "none", FALSE)
      <3>1. /\ e.by = s /\ e.type = "started" /\ e.run = <<s, t>> /\ e.task = t
            /\ batch' = [batch EXCEPT ![s] = {e}]
            /\ check' = [check EXCEPT ![s][t] = "logging"]
            /\ pc' = pc /\ pc[s] = "run" /\ check[s][t] = "todo"
        BY <1>15, <2>3 DEF Launch, NewEvent
      <3> HIDE DEF e
      <3>2. ~HasStart(<<s, t>>)
        BY <3>1 DEF IInv, WorkOK
      <3>3. batch'[s] = {e} /\ check'[s][t] = "logging"
        BY <3>1, <1>t
      <3>4. \A u \in Session \ {s} : batch'[u] = batch[u] /\ check'[u] = check[u]
        BY <3>1, <1>t
      <3> QED
        BY <2>2, <3>1, <3>2, <3>3, <3>4 DEF IInv, BatchOK
    <2>4. CASE ~healthy[s]
      <3>1. /\ batch' = batch /\ check' = [check EXCEPT ![s][t] = "running"]
            /\ pc' = pc /\ pc[s] = "run" /\ MutexFree(s)
        BY <1>15, <2>4 DEF Launch
      <3>2. batch[s] = {}
        BY <3>1 DEF IInv, LockOK
      <3> QED
        BY <2>2, <3>1, <3>2, <1>t DEF IInv, BatchOK
    <2> QED
      BY <2>3, <2>4
  <1>16. ASSUME NEW s \in Session, NEW t \in Task, Collect(s, t) PROVE BatchOK'
    <2>1. wal' = wal
      BY <1>16 DEF Collect, logVars
    <2>2. /\ \A q : HasStart(q)' <=> HasStart(q)
          /\ \A q : HasCompletion(q)' <=> HasCompletion(q)
          /\ \A q, k, u : Proven(q, k, u, Len(wal))' <=> Proven(q, k, u, Len(wal))
      BY <2>1, LogKept
    <2> DEFINE e == IF check[s][t] = "reused"
                    THEN NewEvent("reused", source[s][t], s, t, "passed", consistent[s])
                    ELSE NewEvent("finished", <<s, t>>, s, t, status[s][t], consistent[s])
    <2>3. /\ e.by = s /\ e.task = t /\ e.type \in {"reused", "finished"}
          /\ e.type = "finished" => e.run = <<s, t>>
          /\ e.type = "reused" => e.run = source[s][t] /\ check[s][t] = "reused"
      BY DEF NewEvent
    <2>4. /\ batch' = [batch EXCEPT ![s] = @ \cup {e}]
          /\ check' = [check EXCEPT ![s][t] = "recorded"]
          /\ pc' = pc /\ pc[s] = "record" /\ check[s][t] # "recorded"
      BY <1>16 DEF Collect, Unrecorded
    <2> HIDE DEF e
    <2>5. /\ e.type = "finished" => ~HasCompletion(e.run)
          /\ e.type = "reused" => Proven(e.run, e.task, s, Len(wal))
      BY <2>3, <2>4 DEF IInv, WorkOK
    <2>6. \A f \in batch[s] : f.task # t
      BY <2>4 DEF IInv, BatchOK
    <2>7. batch'[s] = batch[s] \cup {e} /\ check'[s][t] = "recorded"
      BY <2>4, <1>t
    <2>8. \A v : v # t => check'[s][v] = check[s][v]
      BY <2>4, <1>t
    <2>9. \A u \in Session \ {s} : batch'[u] = batch[u] /\ check'[u] = check[u]
      BY <2>4, <1>t
    <2>10. ASSUME NEW u \in Session, u # s
           PROVE  \A f \in batch'[u] :
                    /\ f.by = u
                    /\ f.type # "reused" => f.run = <<u, f.task>>
                    /\ f.type = "started" =>
                         pc[u] = "run" /\ check'[u][f.task] = "logging" /\ ~HasStart(f.run)
                    /\ f.type # "started" => pc[u] = "record" /\ check'[u][f.task] = "recorded"
                    /\ f.type = "finished" => ~HasCompletion(f.run)
                    /\ f.type = "reused" => Proven(f.run, f.task, u, Len(wal))
                    /\ \A g \in batch'[u] : g.task = f.task => g = f
      BY <2>9, <2>10 DEF IInv, BatchOK
    <2>11. \A f \in batch'[s] :
             /\ f.by = s
             /\ f.type # "reused" => f.run = <<s, f.task>>
             /\ f.type = "started" =>
                  pc[s] = "run" /\ check'[s][f.task] = "logging" /\ ~HasStart(f.run)
             /\ f.type # "started" => pc[s] = "record" /\ check'[s][f.task] = "recorded"
             /\ f.type = "finished" => ~HasCompletion(f.run)
             /\ f.type = "reused" => Proven(f.run, f.task, s, Len(wal))
             /\ \A g \in batch'[s] : g.task = f.task => g = f
      BY <2>3, <2>4, <2>5, <2>6, <2>7, <2>8 DEF IInv, BatchOK
    <2> QED
      BY <2>2, <2>4, <2>10, <2>11 DEF BatchOK
  <1>17. ASSUME NEW s \in Session, NEW t \in Task, NEW st \in Status, Exit(s, t, st)
         PROVE  BatchOK'
    <2>1. wal' = wal
      BY <1>17 DEF Exit, logVars
    <2>2. /\ \A q : HasStart(q)' <=> HasStart(q)
          /\ \A q : HasCompletion(q)' <=> HasCompletion(q)
          /\ \A q, k, u : Proven(q, k, u, Len(wal))' <=> Proven(q, k, u, Len(wal))
      BY <2>1, LogKept
    <2> QED
      BY <1>17, <2>1, <2>2, <1>t DEF Exit, IInv, BatchOK
  <1>18. ASSUME NEW s \in Session, NEW t \in Task, NEW r \in Run, Reuse(s, t, r)
         PROVE  BatchOK'
    <2>1. wal' = wal
      BY <1>18 DEF Reuse, logVars
    <2>2. /\ \A q : HasStart(q)' <=> HasStart(q)
          /\ \A q : HasCompletion(q)' <=> HasCompletion(q)
          /\ \A q, k, u : Proven(q, k, u, Len(wal))' <=> Proven(q, k, u, Len(wal))
      BY <2>1, LogKept
    <2> QED
      BY <1>18, <2>1, <2>2, <1>t DEF Reuse, IInv, BatchOK
  <1>19. ASSUME NEW s \in Session, NEW t \in Task, NEW r \in Run, EvidenceMissing(s, t, r)
         PROVE  BatchOK'
    <2>1. wal' = wal
      BY <1>19 DEF EvidenceMissing, logVars
    <2>2. /\ \A q : HasStart(q)' <=> HasStart(q)
          /\ \A q : HasCompletion(q)' <=> HasCompletion(q)
          /\ \A q, k, u : Proven(q, k, u, Len(wal))' <=> Proven(q, k, u, Len(wal))
      BY <2>1, LogKept
    <2> QED
      BY <1>19, <2>1, <2>2, <1>t DEF EvidenceMissing, IInv, BatchOK
  <1>20. CASE UNCHANGED vars
    <2>1. wal' = wal
      BY <1>20 DEF vars, logVars
    <2>2. /\ \A q : HasStart(q)' <=> HasStart(q)
          /\ \A q : HasCompletion(q)' <=> HasCompletion(q)
          /\ \A q, k, u : Proven(q, k, u, Len(wal))' <=> Proven(q, k, u, Len(wal))
      BY <2>1, LogKept
    <2> QED
      BY <1>20, <2>1, <2>2, <1>t DEF vars, IInv, BatchOK
  <1> QED
    BY <1>1, <1>2, <1>3, <1>4, <1>5, <1>6, <1>7, <1>8, <1>9, <1>10, <1>11, <1>12,
       <1>13, <1>14, <1>15, <1>16, <1>17, <1>18, <1>19, <1>20
    DEF Next, Step

-----------------------------------------------------------------------------
(* The theorems.                                                           *)

\* The invariant holds of every execution.
LEMMA InductiveInvariant == Spec => []IInv
  <1>1. Init => IInv
    BY InitType, InitLock, InitLog DEF IInv
  <1>2. IInv /\ [Next]_vars => IInv'
    BY StepType, StepLock, StepLog, StepWork, StepBatch DEF IInv
  <1> QED
    BY <1>1, <1>2, PTL DEF Spec

\* Every state of the store is of its declared types.
THEOREM TypeCorrect == Spec => []TypeOK
  <1>1. IInv => TypeOK
    BY DEF IInv
  <1> QED
    BY <1>1, InductiveInvariant, PTL

\* What is retained of a log that is as LogOK says replays from any of its
\* entries on.
LEMMA ReplayableLog == IInv => Replayable
  <1> SUFFICES ASSUME IInv, NEW lo \in first..(Len(wal) + 1), NEW k \in lo..Len(wal)
               PROVE  Applies(wal[k], lo, k - 1)
    BY DEF Replayable, Replays
  <1>1. /\ Len(wal) \in Nat /\ lo \in Nat /\ 1 <= lo /\ k \in 1..Len(wal)
        /\ wal[k] \in Event
    BY DEF IInv, TypeOK
  <1>2. \A i \in lo..(k - 1) : i \in 1..(k - 1)
    BY <1>1
  <1>3. CASE wal[k].type = "started"
    BY <1>1, <1>2, <1>3 DEF Applies, Live, IInv, LogOK
  <1>4. CASE wal[k].type # "started" /\ ~Live(wal[k].run, lo, k - 1)
    BY <1>4 DEF Applies, Orphan
  <1>5. CASE wal[k].type = "finished" /\ Live(wal[k].run, lo, k - 1)
    <2>1. Completions(wal[k].run, lo, k - 1) = {}
      BY <1>1, <1>2, <1>5 DEF Completions, IInv, LogOK
    <2>2. PICK i \in lo..(k - 1) : StartOf(i, wal[k].run)
      BY <1>5 DEF Live
    <2>3. i \in 1..Len(wal) /\ wal[i] \in Event
      BY <1>1 DEF IInv, TypeOK
    <2>4. wal[i].run = <<wal[i].by, wal[i].task>> /\ wal[k].run = <<wal[k].by, wal[k].task>>
      BY <1>1, <1>5, <2>2, <2>3 DEF StartOf, IInv, LogOK
    <2>5. wal[i].by = wal[k].by /\ wal[i].task = wal[k].task
      <3>1. <<wal[i].by, wal[i].task>> = <<wal[k].by, wal[k].task>>
        BY <2>2, <2>4 DEF StartOf
      <3> QED
        BY <3>1
    <2> QED
      BY <1>5, <2>1, <2>2, <2>5 DEF Applies, SameTask
  <1>6. CASE wal[k].type = "reused" /\ Live(wal[k].run, lo, k - 1)
    <2>1. PICK j \in 1..(k - 1) : \E i \in 1..(j - 1) :
             /\ StartOf(i, wal[k].run)
             /\ CheckoutOf[wal[i].by] = CheckoutOf[wal[k].by] /\ wal[i].task = wal[k].task
             /\ wal[j].type = "finished" /\ wal[j].run = wal[k].run
             /\ wal[j].status = "passed" /\ wal[j].consistent
      BY <1>1, <1>6 DEF IInv, LogOK, Proven
    <2>2. PICK i \in 1..(j - 1) :
             /\ StartOf(i, wal[k].run)
             /\ CheckoutOf[wal[i].by] = CheckoutOf[wal[k].by] /\ wal[i].task = wal[k].task
      BY <2>1
    <2>3. PICK m \in lo..(k - 1) : StartOf(m, wal[k].run)
      BY <1>6 DEF Live
    <2>4. i = m
      <3>1. i \in 1..Len(wal) /\ m \in 1..Len(wal)
        BY <1>1
      <3> QED
        BY <2>2, <2>3, <3>1 DEF StartOf, IInv, LogOK
    <2>5. i \in lo..(j - 1) /\ j \in lo..(k - 1) /\ i \in lo..(k - 1)
      BY <1>1, <2>4
    <2>6. j \in Completions(wal[k].run, lo, k - 1)
      BY <2>1, <2>2, <2>5 DEF Completions, Live
    <2> QED
      BY <1>6, <2>1, <2>2, <2>5, <2>6 DEF Applies, SameTask
  <1> QED
    BY <1>1, <1>3, <1>4, <1>5, <1>6 DEF Event

\* However many sessions interleave, crash and truncate, the history can be
\* replayed from wherever retention has cut it.
THEOREM HistoryReplays == Spec => []Replayable
  BY ReplayableLog, InductiveInvariant, PTL

\* A batch was made up without the lock; what it says still holds of the log.
LEMMA AcceptableBatch == IInv => NoBatchRejected
  <1> SUFFICES ASSUME IInv, NEW s \in Session, NEW e \in batch[s]
               PROVE  Applies(e, first, Len(wal))
    BY DEF NoBatchRejected, Acceptable
  <1>1. /\ Len(wal) \in Nat /\ first \in Nat /\ 1 <= first /\ e \in Event
    BY DEF IInv, TypeOK
  <1>2. /\ e.by = s
        /\ e.type # "reused" => e.run = <<s, e.task>>
        /\ e.type = "started" => ~HasStart(e.run)
        /\ e.type = "finished" => ~HasCompletion(e.run)
        /\ e.type = "reused" => Proven(e.run, e.task, s, Len(wal))
    BY DEF IInv, BatchOK
  <1>3. \A i \in first..Len(wal) : i \in 1..Len(wal)
    BY <1>1
  <1>4. CASE e.type = "started"
    BY <1>2, <1>3, <1>4 DEF Applies, Live, HasStart
  <1>5. CASE e.type # "started" /\ ~Live(e.run, first, Len(wal))
    BY <1>5 DEF Applies, Orphan
  <1>6. CASE e.type = "finished" /\ Live(e.run, first, Len(wal))
    <2>1. Completions(e.run, first, Len(wal)) = {}
      BY <1>2, <1>3, <1>6 DEF Completions, HasCompletion
    <2>2. PICK i \in first..Len(wal) : StartOf(i, e.run)
      BY <1>6 DEF Live
    <2>3. wal[i].run = <<wal[i].by, wal[i].task>>
      BY <1>3, <2>2 DEF StartOf, IInv, LogOK
    <2>4. wal[i].by = e.by /\ SameTask(wal[i], e)
      BY <1>2, <1>6, <2>2, <2>3 DEF StartOf, SameTask
    <2> QED
      BY <1>6, <2>1, <2>2, <2>4 DEF Applies
  <1>7. CASE e.type = "reused" /\ Live(e.run, first, Len(wal))
    <2>1. PICK j \in 1..Len(wal) : \E i \in 1..(j - 1) :
             /\ StartOf(i, e.run)
             /\ CheckoutOf[wal[i].by] = CheckoutOf[s] /\ wal[i].task = e.task
             /\ wal[j].type = "finished" /\ wal[j].run = e.run
             /\ wal[j].status = "passed" /\ wal[j].consistent
      BY <1>2, <1>7 DEF Proven
    <2>2. PICK i \in 1..(j - 1) :
             /\ StartOf(i, e.run)
             /\ CheckoutOf[wal[i].by] = CheckoutOf[s] /\ wal[i].task = e.task
      BY <2>1
    <2>3. PICK m \in first..Len(wal) : StartOf(m, e.run)
      BY <1>7 DEF Live
    <2>4. i = m
      <3>1. i \in 1..Len(wal) /\ m \in 1..Len(wal)
        BY <1>1
      <3> QED
        BY <2>2, <2>3, <3>1 DEF StartOf, IInv, LogOK
    <2>5. i \in first..(j - 1) /\ j \in first..Len(wal) /\ i \in first..Len(wal)
      BY <1>1, <2>4
    <2>6. j \in Completions(e.run, first, Len(wal))
      BY <2>1, <2>2, <2>5 DEF Completions, Live
    <2> QED
      BY <1>2, <1>7, <2>1, <2>2, <2>5, <2>6 DEF Applies, SameTask
  <1> QED
    BY <1>1, <1>4, <1>5, <1>6, <1>7 DEF Event

\* Append never turns a batch away: between deciding on an event and getting
\* the lock to write it, no other session can invalidate it.
THEOREM BatchesAccepted == Spec => []NoBatchRejected
  BY AcceptableBatch, InductiveInvariant, PTL

\* No session ever overwrites or drops a record another session wrote: the
\* log grows by one record at a time, and only a prefix is forgotten.
THEOREM LogOnlyAppended == Spec => OnlyAppended
  <1>1. IInv /\ [Next]_vars =>
          [/\ first' >= first
           /\ \/ wal' = wal
              \/ Len(wal') = Len(wal) + 1 /\ SubSeq(wal', 1, Len(wal)) = wal]_vars
    <2> SUFFICES ASSUME IInv, [Next]_vars
                 PROVE  /\ first' >= first
                        /\ \/ wal' = wal
                           \/ Len(wal') = Len(wal) + 1 /\ SubSeq(wal', 1, Len(wal)) = wal
      OBVIOUS
    <2>1. first \in Nat /\ wal \in Seq(Event)
      BY DEF IInv, TypeOK
    <2>2. (wal' = wal /\ first' >= first) \/ \E s \in Session : WriteNext(s)
      BY LogMoves DEF IInv
    <2>3. ASSUME NEW s \in Session, WriteNext(s)
          PROVE  /\ first' = first
                 /\ Len(wal') = Len(wal) + 1 /\ SubSeq(wal', 1, Len(wal)) = wal
      <3>1. first' = first
        BY <2>3 DEF WriteNext
      <3>2. /\ wal' \in Seq(Event) /\ Len(wal') = Len(wal) + 1
            /\ \A i \in 1..Len(wal) : wal'[i] = wal[i]
        BY <2>3, WriteNextAppends DEF IInv
      <3>3. SubSeq(wal', 1, Len(wal)) = wal
        BY <2>1, <3>2
      <3> QED
        BY <3>1, <3>2, <3>3
    <2> QED
      BY <2>1, <2>2, <2>3
  <1> QED
    BY <1>1, InductiveInvariant, PTL DEF Spec, OnlyAppended

-----------------------------------------------------------------------------
(* What the store promises.                                                *)

\* A Run is completed at one place at most, and only behind its one start.
LEMMA OneStart ==
    ASSUME IInv, NEW r, NEW i \in 1..Len(wal), NEW j \in 1..Len(wal), StartOf(i, r), StartOf(j, r)
    PROVE  i = j
  <1>1. i \in Nat /\ j \in Nat
    BY DEF IInv, TypeOK
  <1>2. ~(i < j) /\ ~(j < i)
    BY <1>1 DEF StartOf, IInv, LogOK
  <1> QED
    BY <1>1, <1>2

\* A Run is completed at one place at most.
LEMMA OneCompletion ==
    ASSUME IInv, NEW r, NEW i \in 1..Len(wal), NEW j \in 1..Len(wal),
           wal[i].type = "finished", wal[i].run = r, wal[j].type = "finished", wal[j].run = r
    PROVE  i = j
  <1>1. i \in Nat /\ j \in Nat
    BY DEF IInv, TypeOK
  <1>2. ~(i < j) /\ ~(j < i)
    BY <1>1 DEF IInv, LogOK
  <1> QED
    BY <1>1, <1>2

\* What a reader of the retained log sees of a Run.
LEMMA SeenOutcome ==
    ASSUME IInv, NEW r, NEW j \in CompletedAt(r)
    PROVE  /\ CompletedAt(r) = {j} /\ LedgerRank(r) = j /\ j \in 1..Len(wal)
           /\ LedgerOutcome(r) = [status |-> wal[j].status, consistent |-> wal[j].consistent]
  <1>1. \A k \in CompletedAt(r) : k \in 1..Len(wal) /\ wal[k].type = "finished" /\ wal[k].run = r
    BY DEF CompletedAt, Completions, IInv, TypeOK
  <1>2. \A k \in CompletedAt(r) : k = j
    BY <1>1, OneCompletion
  <1>3. CompletedAt(r) = {j}
    BY <1>2
  <1>4. (CHOOSE k \in CompletedAt(r) : TRUE) = j
    BY <1>3
  <1> QED
    BY <1>1, <1>3, <1>4 DEF LedgerRank, LedgerOutcome

\* A Run without a retained completion has neither rank nor outcome.
LEMMA SeenNothing ==
    ASSUME NEW r, CompletedAt(r) = {}
    PROVE  LedgerRank(r) = 0 /\ LedgerOutcome(r) = NoOutcome
  BY DEF LedgerRank, LedgerOutcome

\* How the life of a Run is read off the log.
LedgerView(r) ==
    /\ LedgerPhase(r) = IF ~HasStart(r) THEN "new" ELSE IF ~Retained(r) THEN "expired"
                        ELSE IF CompletedAt(r) = {} THEN "started" ELSE "finished"
    /\ Retained(r) => HasStart(r)
    /\ CompletedAt(r) # {} => Retained(r)
    /\ CompletedAt(r) = {} => LedgerRank(r) = 0 /\ LedgerOutcome(r) = NoOutcome
    /\ \A j \in CompletedAt(r) :
         /\ CompletedAt(r) = {j} /\ LedgerRank(r) = j /\ j \in 1..Len(wal)
         /\ LedgerOutcome(r) = [status |-> wal[j].status, consistent |-> wal[j].consistent]

\* The refinement mapping, computed from what the log has of a Run.
LEMMA ViewOfLog == IInv => \A r : LedgerView(r)
  <1> SUFFICES ASSUME IInv, NEW r PROVE LedgerView(r)
    OBVIOUS
  <1>1. first \in Nat /\ 1 <= first /\ Len(wal) \in Nat
    BY DEF IInv, TypeOK
  <1>2. Retained(r) => HasStart(r)
    BY <1>1 DEF Retained, Live, HasStart
  <1>3. CompletedAt(r) # {} => Retained(r)
    <2> SUFFICES ASSUME NEW j \in CompletedAt(r) PROVE Retained(r)
      OBVIOUS
    <2>1. j \in first..Len(wal) /\ Live(r, first, j - 1)
      BY DEF CompletedAt, Completions
    <2>2. PICK i \in first..(j - 1) : StartOf(i, r)
      BY <2>1 DEF Live
    <2>3. i \in first..Len(wal)
      BY <1>1, <2>1
    <2> QED
      BY <2>2, <2>3 DEF Retained, Live
  <1>4. Live(r, 1, Len(wal)) <=> HasStart(r)
    BY DEF Live, HasStart
  <1>5. LedgerPhase(r) = IF ~HasStart(r) THEN "new" ELSE IF ~Retained(r) THEN "expired"
                         ELSE IF CompletedAt(r) = {} THEN "started" ELSE "finished"
    <2> DEFINE H == HasStart(r)  R == Retained(r)  C == CompletedAt(r) = {}
    <2>1. LedgerPhase(r) = CASE ~H -> "new" [] ~R /\ H -> "expired" [] R /\ C -> "started"
                             [] OTHER -> "finished"
      BY <1>4, Zenon DEF LedgerPhase
    <2>2. R => H
      BY <1>2
    <2>3. H \in BOOLEAN /\ R \in BOOLEAN /\ C \in BOOLEAN
      BY DEF HasStart, Retained, Live
    <2> HIDE DEF H, R, C
    <2>4. ~H => LedgerPhase(r) = "new"
      BY <2>1, <2>2, <2>3
    <2>5. H /\ ~R => LedgerPhase(r) = "expired"
      BY <2>1, <2>2, <2>3
    <2>6. R /\ C => LedgerPhase(r) = "started"
      BY <2>1, <2>2, <2>3
    <2>7. R /\ ~C => LedgerPhase(r) = "finished"
      BY <2>1, <2>2, <2>3
    <2> QED
      BY <2>2, <2>4, <2>5, <2>6, <2>7 DEF H, R, C
  <1>6. CompletedAt(r) = {} => LedgerRank(r) = 0 /\ LedgerOutcome(r) = NoOutcome
    BY SeenNothing
  <1>7. \A j \in CompletedAt(r) :
          /\ CompletedAt(r) = {j} /\ LedgerRank(r) = j /\ j \in 1..Len(wal)
          /\ LedgerOutcome(r) = [status |-> wal[j].status, consistent |-> wal[j].consistent]
    BY SeenOutcome
  <1> QED
    BY <1>2, <1>3, <1>5, <1>6, <1>7 DEF LedgerView

\* The same of the state a step leads to.
LEMMA ViewAfterwards == IInv' => (\A r : LedgerView(r))'
  BY ViewOfLog, PTL

\* Retention forgets whole Runs: what a Run keeps of its start it keeps of its
\* completion.
LEMMA ForgetsRuns ==
    ASSUME IInv, IInv', wal' = wal, first' >= first, NEW r
    PROVE  /\ HasStart(r)' <=> HasStart(r)
           /\ Retained(r)' => Retained(r) /\ CompletedAt(r)' = CompletedAt(r)
  <1>1. /\ first \in Nat /\ 1 <= first /\ Len(wal) \in Nat /\ first' \in Nat
        /\ wal' = wal
    BY DEF IInv, TypeOK
  <1>2. HasStart(r)' <=> HasStart(r)
    BY LogKept
  <1>3. ASSUME Retained(r)' PROVE Retained(r) /\ CompletedAt(r)' = CompletedAt(r)
    <2>1. PICK i \in first'..Len(wal) : StartOf(i, r)
      BY <1>1, <1>3 DEF Retained, Live, StartOf
    <2>2. i \in first..Len(wal) /\ i \in 1..Len(wal)
      BY <1>1
    <2>3. Retained(r)
      BY <2>1, <2>2 DEF Retained, Live
    <2>4. ASSUME NEW j \in CompletedAt(r) PROVE j \in CompletedAt(r)'
      <3>1. j \in first..Len(wal) /\ wal[j].type = "finished" /\ wal[j].run = r
            /\ Live(r, first, j - 1)
        BY DEF CompletedAt, Completions
      <3>2. PICK k \in first..(j - 1) : StartOf(k, r)
        BY <3>1 DEF Live
      <3>3. k \in 1..Len(wal)
        BY <1>1, <3>1
      <3>4. k = i
        BY <2>1, <2>2, <3>2, <3>3, OneStart
      <3>5. i \in first'..(j - 1) /\ j \in first'..Len(wal)
        BY <1>1, <3>1, <3>4
      <3> QED
        BY <1>1, <2>1, <3>1, <3>5 DEF CompletedAt, Completions, Live, StartOf
    <2>5. ASSUME NEW j \in CompletedAt(r)' PROVE j \in CompletedAt(r)
      <3>1. j \in first'..Len(wal) /\ wal[j].type = "finished" /\ wal[j].run = r
            /\ \E k \in first'..(j - 1) : StartOf(k, r)
        BY <1>1 DEF CompletedAt, Completions, Live, StartOf
      <3>2. j \in first..Len(wal) /\ \E k \in first..(j - 1) : StartOf(k, r)
        BY <1>1, <3>1
      <3> QED
        BY <3>1, <3>2 DEF CompletedAt, Completions, Live
    <2> QED
      BY <2>3, <2>4, <2>5
  <1> QED
    BY <1>2, <1>3

\* Where the log keeps its records, Runs expire or nothing happens.
LEMMA ForgettingExpires ==
    ASSUME IInv, IInv', wal' = wal, first' >= first
    PROVE  [Ledger!LedgerNext]_(Ledger!ledgerVars)
  <1> DEFINE gone == {r \in Run : Retained(r) /\ ~Retained(r)'}
  <1>1. \A r : LedgerView(r) /\ LedgerView(r)'
    BY ViewOfLog, ViewAfterwards
  <1>2. \A r : HasStart(r)' <=> HasStart(r)
    BY ForgetsRuns
  <1>3. \A r : Retained(r)' => Retained(r) /\ CompletedAt(r)' = CompletedAt(r)
    BY ForgetsRuns
  <1>4. ASSUME NEW r \in gone
        PROVE  /\ LedgerPhase(r) \in {"started", "finished"} /\ LedgerPhase(r)' = "expired"
               /\ LedgerOutcome(r)' = NoOutcome /\ LedgerRank(r)' = 0
    BY <1>1, <1>2 DEF LedgerView, NoOutcome
  <1>5. ASSUME NEW r \in Run \ gone
        PROVE  /\ LedgerPhase(r)' = LedgerPhase(r) /\ LedgerOutcome(r)' = LedgerOutcome(r)
               /\ LedgerRank(r)' = LedgerRank(r)
               /\ ~(LedgerPhase(r) # "expired" /\ LedgerPhase(r)' = "expired")
    <2>1. CASE Retained(r)'
      <3>1. CASE CompletedAt(r) = {}
        BY <1>1, <1>2, <1>3, <2>1, <3>1 DEF LedgerView, NoOutcome
      <3>2. ASSUME NEW j \in CompletedAt(r) 
            PROVE  /\ LedgerOutcome(r)' = LedgerOutcome(r) /\ LedgerRank(r)' = LedgerRank(r)
        BY <1>1, <1>3, <2>1, <3>2 DEF LedgerView
      <3>3. CASE CompletedAt(r) # {}
        <4>1. LedgerPhase(r)' = LedgerPhase(r) /\ LedgerPhase(r) = "finished"
          BY <1>1, <1>2, <1>3, <2>1, <3>3 DEF LedgerView
        <4> QED
          BY <3>2, <3>3, <4>1
      <3> QED
        BY <3>1, <3>3
    <2>2. CASE ~Retained(r)' /\ ~Retained(r)
      BY <1>1, <1>2, <2>2 DEF LedgerView, NoOutcome
    <2> QED
      BY <2>1, <2>2
  <1> QED
    <2>1. CASE gone = {}
      <3>1. UNCHANGED Ledger!ledgerVars
        BY <1>5, <2>1 DEF Ledger!ledgerVars
      <3> QED
        BY <3>1
    <2>2. CASE gone # {}
      <3>1. Ledger!Forgotten = gone
        BY <1>4, <1>5 DEF Ledger!Forgotten
      <3>2. Ledger!Expire(gone)
        BY <1>4, <1>5, <2>2 DEF Ledger!Expire
      <3> QED
        BY <3>1, <3>2 DEF Ledger!LedgerNext
    <2> QED
      BY <2>1, <2>2

\* What a record behind the log changes in what is seen of a Run.
LEMMA RecordSeen ==
    ASSUME IInv, IInv', NEW e \in Event, Len(wal') = Len(wal) + 1, wal'[Len(wal) + 1] = e,
           \A i \in 1..Len(wal) : wal'[i] = wal[i], first' = first, NEW r
    PROVE  /\ HasStart(r)' <=> HasStart(r) \/ (e.type = "started" /\ e.run = r)
           /\ Retained(r)' <=> Retained(r) \/ (e.type = "started" /\ e.run = r)
           /\ CompletedAt(r)' = CompletedAt(r) \cup
                (IF e.type = "finished" /\ e.run = r /\ Retained(r) THEN {Len(wal) + 1} ELSE {})
  <1>1. /\ first \in Nat /\ 1 <= first /\ first <= Len(wal) + 1 /\ Len(wal) \in Nat
        /\ wal \in Seq(Event) /\ wal' \in Seq(Event)
    <2>1. wal \in Seq(Event) /\ first \in 1..(Len(wal) + 1)
      BY DEF IInv, TypeOK
    <2>2. wal' \in Seq(Event)
      BY DEF IInv, TypeOK
    <2> QED
      BY <2>1, <2>2
  <1>2. HasStart(r)' <=> HasStart(r) \/ (e.type = "started" /\ e.run = r)
    BY <1>1, LogGrows
  <1>3. \A i \in first..Len(wal') : i \in first..Len(wal) \/ i = Len(wal) + 1
    BY <1>1
  <1>4. \A i \in first..Len(wal) : wal'[i] = wal[i] /\ i \in first..Len(wal')
    BY <1>1
  <1>5. Len(wal) + 1 \in first..Len(wal')
    BY <1>1
  <1>6. Retained(r)' <=> Retained(r) \/ (e.type = "started" /\ e.run = r)
    BY <1>3, <1>4, <1>5 DEF Retained, Live, StartOf
  <1>7. \A j \in first..(Len(wal) + 1) : Live(r, first, j - 1)' <=> Live(r, first, j - 1)
    <2> SUFFICES ASSUME NEW j \in first..(Len(wal) + 1)
                 PROVE  Live(r, first, j - 1)' <=> Live(r, first, j - 1)
      OBVIOUS
    <2>1. \A i \in first..(j - 1) : wal'[i] = wal[i]
      BY <1>1
    <2> QED
      BY <2>1 DEF Live, StartOf
  <1>8. Live(r, first, (Len(wal) + 1) - 1) <=> Retained(r)
    BY <1>1 DEF Retained
  <1>9. CompletedAt(r)' = {j \in first..(Len(wal) + 1) :
            wal'[j].type = "finished" /\ wal'[j].run = r /\ Live(r, first, j - 1)}
    BY <1>7 DEF CompletedAt, Completions
  <1>10. CompletedAt(r) = {j \in first..Len(wal) :
            wal[j].type = "finished" /\ wal[j].run = r /\ Live(r, first, j - 1)}
    BY DEF CompletedAt, Completions
  <1>11. CompletedAt(r)' = CompletedAt(r) \cup
                (IF e.type = "finished" /\ e.run = r /\ Retained(r) THEN {Len(wal) + 1} ELSE {})
    <2> HIDE DEF Live
    <2>1. \A j \in first..(Len(wal) + 1) : j \in first..Len(wal) \/ j = Len(wal) + 1
      BY <1>1
    <2> QED
      BY <1>1, <1>4, <1>5, <1>8, <1>9, <1>10, <2>1
  <1> QED
    BY <1>2, <1>6, <1>11

\* Only the Run of the record changes.
LEMMA OthersUnseen ==
    ASSUME IInv, IInv', NEW r, wal \in Seq(Event), wal' \in Seq(Event),
           \A i \in 1..Len(wal) : wal'[i] = wal[i],
           HasStart(r)' <=> HasStart(r), Retained(r)' <=> Retained(r),
           CompletedAt(r)' = CompletedAt(r)
    PROVE  /\ LedgerPhase(r)' = LedgerPhase(r) /\ LedgerOutcome(r)' = LedgerOutcome(r)
           /\ LedgerRank(r)' = LedgerRank(r)
  <1>1. LedgerView(r) /\ LedgerView(r)'
    BY ViewOfLog, ViewAfterwards
  <1>2. CASE CompletedAt(r) = {}
    BY <1>1, <1>2 DEF LedgerView, NoOutcome
  <1>3. CASE CompletedAt(r) # {}
    <2>1. PICK j \in CompletedAt(r) : TRUE
      BY <1>3
    <2> QED
      BY <1>1, <1>3, <2>1 DEF LedgerView
  <1> QED
    BY <1>2, <1>3

\* Where a record is added, its Run starts, finishes or stays as it is.
LEMMA RecordingAdvances ==
    ASSUME IInv, IInv', NEW s \in Session, WriteNext(s)
    PROVE  [Ledger!LedgerNext]_(Ledger!ledgerVars)
  <1>1. PICK e \in batch[s] :
           /\ e \in Event
           /\ wal' \in Seq(Event) /\ Len(wal') = Len(wal) + 1
           /\ wal'[Len(wal) + 1] = e /\ \A i \in 1..Len(wal) : wal'[i] = wal[i]
    BY WriteNextAppends DEF IInv
  <1>2. first' = first /\ wal \in Seq(Event) /\ Len(wal) \in Nat
    BY DEF WriteNext, IInv, TypeOK
  <1>3. \A r :
           /\ HasStart(r)' <=> HasStart(r) \/ (e.type = "started" /\ e.run = r)
           /\ Retained(r)' <=> Retained(r) \/ (e.type = "started" /\ e.run = r)
           /\ CompletedAt(r)' = CompletedAt(r) \cup
                (IF e.type = "finished" /\ e.run = r /\ Retained(r) THEN {Len(wal) + 1} ELSE {})
    BY <1>1, <1>2, RecordSeen
  <1>4. \A r : LedgerView(r) /\ LedgerView(r)'
    BY ViewOfLog, ViewAfterwards
  <1>5. /\ e.type = "started" => ~HasStart(e.run) /\ CompletedAt(e.run) = {}
        /\ e.type = "finished" => CompletedAt(e.run) = {}
    <2>1. /\ e.type = "started" => ~HasStart(e.run)
          /\ e.type = "finished" => ~HasCompletion(e.run)
      BY DEF IInv, BatchOK
    <2>2. CompletedAt(e.run) # {} => HasStart(e.run) /\ HasCompletion(e.run)
      <3>1. CompletedAt(e.run) # {} => HasStart(e.run)
        BY <1>4 DEF LedgerView
      <3>2. first \in 1..(Len(wal) + 1)
        BY DEF IInv, TypeOK
      <3>3. ASSUME NEW j \in CompletedAt(e.run) PROVE HasCompletion(e.run)
        BY <1>2, <3>2, <3>3 DEF CompletedAt, Completions, HasCompletion
      <3> QED
        BY <3>1, <3>3
    <2> QED
      BY <2>1, <2>2
  <1>6. ASSUME NEW r, r # e.run \/ e.type = "reused" \/ (e.type = "finished" /\ ~Retained(r))
        PROVE  /\ LedgerPhase(r)' = LedgerPhase(r) /\ LedgerOutcome(r)' = LedgerOutcome(r)
               /\ LedgerRank(r)' = LedgerRank(r)
    <2>1. /\ HasStart(r)' <=> HasStart(r)
          /\ Retained(r)' <=> Retained(r)
          /\ CompletedAt(r)' = CompletedAt(r)
      BY <1>3, <1>6
    <2> QED
      BY <1>1, <1>2, <2>1, OthersUnseen
  <1>7. e.run \in Run
    BY <1>1 DEF Event
  <1>8. CASE e.type = "started"
    <2>1. /\ LedgerPhase(e.run) = "new" /\ LedgerPhase(e.run)' = "started"
          /\ LedgerOutcome(e.run)' = LedgerOutcome(e.run) /\ LedgerRank(e.run)' = LedgerRank(e.run)
      BY <1>3, <1>4, <1>5, <1>8 DEF LedgerView, NoOutcome
    <2>2. Ledger!Start(e.run)
      BY <1>6, <1>7, <2>1 DEF Ledger!Start
    <2> QED
      BY <1>7, <2>2 DEF Ledger!LedgerNext
  <1>9. CASE e.type = "finished" /\ Retained(e.run)
    <2>1. CompletedAt(e.run) = {} /\ CompletedAt(e.run)' = {Len(wal) + 1}
      BY <1>3, <1>5, <1>9
    <2>2. /\ LedgerPhase(e.run) = "started" /\ LedgerPhase(e.run)' = "finished"
          /\ LedgerRank(e.run)' = Len(wal) + 1
          /\ LedgerOutcome(e.run)' = [status |-> e.status, consistent |-> e.consistent]
      BY <1>1, <1>3, <1>4, <1>9, <2>1 DEF LedgerView
    <2>3. LedgerOutcome(e.run)' \in Outcome
      BY <1>1, <2>2 DEF Outcome, Event
    <2>4. ASSUME NEW q \in Run PROVE LedgerRank(q) < Len(wal) + 1
      BY <1>2, <1>4 DEF LedgerView
    <2>5. Ledger!Finish(e.run)
      BY <1>6, <1>7, <2>2, <2>3, <2>4 DEF Ledger!Finish
    <2> QED
      BY <1>7, <2>5 DEF Ledger!LedgerNext
  <1>10. CASE e.type = "reused" \/ (e.type = "finished" /\ ~Retained(e.run))
    <2>1. UNCHANGED Ledger!ledgerVars
      BY <1>6, <1>10 DEF Ledger!ledgerVars
    <2> QED
      BY <2>1
  <1> QED
    BY <1>1, <1>8, <1>9, <1>10 DEF Event

\* The sessions, locks, replays, truncations and crashes implement the simple
\* life of a Run that RunLedger.tla promises (record.go, apply; retention.go).
THEOREM ImplementsRunLedger == Spec => ImplementsLedger
  <1>1. ASSUME Init PROVE Ledger!LedgerInit
    <2>1. wal = <<>> /\ first = 1 /\ Len(wal) = 0
      BY <1>1 DEF Init
    <2>2. ASSUME NEW r PROVE /\ LedgerPhase(r) = "new" /\ LedgerOutcome(r) = NoOutcome
                             /\ LedgerRank(r) = 0
      <3>1. IInv
        BY <1>1, InitType, InitLock, InitLog DEF IInv
      <3>2. ~HasStart(r)
        BY <2>1 DEF HasStart
      <3>3. CompletedAt(r) = {}
        BY <2>1 DEF CompletedAt, Completions
      <3> QED
        BY <3>1, <3>2, <3>3, ViewOfLog DEF LedgerView
    <2> QED
      BY <2>2 DEF Ledger!LedgerInit
  <1>2. IInv /\ IInv' /\ [Next]_vars => [Ledger!LedgerNext]_(Ledger!ledgerVars)
    <2> SUFFICES ASSUME IInv, IInv', [Next]_vars
                 PROVE  [Ledger!LedgerNext]_(Ledger!ledgerVars)
      OBVIOUS
    <2>1. (wal' = wal /\ first' >= first) \/ \E s \in Session : WriteNext(s)
      BY LogMoves DEF IInv
    <2> QED
      BY <2>1, ForgettingExpires, RecordingAdvances
  <1> QED
    BY <1>1, <1>2, InductiveInvariant, PTL DEF Spec, ImplementsLedger, Ledger!LedgerSpec

-----------------------------------------------------------------------------
(* What a round records, and the evidence it leaves.                       *)

\* The completion of a check, as its session saw it, is in the log, or in the
\* session's batch.
Stored(s, t) ==
    \E j \in 1..Len(wal) : \E i \in 1..(j - 1) :
        /\ StartOf(i, <<s, t>>) /\ wal[j].type = "finished" /\ wal[j].run = <<s, t>>
        /\ wal[j].status = status[s][t] /\ wal[j].consistent = consistent[s]
Pending(s, t) ==
    \E e \in batch[s] :
        /\ e.type = "finished" /\ e.run = <<s, t>>
        /\ e.status = status[s][t] /\ e.consistent = consistent[s]
StartPending(s, t) == \E e \in batch[s] : e.type = "started" /\ e.run = <<s, t>>

\* While its history works, nothing a round has executed is missing from both
\* its batch and the log, unless retention has taken the start away.
RecordOf(s) ==
    /\ pc[s] = "record" \/ batch[s] # {} => healthy[s]
    /\ (lock = s /\ pc[s] = "record") \/ (pc[s] \in {"read", "done"} /\ healthy[s])
          => Unrecorded(s) = {}
    /\ \A t \in Task :
         /\ status[s][t] # "none" =>
              \/ check[s][t] = "exited"
              \/ check[s][t] = "recorded" /\ pc[s] \in {"record", "read", "done", "crashed"}
         /\ (healthy[s] /\ pc[s] # "crashed") =>
              /\ check[s][t] = "logging" => HasStart(<<s, t>>) \/ StartPending(s, t)
              /\ check[s][t] \in {"running", "exited"} => HasStart(<<s, t>>)
              /\ (check[s][t] = "recorded" /\ status[s][t] # "none") =>
                   /\ HasStart(<<s, t>>)
                   /\ Stored(s, t) \/ Pending(s, t) \/ ~Retained(<<s, t>>)

RecordOK == \A s \in Session : RecordOf(s)

\* What the log holds of a Run it keeps, or forgets for good.
LEMMA LogKeepsRuns ==
    ASSUME IInv, IInv', [Next]_vars, NEW r
    PROVE  /\ HasStart(r) => HasStart(r)'
           /\ HasStart(r) /\ ~Retained(r) => ~Retained(r)'
  <1>1. CASE wal' = wal /\ first' >= first
    BY <1>1, ForgetsRuns
  <1>2. ASSUME NEW s \in Session, WriteNext(s)
        PROVE  /\ HasStart(r) => HasStart(r)'
               /\ HasStart(r) /\ ~Retained(r) => ~Retained(r)'
    <2>1. PICK e \in batch[s] :
             /\ e \in Event
             /\ wal' \in Seq(Event) /\ Len(wal') = Len(wal) + 1
             /\ wal'[Len(wal) + 1] = e /\ \A i \in 1..Len(wal) : wal'[i] = wal[i]
      BY <1>2, WriteNextAppends DEF IInv
    <2>2. first' = first
      BY <1>2 DEF WriteNext
    <2>3. e.type = "started" => ~HasStart(e.run)
      BY DEF IInv, BatchOK
    <2>4. /\ HasStart(r)' <=> HasStart(r) \/ (e.type = "started" /\ e.run = r)
          /\ Retained(r)' <=> Retained(r) \/ (e.type = "started" /\ e.run = r)
      BY <2>1, <2>2, RecordSeen
    <2> QED
      BY <2>3, <2>4
  <1> QED
    BY <1>1, <1>2, LogMoves DEF IInv

\* So what it has stored of a check stays stored.
LEMMA LogKeepsStored ==
    ASSUME IInv, IInv', [Next]_vars, NEW s \in Session, NEW t \in Task, Stored(s, t),
           status'[s][t] = status[s][t], consistent'[s] = consistent[s]
    PROVE  Stored(s, t)'
  <1>1. Len(wal) \in Nat /\ Len(wal') \in Nat
    <2>1. wal \in Seq(Event)
      BY DEF IInv, TypeOK
    <2>2. wal' \in Seq(Event)
      BY DEF IInv, TypeOK
    <2> QED
      BY <2>1, <2>2
  <1>2. Len(wal) <= Len(wal') /\ \A i \in 1..Len(wal) : wal'[i] = wal[i]
    <2>1. CASE wal' = wal
      BY <1>1, <2>1
    <2>2. ASSUME NEW u \in Session, WriteNext(u)
          PROVE  Len(wal) <= Len(wal') /\ \A i \in 1..Len(wal) : wal'[i] = wal[i]
      BY <1>1, <2>2, WriteNextAppends DEF IInv
    <2> QED
      BY <2>1, <2>2, LogMoves DEF IInv
  <1>3. PICK j \in 1..Len(wal) : \E i \in 1..(j - 1) :
           /\ StartOf(i, <<s, t>>) /\ wal[j].type = "finished" /\ wal[j].run = <<s, t>>
           /\ wal[j].status = status[s][t] /\ wal[j].consistent = consistent[s]
    BY DEF Stored
  <1>4. PICK i \in 1..(j - 1) : StartOf(i, <<s, t>>)
    BY <1>3
  <1>5. /\ j \in 1..Len(wal') /\ wal'[j] = wal[j] /\ wal'[i] = wal[i]
    BY <1>1, <1>2
  <1> QED
    BY <1>3, <1>4, <1>5 DEF Stored, StartOf

\* A step that leaves a session's round alone leaves what it records alone.
LEMMA RecordUntouched ==
    ASSUME IInv, IInv', [Next]_vars, NEW u \in Session, RecordOf(u),
           pc'[u] = pc[u], check'[u] = check[u], status'[u] = status[u],
           consistent'[u] = consistent[u], batch'[u] = batch[u], healthy'[u] = healthy[u],
           lock' = u => lock = u
    PROVE  RecordOf(u)'
  <1>1. \A t \in Task : HasStart(<<u, t>>) => HasStart(<<u, t>>)'
    BY LogKeepsRuns
  <1>2. \A t \in Task : HasStart(<<u, t>>) /\ ~Retained(<<u, t>>) => ~Retained(<<u, t>>)'
    BY LogKeepsRuns
  <1>3. \A t \in Task : Stored(u, t) => Stored(u, t)'
    BY LogKeepsStored
  <1>4. \A t \in Task : (StartPending(u, t) => StartPending(u, t)')
                          /\ (Pending(u, t) => Pending(u, t)')
    BY DEF StartPending, Pending
  <1>5. Unrecorded(u)' = Unrecorded(u)
    BY DEF Unrecorded
  <1> QED
    BY <1>1, <1>2, <1>3, <1>4, <1>5 DEF RecordOf

\* Everything of a round of its own session: the step of another leaves it alone.
Mine(u) ==
    /\ pc'[u] = pc[u] /\ check'[u] = check[u] /\ status'[u] = status[u]
    /\ consistent'[u] = consistent[u] /\ batch'[u] = batch[u] /\ healthy'[u] = healthy[u]
    /\ lock' = u => lock = u

\* A step or crash of one session leaves the rounds of the others alone.
LEMMA RoundsApart ==
    ASSUME TypeOK, NEW s \in Session, NEW u \in Session \ {s}, Step(s) \/ Crash(s)
    PROVE  Mine(u)
  <1>t. /\ pc \in [Session -> Place] /\ check \in [Session -> [Task -> CheckState]]
        /\ batch \in [Session -> SUBSET Event] /\ healthy \in [Session -> BOOLEAN]
        /\ status \in [Session -> [Task -> Status \cup {"none"}]]
        /\ consistent \in [Session -> BOOLEAN]
    BY DEF TypeOK
  <1>1. ASSUME Crash(s) PROVE Mine(u)
    BY <1>1, <1>t, SessionAssumption DEF Crash, Mine, logVars, fileVars, roundVars, Released
  <1>2. ASSUME Maintain(s) PROVE Mine(u)
    BY <1>2, <1>t, SessionAssumption DEF Maintain, Mine, logVars, fileVars, roundVars, Released
  <1>3. ASSUME MaintainDone(s) PROVE Mine(u)
    BY <1>3, <1>t, SessionAssumption DEF MaintainDone, Mine, logVars, fileVars, roundVars, Released
  <1>4. ASSUME SaveInputs(s) PROVE Mine(u)
    BY <1>4, <1>t, SessionAssumption DEF SaveInputs, Mine, logVars, fileVars, roundVars, Released
  <1>5. ASSUME NothingToRecord(s) PROVE Mine(u)
    BY <1>5, <1>t, SessionAssumption DEF NothingToRecord, Mine, logVars, fileVars, roundVars, Released
  <1>6. ASSUME OpenLog(s) PROVE Mine(u)
    BY <1>6, <1>t, SessionAssumption DEF OpenLog, Mine, logVars, fileVars, roundVars, Released
  <1>7. ASSUME WriteNext(s) PROVE Mine(u)
    BY <1>7, <1>t, SessionAssumption DEF WriteNext, Mine, logVars, fileVars, roundVars, Released
  <1>8. ASSUME CloseLog(s) PROVE Mine(u)
    BY <1>8, <1>t, SessionAssumption DEF CloseLog, Mine, logVars, fileVars, roundVars, Released
  <1>9. ASSUME ReadBack(s) PROVE Mine(u)
    BY <1>9, <1>t, SessionAssumption DEF ReadBack, Mine, logVars, fileVars, roundVars, Released
  <1>10. ASSUME Fail(s) PROVE Mine(u)
    BY <1>10, <1>t, SessionAssumption DEF Fail, Mine, logVars, fileVars, roundVars, Released
  <1>11. ASSUME NEW x \in Session, CollectInputs(s, x) PROVE Mine(u)
    BY <1>11, <1>t, SessionAssumption DEF CollectInputs, Mine, logVars, fileVars, roundVars, Released
  <1>12. ASSUME NEW r \in Run, CollectOutputs(s, r) PROVE Mine(u)
    BY <1>12, <1>t, SessionAssumption DEF CollectOutputs, Mine, logVars, fileVars, roundVars, Released
  <1>13. ASSUME NEW same \in BOOLEAN, Capture(s, same) PROVE Mine(u)
    BY <1>13, <1>t, SessionAssumption DEF Capture, Mine, logVars, fileVars, roundVars, Released
  <1>14. ASSUME NEW t \in Task, Launch(s, t) PROVE Mine(u)
    BY <1>14, <1>t, SessionAssumption DEF Launch, Mine, logVars, fileVars, roundVars, Released
  <1>15. ASSUME NEW t \in Task, Collect(s, t) PROVE Mine(u)
    BY <1>15, <1>t, SessionAssumption DEF Collect, Mine, logVars, fileVars, roundVars, Released
  <1>16. ASSUME NEW t \in Task, NEW st \in Status, Exit(s, t, st) PROVE Mine(u)
    BY <1>16, <1>t, SessionAssumption DEF Exit, Mine, logVars, fileVars, roundVars, Released
  <1>17. ASSUME NEW t \in Task, NEW r \in Run, Reuse(s, t, r) PROVE Mine(u)
    BY <1>17, <1>t, SessionAssumption DEF Reuse, Mine, logVars, fileVars, roundVars, Released
  <1>18. ASSUME NEW t \in Task, NEW r \in Run, EvidenceMissing(s, t, r) PROVE Mine(u)
    BY <1>18, <1>t, SessionAssumption DEF EvidenceMissing, Mine, logVars, fileVars, roundVars, Released
  <1> QED
    BY <1>1, <1>2, <1>3, <1>4, <1>5, <1>6, <1>7, <1>8, <1>9, <1>10, <1>11, <1>12, <1>13, <1>14, <1>15, <1>16, <1>17, <1>18 DEF Step

\* Each step of a round, and what it has recorded then.
LEMMA RoundRecords ==
    ASSUME IInv, IInv', [Next]_vars, NEW s \in Session, RecordOf(s), Step(s) \/ Crash(s)
    PROVE  RecordOf(s)'
  <1>t. /\ pc \in [Session -> Place] /\ check \in [Session -> [Task -> CheckState]]
        /\ batch \in [Session -> SUBSET Event] /\ healthy \in [Session -> BOOLEAN]
        /\ status \in [Session -> [Task -> Status \cup {"none"}]]
        /\ consistent \in [Session -> BOOLEAN] /\ wal \in Seq(Event)
    BY DEF IInv, TypeOK
  <1>k. /\ \A t \in Task : HasStart(<<s, t>>) => HasStart(<<s, t>>)'
        /\ \A t \in Task : HasStart(<<s, t>>) /\ ~Retained(<<s, t>>) => ~Retained(<<s, t>>)'
        /\ \A t \in Task : (Stored(s, t) /\ status'[s][t] = status[s][t]
                              /\ consistent'[s] = consistent[s]) => Stored(s, t)'
    BY LogKeepsRuns, LogKeepsStored
  <1>1. ASSUME Crash(s) PROVE RecordOf(s)'
    <2>1. pc'[s] = "crashed" /\ batch'[s] = {} /\ check'[s] = check[s] /\ status'[s] = status[s]
          /\ healthy'[s] = healthy[s]
      BY <1>1, <1>t DEF Crash, roundVars
    <2> QED
      BY <2>1 DEF RecordOf
  <1>2. ASSUME Maintain(s) PROVE RecordOf(s)'
    <2>1. /\ check'[s] = check[s] /\ status'[s] = status[s]
          /\ consistent'[s] = consistent[s] /\ batch'[s] = batch[s] /\ healthy'[s] = healthy[s]
          /\ pc'[s] = "collect" /\ pc[s] = "open"
      BY <1>2, <1>t DEF Maintain, roundVars, logVars
    <2> QED
      BY <2>1, <1>k DEF RecordOf, Unrecorded, StartPending, Pending
  <1>3. ASSUME MaintainDone(s) PROVE RecordOf(s)'
    <2>1. /\ check'[s] = check[s] /\ status'[s] = status[s]
          /\ consistent'[s] = consistent[s] /\ batch'[s] = batch[s] /\ healthy'[s] = healthy[s]
          /\ pc'[s] = "save" /\ pc[s] = "collect"
      BY <1>3, <1>t DEF MaintainDone, roundVars, logVars
    <2> QED
      BY <2>1, <1>k DEF RecordOf, Unrecorded, StartPending, Pending
  <1>4. ASSUME SaveInputs(s) PROVE RecordOf(s)'
    <2>1. /\ check'[s] = check[s] /\ status'[s] = status[s]
          /\ consistent'[s] = consistent[s] /\ batch'[s] = batch[s] /\ healthy'[s] = healthy[s]
          /\ pc'[s] = "run" /\ pc[s] = "save"
      BY <1>4, <1>t DEF SaveInputs, roundVars, logVars
    <2> QED
      BY <2>1, <1>k DEF RecordOf, Unrecorded, StartPending, Pending
  <1>5. ASSUME NothingToRecord(s) PROVE RecordOf(s)'
    <2>1. /\ check'[s] = check[s] /\ status'[s] = status[s]
          /\ consistent'[s] = consistent[s] /\ batch'[s] = batch[s] /\ healthy'[s] = healthy[s]
          /\ pc'[s] = "read" /\ pc[s] = "record" /\ Unrecorded(s) = {}
      BY <1>5, <1>t DEF NothingToRecord, roundVars, logVars
    <2> QED
      BY <2>1, <1>k DEF RecordOf, Unrecorded, StartPending, Pending
  <1>6. ASSUME OpenLog(s) PROVE RecordOf(s)'
    <2>1. /\ pc'[s] = pc[s] /\ check'[s] = check[s] /\ status'[s] = status[s]
          /\ consistent'[s] = consistent[s] /\ healthy'[s] = healthy[s]
          /\ batch'[s] = {e \in batch[s] : ~Orphan(e, first, Len(wal))}
          /\ batch[s] # {} /\ (pc[s] = "record" => Unrecorded(s) = {}) /\ pc[s] \in {"run", "record"}
          /\ UNCHANGED <<wal, first>>
      BY <1>6, <1>t DEF OpenLog, Appending, roundVars, logVars
    <2>2. Unrecorded(s)' = Unrecorded(s)
      BY <2>1 DEF Unrecorded
    <2>3. \A t \in Task : StartPending(s, t) => StartPending(s, t)'
      BY <2>1 DEF StartPending, Orphan
    <2>4. \A t \in Task : Pending(s, t) => Pending(s, t)' \/ ~Retained(<<s, t>>)
      BY <2>1 DEF Pending, Orphan, Retained
    <2>5. \A t \in Task : Retained(<<s, t>>)' = Retained(<<s, t>>)
      BY <2>1 DEF Retained, Live, StartOf
    <2> QED
      BY <2>1, <2>2, <2>3, <2>4, <2>5, <1>k DEF RecordOf
  <1>7. ASSUME WriteNext(s) PROVE RecordOf(s)'
    <2>1. PICK e \in batch[s] :
             /\ e \in Event
             /\ wal' \in Seq(Event) /\ Len(wal') = Len(wal) + 1
             /\ wal'[Len(wal) + 1] = e /\ \A i \in 1..Len(wal) : wal'[i] = wal[i]
             /\ batch' = [batch EXCEPT ![s] = @ \ {e}]
      BY <1>7, WriteNextAppends DEF IInv
    <2>2. /\ pc'[s] = pc[s] /\ check'[s] = check[s] /\ status'[s] = status[s]
          /\ consistent'[s] = consistent[s] /\ healthy'[s] = healthy[s] /\ lock' = lock
          /\ batch'[s] = batch[s] \ {e} /\ first' = first
      BY <1>7, <1>t, <2>1 DEF WriteNext, roundVars
    <2>3. \A r : HasStart(r)' <=> HasStart(r) \/ (e.type = "started" /\ e.run = r)
      BY <2>1, <2>2, RecordSeen
    <2>4. \A t \in Task : StartPending(s, t) => StartPending(s, t)' \/ HasStart(<<s, t>>)'
      BY <2>2, <2>3 DEF StartPending
    <2>5. ASSUME NEW t \in Task, HasStart(<<s, t>>), Pending(s, t)
          PROVE  Pending(s, t)' \/ Stored(s, t)'
      <3>1. PICK f \in batch[s] : /\ f.type = "finished" /\ f.run = <<s, t>>
                                 /\ f.status = status[s][t] /\ f.consistent = consistent[s]
        BY <2>5 DEF Pending
      <3>2. CASE f # e
        BY <2>2, <3>1, <3>2 DEF Pending
      <3>3. CASE f = e
        <4>1. PICK i \in 1..Len(wal) : StartOf(i, <<s, t>>)
          BY <2>5 DEF HasStart
        <4>2. Len(wal) \in Nat
          BY <1>t
        <4>3. /\ Len(wal) + 1 \in 1..Len(wal') /\ i \in 1..((Len(wal) + 1) - 1)
              /\ wal'[i] = wal[i]
          BY <2>1, <4>1, <4>2
        <4> QED
          BY <2>1, <2>2, <3>1, <3>3, <4>1, <4>3 DEF Stored, StartOf
      <3> QED
        BY <3>2, <3>3
    <2>6. Unrecorded(s)' = Unrecorded(s)
      BY <2>2 DEF Unrecorded
    <2> QED
      BY <2>2, <2>4, <2>5, <2>6, <1>k DEF RecordOf
  <1>8. ASSUME CloseLog(s) PROVE RecordOf(s)'
    <2>1. /\ lock = s /\ batch[s] = {} /\ pc[s] \in {"run", "record"}
          /\ pc'[s] = (IF pc[s] = "record" THEN "read" ELSE pc[s]) /\ batch'[s] = {}
          /\ status'[s] = status[s] /\ consistent'[s] = consistent[s] /\ healthy'[s] = healthy[s]
          /\ \A t \in Task : check'[s][t] = IF check[s][t] = "logging" THEN "running" ELSE check[s][t]
          /\ lock' # s
      BY <1>8, <1>t, SessionAssumption DEF CloseLog, Started, roundVars
    <2>2. \A t \in Task : ~StartPending(s, t) /\ ~Pending(s, t)
      BY <2>1 DEF StartPending, Pending
    <2>3. Unrecorded(s)' = Unrecorded(s)
      BY <2>1 DEF Unrecorded
    <2> QED
      BY <2>1, <2>2, <2>3, <1>k DEF RecordOf
  <1>9. ASSUME ReadBack(s) PROVE RecordOf(s)'
    <2>1. /\ check'[s] = check[s] /\ status'[s] = status[s]
          /\ consistent'[s] = consistent[s] /\ batch'[s] = batch[s] /\ healthy'[s] = healthy[s]
          /\ pc'[s] = "done" /\ pc[s] = "read"
      BY <1>9, <1>t DEF ReadBack, roundVars, logVars
    <2> QED
      BY <2>1, <1>k DEF RecordOf, Unrecorded, StartPending, Pending
  <1>10. ASSUME Fail(s) PROVE RecordOf(s)'
    <2>1. /\ pc'[s] = (IF pc[s] \in {"record", "read"} THEN "done" ELSE "run") /\ batch'[s] = {}
          /\ status'[s] = status[s] /\ ~healthy'[s]
          /\ \A t \in Task : check'[s][t] = IF check[s][t] = "logging" THEN "running" ELSE check[s][t]
      BY <1>10, <1>t DEF Fail, Started, roundVars
    <2>2. pc[s] \notin {"done", "crashed"}
      BY <1>10 DEF Fail, InHistory
    <2> QED
      BY <2>1, <2>2 DEF RecordOf
  <1>11. ASSUME NEW x \in Session, CollectInputs(s, x) PROVE RecordOf(s)'
    <2>1. pc'[s] = pc[s] /\ check'[s] = check[s] /\ status'[s] = status[s]
          /\ consistent'[s] = consistent[s] /\ batch'[s] = batch[s] /\ healthy'[s] = healthy[s]
          /\ lock' = lock
      BY <1>11 DEF CollectInputs, roundVars
    <2> QED
      BY <2>1, RecordUntouched
  <1>12. ASSUME NEW r \in Run, CollectOutputs(s, r) PROVE RecordOf(s)'
    <2>1. pc'[s] = pc[s] /\ check'[s] = check[s] /\ status'[s] = status[s]
          /\ consistent'[s] = consistent[s] /\ batch'[s] = batch[s] /\ healthy'[s] = healthy[s]
          /\ lock' = lock
      BY <1>12 DEF CollectOutputs, roundVars
    <2> QED
      BY <2>1, RecordUntouched
  <1>13. ASSUME NEW same \in BOOLEAN, Capture(s, same) PROVE RecordOf(s)'
    <2>1. /\ pc[s] = "run" /\ pc'[s] = (IF healthy[s] THEN "record" ELSE "done")
          /\ check'[s] = check[s] /\ status'[s] = status[s] /\ batch'[s] = batch[s]
          /\ healthy'[s] = healthy[s] /\ lock' = lock
          /\ \A t \in Task : check[s][t] \in {"exited", "reused", "recorded"}
      BY <1>13, <1>t DEF Capture, logVars
    <2>2. lock # s
      BY <2>1 DEF IInv, LockOK, MutexFree
    <2> QED
      BY <2>1, <2>2, <1>k DEF RecordOf
  <1>14. ASSUME NEW t \in Task, Launch(s, t) PROVE RecordOf(s)'
    <2> DEFINE e == NewEvent("started", <<s, t>>, s, t, "none", FALSE)
    <2>1. /\ pc[s] = "run" /\ check[s][t] = "todo" /\ pc'[s] = pc[s] /\ status'[s] = status[s]
          /\ consistent'[s] = consistent[s] /\ healthy'[s] = healthy[s] /\ lock' = lock
          /\ \A k \in Task \ {t} : check'[s][k] = check[s][k]
          /\ check'[s][t] = IF healthy[s] THEN "logging" ELSE "running"
      <3>1. /\ pc[s] = "run" /\ check[s][t] = "todo" /\ pc' = pc /\ status' = status
            /\ consistent' = consistent /\ healthy' = healthy /\ lock' = lock
        BY <1>14 DEF Launch, roundVars
      <3>2. check' = [check EXCEPT ![s][t] = IF healthy[s] THEN "logging" ELSE "running"]
        BY <1>14, Zenon DEF Launch
      <3> QED
        BY <1>t, <3>1, <3>2
    <2>2. /\ batch[s] = {} /\ (~healthy[s] => batch'[s] = batch[s])
          /\ healthy[s] => batch'[s] = {e}
      <3>1. batch[s] = {}
        BY <1>14 DEF Launch, IInv, LockOK
      <3> QED
        BY <1>14, <1>t, <3>1 DEF Launch
    <2>3. e.type = "started" /\ e.run = <<s, t>>
      BY DEF NewEvent
    <2> HIDE DEF e
    <2>4. healthy[s] => StartPending(s, t)'
      BY <2>2, <2>3 DEF StartPending
    <2>5. \A k \in Task : ~StartPending(s, k) /\ ~Pending(s, k)
      BY <2>2 DEF StartPending, Pending
    <2> QED
      BY <2>1, <2>2, <2>4, <2>5, <1>k DEF RecordOf
  <1>15. ASSUME NEW t \in Task, Collect(s, t) PROVE RecordOf(s)'
    <2> DEFINE e == NewEvent("finished", <<s, t>>, s, t, status[s][t], consistent[s])
    <2>1. /\ pc[s] = "record" /\ t \in Unrecorded(s) /\ pc'[s] = pc[s] /\ status'[s] = status[s]
          /\ consistent'[s] = consistent[s] /\ healthy'[s] = healthy[s] /\ lock' = lock
          /\ check'[s][t] = "recorded" /\ \A k \in Task \ {t} : check'[s][k] = check[s][k]
          /\ batch[s] \subseteq batch'[s] /\ (check[s][t] # "reused" => e \in batch'[s])
      <3>1. /\ pc[s] = "record" /\ t \in Unrecorded(s) /\ pc'[s] = pc[s] /\ status'[s] = status[s]
            /\ consistent'[s] = consistent[s] /\ healthy'[s] = healthy[s] /\ lock' = lock
            /\ check' = [check EXCEPT ![s][t] = "recorded"]
        BY <1>15 DEF Collect, roundVars
      <3>2. batch[s] \subseteq batch'[s] /\ (check[s][t] # "reused" => e \in batch'[s])
        BY <1>15, <1>t DEF Collect
      <3> QED
        BY <1>t, <3>1, <3>2
    <2>2. /\ e.type = "finished" /\ e.run = <<s, t>> /\ e.status = status[s][t]
          /\ e.consistent = consistent[s]
      BY DEF NewEvent
    <2> HIDE DEF e
    <2>3. check[s][t] \in {"exited", "reused"}
      BY <2>1 DEF IInv, WorkOK, Unrecorded
    <2>4. check[s][t] = "exited" => Pending(s, t)'
      BY <2>1, <2>2 DEF Pending
    <2>5. \A k \in Task : Pending(s, k) => Pending(s, k)'
      BY <2>1 DEF Pending
    <2>6. \A k \in Task : check[s][k] # "logging"
      BY <2>1 DEF IInv, WorkOK
    <2>7. lock # s /\ healthy[s]
      BY <2>1 DEF RecordOf
    <2> QED
      BY <2>1, <2>3, <2>4, <2>5, <2>6, <2>7, <1>k DEF RecordOf
  <1>16. ASSUME NEW t \in Task, NEW st \in Status, Exit(s, t, st) PROVE RecordOf(s)'
    <2>1. /\ pc[s] = "run" /\ check[s][t] = "running" /\ pc'[s] = pc[s]
          /\ consistent'[s] = consistent[s] /\ healthy'[s] = healthy[s] /\ lock' = lock
          /\ check'[s][t] = "exited" /\ batch'[s] = batch[s]
          /\ \A k \in Task \ {t} : check'[s][k] = check[s][k] /\ status'[s][k] = status[s][k]
      BY <1>16, <1>t DEF Exit
    <2>2. \A k \in Task : StartPending(s, k) => StartPending(s, k)'
      BY <2>1 DEF StartPending
    <2> QED
      BY <2>1, <2>2, <1>k DEF RecordOf
  <1>17. ASSUME NEW t \in Task, NEW r \in Run, Reuse(s, t, r) PROVE RecordOf(s)'
    <2>1. /\ pc[s] = "run" /\ check[s][t] = "todo" /\ pc'[s] = pc[s] /\ status'[s] = status[s]
          /\ consistent'[s] = consistent[s] /\ healthy'[s] = healthy[s] /\ lock' = lock
          /\ check'[s][t] = "reused" /\ batch'[s] = batch[s]
          /\ \A k \in Task \ {t} : check'[s][k] = check[s][k]
      BY <1>17, <1>t DEF Reuse
    <2>2. \A k \in Task : StartPending(s, k) => StartPending(s, k)'
      BY <2>1 DEF StartPending
    <2> QED
      BY <2>1, <2>2, <1>k DEF RecordOf
  <1>18. ASSUME NEW t \in Task, NEW r \in Run, EvidenceMissing(s, t, r)
        PROVE  RecordOf(s)'
    <2>1. /\ pc[s] = "run" /\ pc'[s] = pc[s] /\ status'[s] = status[s] /\ check'[s] = check[s]
          /\ ~healthy'[s] /\ batch'[s] = batch[s]
      BY <1>18, <1>t DEF EvidenceMissing, roundVars
    <2>2. batch[s] = {}
      BY <1>18 DEF EvidenceMissing, IInv, LockOK
    <2> QED
      BY <2>1, <2>2 DEF RecordOf
  <1> QED
    BY <1>1, <1>2, <1>3, <1>4, <1>5, <1>6, <1>7, <1>8, <1>9, <1>10, <1>11, <1>12, <1>13, <1>14, <1>15, <1>16, <1>17, <1>18 DEF Step

\* At first nothing has been executed.
LEMMA InitRecord == Init => RecordOK
  <1> SUFFICES ASSUME Init, NEW s \in Session PROVE RecordOf(s)
    BY DEF RecordOK
  <1>1. /\ pc[s] = "open" /\ batch[s] = {} /\ \A t \in Task : status[s][t] = "none"
        /\ \A t \in Task : check[s][t] \in {"todo", "recorded"}
    BY DEF Init
  <1> QED
    BY <1>1 DEF RecordOf

\* Every step keeps the record of every round.
LEMMA StepRecord == IInv /\ IInv' /\ RecordOK /\ [Next]_vars => RecordOK'
  <1> SUFFICES ASSUME IInv, IInv', RecordOK, [Next]_vars, NEW u \in Session
               PROVE  RecordOf(u)'
    BY DEF RecordOK
  <1>1. RecordOf(u)
    BY DEF RecordOK
  <1>2. CASE UNCHANGED vars \/ Tick
    <2>1. pc' = pc /\ check' = check /\ status' = status /\ consistent' = consistent
          /\ batch' = batch /\ healthy' = healthy /\ lock' = lock
      BY <1>2 DEF vars, Tick, roundVars
    <2> QED
      BY <1>1, <2>1, RecordUntouched
  <1>3. ASSUME NEW s \in Session, Step(s) \/ Crash(s) PROVE RecordOf(u)'
    <2>1. CASE u = s
      BY <1>1, <1>3, <2>1, RoundRecords
    <2>2. CASE u # s
      <3>1. Mine(u)
        BY <1>3, <2>2, RoundsApart DEF IInv
      <3> QED
        BY <1>1, <3>1, RecordUntouched DEF Mine
    <2> QED
      BY <2>1, <2>2
  <1> QED
    BY <1>2, <1>3 DEF Next

\* What the invariant says of a round that has ended without a diagnostic.
LEMMA RecordedRound == IInv /\ RecordOK => HealthyRoundRecorded
  <1> SUFFICES ASSUME IInv, RecordOK, NEW s \in Session, NEW t \in Task,
                      pc[s] = "done", healthy[s], status[s][t] # "none"
               PROVE  /\ Live(<<s, t>>, 1, Len(wal))
                      /\ Live(<<s, t>>, first, Len(wal)) =>
                           \E j \in Completions(<<s, t>>, first, Len(wal)) :
                              wal[j].status = status[s][t] /\ wal[j].consistent = consistent[s]
    BY DEF HealthyRoundRecorded
  <1>1. check[s][t] = "recorded" /\ batch[s] = {}
    BY DEF RecordOK, RecordOf, Unrecorded, IInv, LockOK
  <1>2. HasStart(<<s, t>>) /\ (Stored(s, t) \/ ~Retained(<<s, t>>))
    BY <1>1 DEF RecordOK, RecordOf, Pending
  <1>3. ASSUME Stored(s, t), Retained(<<s, t>>)
        PROVE  \E j \in Completions(<<s, t>>, first, Len(wal)) :
                  wal[j].status = status[s][t] /\ wal[j].consistent = consistent[s]
    <2>1. PICK j \in 1..Len(wal) : \E i \in 1..(j - 1) :
             /\ StartOf(i, <<s, t>>) /\ wal[j].type = "finished" /\ wal[j].run = <<s, t>>
             /\ wal[j].status = status[s][t] /\ wal[j].consistent = consistent[s]
      BY <1>3 DEF Stored
    <2>2. PICK i \in 1..(j - 1) : StartOf(i, <<s, t>>)
      BY <2>1
    <2>3. PICK m \in first..Len(wal) : StartOf(m, <<s, t>>)
      BY <1>3 DEF Retained, Live
    <2>4. first \in Nat /\ 1 <= first /\ Len(wal) \in Nat
      BY DEF IInv, TypeOK
    <2>5. i \in 1..Len(wal) /\ m \in 1..Len(wal)
      BY <2>4
    <2>6. i = m
      BY <2>2, <2>3, <2>5, OneStart
    <2>7. j \in first..Len(wal) /\ i \in first..(j - 1)
      BY <2>4, <2>6
    <2> QED
      BY <2>1, <2>2, <2>7 DEF Completions, Live
  <1> QED
    BY <1>2, <1>3 DEF HasStart, Live, Retained

-----------------------------------------------------------------------------
(* The evidence of what is recorded.                                       *)

\* No round lasts longer than a retention window: a file that a round under way
\* has saved is then too young to be collected.
RoundsFit == \A s \in Session : MaxRound <= Window[s]

FilesOf(s) ==
    /\ now[s] <= clock /\ inputsAt[s] <= clock
    /\ pc[s] = "collect" => view[s].lo = first /\ view[s].hi = Len(wal)
    /\ (~Over(s) /\ inputsAt[s] # 0) => clock <= inputsAt[s] + MaxRound
    /\ (pc[s] \in {"run", "record"} /\ healthy[s]) => inputsAt[s] # 0
    /\ \A e \in batch[s] : e.type = "finished" =>
          outputsAt[e.run] # 0 /\ inputsAt[s] <= outputsAt[e.run]

EvidenceOK == (\A s \in Session : FilesOf(s)) /\ EvidencePresent

\* A step that touches neither log nor files, nor makes up a completion.
Quiet(u) ==
    /\ now'[u] = now[u] /\ view'[u] = view[u]
    /\ pc'[u] = "collect" => pc[u] = "collect"
    /\ Over(u) => Over(u)'
    /\ (pc'[u] \in {"run", "record"} /\ healthy'[u]) => pc[u] \in {"run", "record"} /\ healthy[u]
    /\ \A e \in batch'[u] : e.type = "finished" => e \in batch[u]

\* A quiet step keeps what a session knows of its files.
LEMMA QuietFiles ==
    ASSUME NEW u \in Session, Quiet(u), FilesOf(u), clock' = clock, wal' = wal, first' = first,
           inputsAt' = inputsAt, outputsAt' = outputsAt
    PROVE  FilesOf(u)'
  BY DEF Quiet, FilesOf

\* A quiet step keeps the evidence.
LEMMA QuietEvidence ==
    ASSUME EvidencePresent, wal' = wal, first' = first, inputsAt' = inputsAt,
           outputsAt' = outputsAt
    PROVE  EvidencePresent'
  BY DEF EvidencePresent, Orphan, Live, StartOf

\* Most steps are quiet.
LEMMA QuietSteps ==
    ASSUME IInv, NEW s \in Session,
           \/ Crash(s) \/ MaintainDone(s) \/ NothingToRecord(s) \/ OpenLog(s) \/ CloseLog(s)
           \/ ReadBack(s) \/ Fail(s) \/ \E same \in BOOLEAN : Capture(s, same)
           \/ \E t \in Task :
                \/ Launch(s, t) \/ \E st \in Status : Exit(s, t, st)
                \/ \E r \in Run : Reuse(s, t, r) \/ EvidenceMissing(s, t, r)
    PROVE  /\ UNCHANGED <<clock, wal, first, inputsAt, outputsAt>>
           /\ \A u \in Session : Quiet(u)
  <1>t. /\ pc \in [Session -> Place] /\ batch \in [Session -> SUBSET Event]
        /\ healthy \in [Session -> BOOLEAN]
    BY DEF IInv, TypeOK
  <1>1. ASSUME Crash(s)
        PROVE  UNCHANGED <<clock, wal, first, inputsAt, outputsAt>> /\ \A u \in Session : Quiet(u)
    BY <1>1, <1>t DEF Crash, Quiet, Over, logVars, fileVars, roundVars
  <1>2. ASSUME MaintainDone(s)
        PROVE  UNCHANGED <<clock, wal, first, inputsAt, outputsAt>> /\ \A u \in Session : Quiet(u)
    BY <1>2, <1>t DEF MaintainDone, Quiet, Over, logVars, fileVars, roundVars
  <1>3. ASSUME NothingToRecord(s)
        PROVE  UNCHANGED <<clock, wal, first, inputsAt, outputsAt>> /\ \A u \in Session : Quiet(u)
    BY <1>3, <1>t DEF NothingToRecord, Quiet, Over, logVars, fileVars, roundVars
  <1>4. ASSUME OpenLog(s)
        PROVE  UNCHANGED <<clock, wal, first, inputsAt, outputsAt>> /\ \A u \in Session : Quiet(u)
    BY <1>4, <1>t DEF OpenLog, Quiet, Over, logVars, fileVars, roundVars
  <1>5. ASSUME CloseLog(s)
        PROVE  UNCHANGED <<clock, wal, first, inputsAt, outputsAt>> /\ \A u \in Session : Quiet(u)
    BY <1>5, <1>t DEF CloseLog, Quiet, Over, logVars, fileVars, roundVars
  <1>6. ASSUME ReadBack(s)
        PROVE  UNCHANGED <<clock, wal, first, inputsAt, outputsAt>> /\ \A u \in Session : Quiet(u)
    BY <1>6, <1>t DEF ReadBack, Quiet, Over, logVars, fileVars, roundVars
  <1>7. ASSUME Fail(s)
        PROVE  UNCHANGED <<clock, wal, first, inputsAt, outputsAt>> /\ \A u \in Session : Quiet(u)
    <2>1. /\ UNCHANGED <<clock, wal, first, inputsAt, outputsAt, now, view>>
          /\ pc' = [pc EXCEPT ![s] = IF pc[s] \in {"record", "read"} THEN "done" ELSE "run"]
          /\ healthy' = [healthy EXCEPT ![s] = FALSE] /\ batch' = [batch EXCEPT ![s] = {}]
          /\ pc[s] \notin {"done", "crashed"}
      BY <1>7 DEF Fail, InHistory, logVars, fileVars
    <2> QED
      BY <1>t, <2>1 DEF Quiet, Over
  <1>8. ASSUME NEW same \in BOOLEAN, Capture(s, same)
        PROVE  UNCHANGED <<clock, wal, first, inputsAt, outputsAt>> /\ \A u \in Session : Quiet(u)
    BY <1>8, <1>t DEF Capture, Quiet, Over, logVars, fileVars, roundVars
  <1>9. ASSUME NEW t \in Task, Launch(s, t)
        PROVE  UNCHANGED <<clock, wal, first, inputsAt, outputsAt>> /\ \A u \in Session : Quiet(u)
    <2> DEFINE e == NewEvent("started", <<s, t>>, s, t, "none", FALSE)
    <2>1. e.type # "finished"
      BY DEF NewEvent
    <2>2. /\ UNCHANGED <<clock, wal, first, inputsAt, outputsAt, pc, healthy, now, view>>
          /\ batch' = [batch EXCEPT ![s] = {e}] \/ batch' = batch
      BY <1>9 DEF Launch, logVars, fileVars
    <2> HIDE DEF e
    <2>3. \A u \in Session : \A f \in batch'[u] : f.type = "finished" => f \in batch[u]
      BY <1>t, <2>1, <2>2
    <2> QED
      BY <2>2, <2>3 DEF Quiet, Over
  <1>10. ASSUME NEW t \in Task, NEW st \in Status, Exit(s, t, st)
        PROVE  UNCHANGED <<clock, wal, first, inputsAt, outputsAt>> /\ \A u \in Session : Quiet(u)
    BY <1>10, <1>t DEF Exit, Quiet, Over, logVars, fileVars, roundVars
  <1>11. ASSUME NEW t \in Task, NEW r \in Run, Reuse(s, t, r)
        PROVE  UNCHANGED <<clock, wal, first, inputsAt, outputsAt>> /\ \A u \in Session : Quiet(u)
    BY <1>11, <1>t DEF Reuse, Quiet, Over, logVars, fileVars, roundVars
  <1>12. ASSUME NEW t \in Task, NEW r \in Run, EvidenceMissing(s, t, r)
        PROVE  UNCHANGED <<clock, wal, first, inputsAt, outputsAt>> /\ \A u \in Session : Quiet(u)
    BY <1>12, <1>t DEF EvidenceMissing, Quiet, Over, logVars, fileVars, roundVars
  <1> QED
    BY <1>1, <1>2, <1>3, <1>4, <1>5, <1>6, <1>7, <1>8, <1>9, <1>10, <1>11, <1>12

\* The clock stops before a round outlasts what it has saved.
LEMMA TickEvidence == ASSUME IInv, EvidenceOK, Tick PROVE EvidenceOK'
  <1>1. /\ UNCHANGED <<wal, first, inputsAt, outputsAt, pc, healthy, now, view, batch>>
        /\ clock' = clock + 1
        /\ \A s \in Session : (~Over(s) /\ inputsAt[s] # 0) => clock < inputsAt[s] + MaxRound
    BY DEF Tick, logVars, fileVars
  <1>2. clock \in Nat /\ inputsAt \in [Session -> Nat] /\ now \in [Session -> Nat]
    BY DEF IInv, TypeOK
  <1>3. EvidencePresent'
    BY <1>1, QuietEvidence DEF EvidenceOK
  <1>4. ASSUME NEW s \in Session PROVE FilesOf(s)'
    <2>1. now[s] \in Nat /\ inputsAt[s] \in Nat /\ FilesOf(s)
      BY <1>2 DEF EvidenceOK
    <2> QED
      BY <1>1, <1>2, <2>1, TimeAssumption DEF FilesOf, Over
  <1> QED
    BY <1>3, <1>4 DEF EvidenceOK

\* Truncation leaves the evidence of what it retains.
LEMMA MaintainEvidence ==
    ASSUME IInv, EvidenceOK, NEW s \in Session, Maintain(s) PROVE EvidenceOK'
  <1>1. /\ UNCHANGED <<clock, wal, inputsAt, outputsAt, healthy, batch>>
        /\ lock = NoSession /\ pc[s] = "open"
        /\ now' = [now EXCEPT ![s] = clock] /\ pc' = [pc EXCEPT ![s] = "collect"]
        /\ view' = [view EXCEPT ![s] = [lo |-> first', hi |-> Len(wal)]]
    BY DEF Maintain, Accessible, fileVars
  <1>2. first' >= first /\ first \in Nat /\ first' \in Nat
    BY DEF Maintain, FirstKept, IInv, TypeOK
  <1>3. /\ pc \in [Session -> Place] /\ now \in [Session -> Nat] /\ clock \in Nat
        /\ view \in [Session -> [lo : Nat \ {0}, hi : Nat]]
    BY DEF IInv, TypeOK
  <1>4. ASSUME NEW u \in Session PROVE FilesOf(u)'
    <2>1. CASE u = s
      <3>1. /\ view'[s].lo = first' /\ view'[s].hi = Len(wal) /\ now'[s] = clock
            /\ pc'[s] = "collect"
        BY <1>1, <1>3
      <3>2. /\ inputsAt[s] <= clock /\ (inputsAt[s] # 0 => clock <= inputsAt[s] + MaxRound)
            /\ \A e \in batch[s] : e.type = "finished" =>
                  outputsAt[e.run] # 0 /\ inputsAt[s] <= outputsAt[e.run]
        BY <1>1 DEF EvidenceOK, FilesOf, Over
      <3>3. clock <= clock
        BY <1>3
      <3>4. UNCHANGED <<clock, wal, inputsAt, outputsAt, batch>>
        BY <1>1
      <3> QED
        BY <2>1, <3>1, <3>2, <3>3, <3>4 DEF FilesOf
    <2>2. CASE u # s
      <3>1. pc[u] # "collect"
        BY <1>1, SessionAssumption DEF IInv, LockOK
      <3> QED
        BY <1>1, <1>3, <2>2, <3>1 DEF EvidenceOK, FilesOf, Over
    <2> QED
      BY <2>1, <2>2
  <1>5. EvidencePresent'
    <2> SUFFICES ASSUME NEW i \in first'..Len(wal)
                 PROVE  /\ wal[i].type = "started" => inputsAt[wal[i].run[1]] # 0
                        /\ (wal[i].type = "finished" /\ ~Orphan(wal[i], first, i - 1)')
                              => outputsAt[wal[i].run] # 0
      BY <1>1 DEF EvidencePresent, Orphan, Live, StartOf
    <2>1. i \in first..Len(wal) /\ Len(wal) \in Nat
      BY <1>2 DEF IInv, TypeOK
    <2>2. Live(wal[i].run, first, i - 1)' => Live(wal[i].run, first, i - 1)
      BY <1>1, <1>2, <2>1 DEF Live, StartOf
    <2> QED
      BY <1>1, <2>1, <2>2 DEF EvidenceOK, EvidencePresent, Orphan
  <1> QED
    BY <1>4, <1>5 DEF EvidenceOK

\* A session saves its inputs.
LEMMA SaveInputsEvidence ==
    ASSUME IInv, EvidenceOK, NEW s \in Session, SaveInputs(s) PROVE EvidenceOK'
  <1>1. /\ UNCHANGED <<clock, wal, first, outputsAt, healthy, batch, now, view>>
        /\ pc[s] = "save" /\ pc' = [pc EXCEPT ![s] = "run"]
        /\ inputsAt' = [inputsAt EXCEPT ![s] = clock]
    BY DEF SaveInputs, logVars
  <1>2. /\ pc \in [Session -> Place] /\ inputsAt \in [Session -> Nat] /\ clock \in Nat \ {0}
        /\ MaxRound \in Nat /\ batch[s] = {}
    BY <1>1, TimeAssumption DEF IInv, TypeOK, LockOK
  <1>3. ASSUME NEW u \in Session PROVE FilesOf(u)'
    BY <1>1, <1>2 DEF EvidenceOK, FilesOf, Over
  <1>4. EvidencePresent'
    <2> SUFFICES ASSUME NEW i \in first..Len(wal)
                 PROVE  /\ wal[i].type = "started" => inputsAt'[wal[i].run[1]] # 0
                        /\ (wal[i].type = "finished" /\ ~Orphan(wal[i], first, i - 1))
                              => outputsAt[wal[i].run] # 0
      BY <1>1 DEF EvidencePresent, Orphan, Live, StartOf
    <2>1. wal[i].type = "started" => inputsAt[wal[i].run[1]] # 0 /\ wal[i].run[1] \in Session
      <3>1. wal[i] \in Event
        BY DEF IInv, TypeOK
      <3>2. wal[i].run \in Session \X Task
        BY <3>1 DEF Event, Run
      <3> QED
        BY <3>2 DEF EvidenceOK, EvidencePresent
    <2> QED
      BY <1>1, <1>2, <2>1 DEF EvidenceOK, EvidencePresent
  <1> QED
    BY <1>3, <1>4 DEF EvidenceOK

\* A session saves an output and makes up the event that refers to it.
LEMMA CollectEvidence ==
    ASSUME IInv, EvidenceOK, NEW s \in Session, NEW t \in Task, Collect(s, t) PROVE EvidenceOK'
  <1> DEFINE r == NewEvent("reused", source[s][t], s, t, "passed", consistent[s])
             f == NewEvent("finished", <<s, t>>, s, t, status[s][t], consistent[s])
  <1>1. /\ UNCHANGED <<clock, wal, first, inputsAt, healthy, now, view, pc>>
        /\ \/ outputsAt' = outputsAt /\ batch' = [batch EXCEPT ![s] = @ \cup {r}]
           \/ /\ outputsAt' = [outputsAt EXCEPT ![<<s, t>>] = clock]
              /\ batch' = [batch EXCEPT ![s] = @ \cup {f}]
    BY DEF Collect, logVars
  <1>2. r.type # "finished" /\ f.run = <<s, t>> /\ <<s, t>> \in Run
    BY DEF NewEvent, Run
  <1> HIDE DEF r, f
  <1>3. /\ batch \in [Session -> SUBSET Event] /\ outputsAt \in [Run -> Nat]
        /\ inputsAt \in [Session -> Nat] /\ clock \in Nat \ {0}
        /\ \A u \in Session : \A e \in batch[u] : e.run \in Run
    BY DEF IInv, TypeOK, Event
  <1>4. \A q \in Run : outputsAt'[q] = outputsAt[q] \/ outputsAt'[q] = clock
    BY <1>1, <1>3
  <1>5. ASSUME NEW u \in Session PROVE FilesOf(u)'
    <2>1. ASSUME NEW e \in batch'[u], e.type = "finished"
          PROVE  outputsAt'[e.run] # 0 /\ inputsAt[u] <= outputsAt'[e.run]
      <3>1. e \in batch[u] \/ (e = f /\ outputsAt' = [outputsAt EXCEPT ![<<s, t>>] = clock])
        BY <1>1, <1>2, <1>3, <2>1
      <3>2. inputsAt[u] <= clock
        BY DEF EvidenceOK, FilesOf
      <3>3. CASE e \in batch[u]
        <4>1. e.run \in Run /\ outputsAt[e.run] # 0 /\ inputsAt[u] <= outputsAt[e.run]
          BY <1>3, <2>1, <3>3 DEF EvidenceOK, FilesOf
        <4> QED
          BY <1>3, <1>4, <3>2, <4>1
      <3>4. CASE e = f /\ outputsAt' = [outputsAt EXCEPT ![<<s, t>>] = clock]
        BY <1>2, <1>3, <3>2, <3>4
      <3> QED
        BY <3>1, <3>3, <3>4
    <2> QED
      BY <1>1, <2>1 DEF EvidenceOK, FilesOf, Over
  <1>6. EvidencePresent'
    <2> SUFFICES ASSUME NEW i \in first..Len(wal)
                 PROVE  /\ wal[i].type = "started" => inputsAt[wal[i].run[1]] # 0
                        /\ (wal[i].type = "finished" /\ ~Orphan(wal[i], first, i - 1))
                              => outputsAt'[wal[i].run] # 0
      BY <1>1 DEF EvidencePresent, Orphan, Live, StartOf
    <2>1. wal[i].run \in Run
      <3>1. wal[i] \in Event
        BY DEF IInv, TypeOK
      <3> QED
        BY <3>1 DEF Event
    <2> QED
      BY <1>3, <1>4, <2>1 DEF EvidenceOK, EvidencePresent
  <1> QED
    BY <1>5, <1>6 DEF EvidenceOK

\* The collection of inputs spares what is retained and who is under way.
LEMMA CollectInputsEvidence ==
    ASSUME IInv, RoundsFit, EvidenceOK, NEW s \in Session, NEW x \in Session,
           CollectInputs(s, x)
    PROVE  EvidenceOK'
  <1>1. /\ UNCHANGED <<clock, wal, first, outputsAt, healthy, batch, now, view, pc>>
        /\ pc[s] = "collect" /\ inputsAt' = [inputsAt EXCEPT ![x] = 0]
        /\ inputsAt[x] # 0 /\ inputsAt[x] + Window[s] < now[s]
        /\ x \notin Referenced(first, Len(wal))
    BY DEF CollectInputs, StaleInputs, Expired, logVars, EvidenceOK, FilesOf
  <1>2. /\ clock \in Nat \ {0} /\ inputsAt \in [Session -> Nat] /\ now[s] \in Nat
        /\ Window[s] \in Nat /\ MaxRound \in Nat /\ MaxRound <= Window[s] /\ now[s] <= clock
    BY WindowAssumption, TimeAssumption DEF IInv, TypeOK, RoundsFit, EvidenceOK, FilesOf
  <1>3. ASSUME NEW u \in Session PROVE FilesOf(u)'
    <2>1. CASE u = x
      <3>1. ~(pc[x] \in {"run", "record"} /\ healthy[x])
        <4>1. clock < inputsAt[x] + MaxRound => FALSE
          BY <1>1, <1>2
        <4>2. ~(clock <= inputsAt[x] + MaxRound)
          BY <1>1, <1>2
        <4> QED
          BY <1>1, <4>2 DEF EvidenceOK, FilesOf, Over
      <3>2. \A q : outputsAt[q] \in Nat => 0 <= outputsAt[q]
        OBVIOUS
      <3>3. \A e \in batch[x] : outputsAt[e.run] \in Nat
        BY DEF IInv, TypeOK, Event
      <3> QED
        BY <1>1, <1>2, <2>1, <3>1, <3>2, <3>3 DEF EvidenceOK, FilesOf, Over
    <2>2. CASE u # x
      BY <1>1, <1>2, <2>2 DEF EvidenceOK, FilesOf, Over
    <2> QED
      BY <2>1, <2>2
  <1>4. EvidencePresent'
    <2> SUFFICES ASSUME NEW i \in first..Len(wal)
                 PROVE  /\ wal[i].type = "started" => inputsAt'[wal[i].run[1]] # 0
                        /\ (wal[i].type = "finished" /\ ~Orphan(wal[i], first, i - 1))
                              => outputsAt[wal[i].run] # 0
      BY <1>1 DEF EvidencePresent, Orphan, Live, StartOf
    <2>1. i \in 1..Len(wal)
      BY DEF IInv, TypeOK
    <2>2. wal[i].type = "started" => wal[i].run[1] = wal[i].by /\ wal[i].by \in Session
      <3>1. wal[i] \in Event
        BY <2>1 DEF IInv, TypeOK
      <3>2. wal[i].type = "started" => wal[i].run = <<wal[i].by, wal[i].task>>
        BY <2>1 DEF IInv, LogOK
      <3> QED
        BY <3>1, <3>2 DEF Event
    <2>3. wal[i].type = "started" => wal[i].by \in Referenced(first, Len(wal))
      BY DEF Referenced, Orphan
    <2> QED
      BY <1>1, <1>2, <2>2, <2>3 DEF EvidenceOK, EvidencePresent
  <1> QED
    BY <1>3, <1>4 DEF EvidenceOK

\* So does the collection of outputs.
LEMMA CollectOutputsEvidence ==
    ASSUME IInv, RoundsFit, RecordOK, EvidenceOK, NEW s \in Session, NEW r \in Run,
           CollectOutputs(s, r)
    PROVE  EvidenceOK'
  <1>1. /\ UNCHANGED <<clock, wal, first, inputsAt, healthy, batch, now, view, pc>>
        /\ pc[s] = "collect" /\ outputsAt' = [outputsAt EXCEPT ![r] = 0]
        /\ outputsAt[r] + Window[s] < now[s]
        /\ ~Live(r, first, Len(wal))
    BY DEF CollectOutputs, StaleOutputs, Expired, logVars, EvidenceOK, FilesOf
  <1>2. /\ clock \in Nat \ {0} /\ outputsAt \in [Run -> Nat] /\ now[s] \in Nat
        /\ inputsAt \in [Session -> Nat]
        /\ Window[s] \in Nat /\ MaxRound \in Nat /\ MaxRound <= Window[s] /\ now[s] <= clock
    BY WindowAssumption, TimeAssumption DEF IInv, TypeOK, RoundsFit, EvidenceOK, FilesOf
  <1>3. ASSUME NEW u \in Session PROVE FilesOf(u)'
    <2>1. ASSUME NEW e \in batch[u], e.type = "finished" PROVE e.run # r /\ e.run \in Run
      <3>1. e.run \in Run
        BY DEF IInv, TypeOK, Event
      <3>2. healthy[u] /\ pc[u] = "record"
        BY <2>1 DEF RecordOK, RecordOf, IInv, BatchOK
      <3>3. inputsAt[u] # 0 /\ clock <= inputsAt[u] + MaxRound /\ inputsAt[u] <= outputsAt[e.run]
        BY <2>1, <3>2 DEF EvidenceOK, FilesOf, Over
      <3>4. inputsAt[u] \in Nat /\ outputsAt[e.run] \in Nat /\ outputsAt[r] \in Nat
        BY <1>2, <3>1
      <3>5. ~(outputsAt[e.run] + Window[s] < now[s])
        BY <1>2, <3>3, <3>4
      <3> QED
        BY <1>1, <3>1, <3>5
    <2>2. \A e \in batch[u] : e.type = "finished" => outputsAt'[e.run] = outputsAt[e.run]
      BY <1>1, <1>2, <2>1
    <2> QED
      BY <1>1, <2>2 DEF EvidenceOK, FilesOf, Over
  <1>4. EvidencePresent'
    <2> SUFFICES ASSUME NEW i \in first..Len(wal)
                 PROVE  /\ wal[i].type = "started" => inputsAt[wal[i].run[1]] # 0
                        /\ (wal[i].type = "finished" /\ ~Orphan(wal[i], first, i - 1))
                              => outputsAt'[wal[i].run] # 0
      BY <1>1 DEF EvidencePresent, Orphan, Live, StartOf
    <2>1. i \in 1..Len(wal) /\ first \in Nat /\ Len(wal) \in Nat
      BY DEF IInv, TypeOK
    <2>2. wal[i].run \in Run
      <3>1. wal[i] \in Event
        BY <2>1 DEF IInv, TypeOK
      <3> QED
        BY <3>1 DEF Event
    <2>3. Live(wal[i].run, first, i - 1) => Live(wal[i].run, first, Len(wal))
      BY <2>1 DEF Live
    <2>4. (wal[i].type = "finished" /\ ~Orphan(wal[i], first, i - 1)) => wal[i].run # r
      BY <1>1, <2>3 DEF Orphan
    <2> QED
      BY <1>1, <1>2, <2>2, <2>4 DEF EvidenceOK, EvidencePresent
  <1> QED
    BY <1>3, <1>4 DEF EvidenceOK

\* The files of a new record are there.
LEMMA WriteNextEvidence ==
    ASSUME IInv, RecordOK, EvidenceOK, NEW s \in Session, WriteNext(s) PROVE EvidenceOK'
  <1>1. PICK e \in batch[s] :
           /\ e \in Event
           /\ wal' \in Seq(Event) /\ Len(wal') = Len(wal) + 1
           /\ wal'[Len(wal) + 1] = e /\ \A i \in 1..Len(wal) : wal'[i] = wal[i]
           /\ batch' = [batch EXCEPT ![s] = @ \ {e}]
    BY WriteNextAppends DEF IInv
  <1>2. /\ UNCHANGED <<clock, first, inputsAt, outputsAt, healthy, now, view, pc>>
        /\ lock = s /\ pc[s] \in {"run", "record"}
    BY DEF WriteNext, fileVars
  <1>3. batch \in [Session -> SUBSET Event] /\ first \in Nat /\ 1 <= first /\ Len(wal) \in Nat
    BY DEF IInv, TypeOK
  <1>4. ASSUME NEW u \in Session PROVE FilesOf(u)'
    <2>1. pc[u] # "collect"
      BY <1>2 DEF IInv, LockOK
    <2>2. batch'[u] \subseteq batch[u]
      BY <1>1, <1>3
    <2> QED
      BY <1>2, <2>1, <2>2 DEF EvidenceOK, FilesOf, Over
  <1>5. EvidencePresent'
    <2> SUFFICES ASSUME NEW i \in first..Len(wal')
                 PROVE  /\ wal'[i].type = "started" => inputsAt[wal'[i].run[1]] # 0
                        /\ (wal'[i].type = "finished" /\ ~Orphan(wal[i], first, i - 1)')
                              => outputsAt[wal'[i].run] # 0
      BY <1>2 DEF EvidencePresent
    <2>1. CASE i \in first..Len(wal)
      <3>1. wal'[i] = wal[i] /\ \A k \in first..(i - 1) : wal'[k] = wal[k]
        BY <1>1, <1>3, <2>1
      <3>2. Orphan(wal[i], first, i - 1)' <=> Orphan(wal[i], first, i - 1)
        BY <1>2, <3>1 DEF Orphan, Live, StartOf
      <3> QED
        BY <2>1, <3>1, <3>2 DEF EvidenceOK, EvidencePresent
    <2>2. CASE i = Len(wal) + 1
      <3>1. wal'[i] = e
        BY <1>1, <2>2
      <3>2. e.type = "started" => e.run[1] = s
        BY DEF IInv, BatchOK
      <3>3. healthy[s]
        BY DEF RecordOK, RecordOf
      <3> QED
        BY <1>2, <3>1, <3>2, <3>3 DEF EvidenceOK, FilesOf
    <2> QED
      BY <1>1, <1>3, <2>1, <2>2
  <1> QED
    BY <1>4, <1>5 DEF EvidenceOK

\* At first there is nothing to have evidence of.
LEMMA InitEvidence == Init => EvidenceOK
  <1> SUFFICES ASSUME Init PROVE EvidenceOK
    OBVIOUS
  <1>1. EvidencePresent
    BY DEF Init, EvidencePresent
  <1>2. ASSUME NEW s \in Session PROVE FilesOf(s)
    BY DEF Init, FilesOf
  <1> QED
    BY <1>1, <1>2 DEF EvidenceOK

\* Every step keeps the evidence.
LEMMA StepEvidence == RoundsFit /\ IInv /\ RecordOK /\ EvidenceOK /\ [Next]_vars => EvidenceOK'
  <1> SUFFICES ASSUME RoundsFit, IInv, RecordOK, EvidenceOK, [Next]_vars PROVE EvidenceOK'
    OBVIOUS
  <1>1. CASE UNCHANGED vars
    <2>1. /\ UNCHANGED <<clock, wal, first, inputsAt, outputsAt>>
          /\ \A u \in Session : Quiet(u)
      BY <1>1 DEF vars, logVars, fileVars, Quiet, Over
    <2> QED
      BY <2>1, QuietFiles, QuietEvidence DEF EvidenceOK
  <1>2. CASE Tick
    BY <1>2, TickEvidence
  <1>3. ASSUME NEW s \in Session, Step(s) \/ Crash(s) PROVE EvidenceOK'
    <2>1. CASE Maintain(s) \/ SaveInputs(s) \/ WriteNext(s)
      BY <2>1, MaintainEvidence, SaveInputsEvidence, WriteNextEvidence
    <2>2. ASSUME NEW x \in Session, CollectInputs(s, x) PROVE EvidenceOK'
      BY <2>2, CollectInputsEvidence
    <2>3. ASSUME NEW r \in Run, CollectOutputs(s, r) PROVE EvidenceOK'
      BY <2>3, CollectOutputsEvidence
    <2>4. ASSUME NEW t \in Task, Collect(s, t) PROVE EvidenceOK'
      BY <2>4, CollectEvidence
    <2>5. CASE \/ Crash(s) \/ MaintainDone(s) \/ NothingToRecord(s) \/ OpenLog(s) \/ CloseLog(s)
               \/ ReadBack(s) \/ Fail(s) \/ \E same \in BOOLEAN : Capture(s, same)
               \/ \E t \in Task :
                    \/ Launch(s, t) \/ \E st \in Status : Exit(s, t, st)
                    \/ \E r \in Run : Reuse(s, t, r) \/ EvidenceMissing(s, t, r)
      <3>1. /\ UNCHANGED <<clock, wal, first, inputsAt, outputsAt>>
            /\ \A u \in Session : Quiet(u)
        BY <2>5, QuietSteps
      <3> QED
        BY <3>1, QuietFiles, QuietEvidence DEF EvidenceOK
    <2> QED
      BY <1>3, <2>1, <2>2, <2>3, <2>4, <2>5 DEF Step
  <1> QED
    BY <1>1, <1>2, <1>3 DEF Next

\* A round that ends without a history diagnostic has recorded what it executed
\* (reuse.go, started and finish; store.go, Append).
THEOREM RoundsRecorded == Spec => []HealthyRoundRecorded
  <1>1. IInv /\ IInv' /\ RecordOK /\ [Next]_vars => RecordOK'
    BY StepRecord
  <1>2. Spec => []RecordOK
    BY <1>1, InitRecord, InductiveInvariant, PTL DEF Spec
  <1> QED
    BY <1>2, InductiveInvariant, RecordedRound, PTL

\* The evidence of every retained Run stays on disk while rounds last no longer
\* than any retention window (retention.go, Maintain; files.go).
THEOREM EvidenceKept == RoundsFit => (Spec => []EvidencePresent)
  <1> SUFFICES ASSUME RoundsFit PROVE Spec => []EvidencePresent
    OBVIOUS
  <1>1. IInv /\ RecordOK /\ EvidenceOK /\ [Next]_vars => EvidenceOK'
    BY StepEvidence
  <1>2. Spec => [](IInv /\ RecordOK)
    BY StepRecord, InitRecord, InductiveInvariant, PTL DEF Spec
  <1>3. EvidenceOK => EvidencePresent
    BY DEF EvidenceOK
  <1> QED
    BY <1>1, <1>2, <1>3, InitEvidence, PTL DEF Spec
=============================================================================
