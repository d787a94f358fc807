---------------------------- MODULE HistoryStore ----------------------------
(***************************************************************************)
(* The validation history store shared by the repocli processes of one     *)
(* repository (toolkit/go/internal/validation/history) and the part of a   *)
(* validation round that uses it (reuse.go, beginHistory to finish).       *)
(*                                                                         *)
(* One write-ahead log, `wal', is appended to under an OS file lock held   *)
(* over open/read/write/close and never while a check runs.  Retention     *)
(* cuts an expired prefix off (`first' moves up) and then collects the     *)
(* input and output files no retained event refers to.  Nobody keeps a     *)
(* table of Runs: each access replays the retained suffix.                 *)
(*                                                                         *)
(* A Session is one process executing one round of checks; a Task is one   *)
(* check of one Component, numbered in the order of the plan.  What a      *)
(* check depends on is abstracted away here: any completed Run of the same *)
(* Task and checkout may be the latest one that matches                    *)
(* (ValidationRound.tla has contents).  Checks that are skipped,            *)
(* unavailable or cancelled before their process started leave no trace in *)
(* the store and are not Planned.                                          *)
(***************************************************************************)
EXTENDS Naturals, Sequences

CONSTANTS Session,     \* the processes; a session's inputs record has its name
          Task,        \* the checks of a plan, in plan order
          Planned,     \* the checks of each session's plan that get a process
          CheckoutOf,  \* the worktree each session validates
          Window,      \* each session's retention window (HistoryDays)
          OtherStatus, \* what a check may end with, besides "passed"
          Faulty,      \* bound: the sessions that may crash or have an access fail
          Arrival,     \* bound: the earliest time each session's round begins
          MaxRound,    \* bound: how long a round may last once its inputs are saved
          MaxTime,     \* bound on the clock
          NoSession    \* nobody: the lock is free

ASSUME SessionAssumption == NoSession \notin Session
ASSUME TaskAssumption == Task \subseteq Nat
ASSUME StatusAssumption == OtherStatus \cap {"passed", "none"} = {}
ASSUME WindowAssumption == Window \in [Session -> Nat \ {0}]
ASSUME PlannedAssumption == Planned \in [Session -> SUBSET Task]
ASSUME BoundAssumption ==
    /\ Faulty \subseteq Session
    /\ Arrival \in [Session -> 1..MaxTime]
ASSUME TimeAssumption == MaxRound \in Nat /\ MaxTime \in Nat

VARIABLES
    clock,      \* time.Now(), 1 or later
    wal,        \* every event ever written, in log order
    first,      \* index of the first retained event
    torn,       \* a crash left a partial record at the end of the log
    lock,       \* holder of <repository>/lock
    handle,     \* last index the holder's open log has cached
    inputsAt,   \* modification time of inputs/<session>.json, 0: no file
    outputsAt,  \* modification time of logs/<run>/, 0: no directory
    pc,         \* where each session's round is
    check,      \* where each check of a round is
    status,     \* what an executed check ended with
    source,     \* the Run a reused check took its result from
    consistent, \* the round's final capture matched (report.InputsConsistent)
    view,       \* the log interval replayed when the round began (s.state)
    now,        \* the time the session's Maintain read
    batch,      \* the events of the session's current Append, not yet written
    healthy     \* ~s.failed

logVars == <<wal, first, torn>>
fileVars == <<inputsAt, outputsAt>>
roundVars == <<status, source, consistent>>
vars == <<clock, logVars, lock, handle, fileVars, pc, check, roundVars, view,
          now, batch, healthy>>

-----------------------------------------------------------------------------
Run == Session \X Task        \* CheckResult.RunID: rand.Text(), never drawn twice
Status == {"passed"} \cup OtherStatus

\* history.Event.  `by' is the recording session: it stands for Event.Inputs
\* and, through CheckoutOf, for Event.Checkout; `task' is Component and Check.
Event == [type : {"started", "finished", "reused"}, run : Run, by : Session,
          task : Task, at : Nat, status : Status \cup {"none"},
          consistent : BOOLEAN]

NewEvent(kind, r, s, t, st, c) ==
    [type |-> kind, run |-> r, by |-> s, task |-> t, at |-> clock,
     status |-> st, consistent |-> c]

\* The projection of the log entries lo..hi (State.apply over them).
StartOf(i, r) == wal[i].type = "started" /\ wal[i].run = r
Live(r, lo, hi) == \E i \in lo..hi : StartOf(i, r)
Completions(r, lo, hi) ==
    {j \in lo..hi : /\ wal[j].type = "finished" /\ wal[j].run = r
                    /\ Live(r, lo, j - 1)}
Orphan(e, lo, hi) == e.type # "started" /\ ~Live(e.run, lo, hi)
SameTask(d, e) == CheckoutOf[d.by] = CheckoutOf[e.by] /\ d.task = e.task

\* apply accepts e after the entries lo..hi.
Applies(e, lo, hi) ==
    \/ e.type = "started" /\ ~Live(e.run, lo, hi)
    \/ Orphan(e, lo, hi)
    \/ /\ e.type = "finished"
       /\ Completions(e.run, lo, hi) = {}
       /\ \E i \in lo..hi : /\ StartOf(i, e.run) /\ SameTask(wal[i], e)
                            /\ wal[i].by = e.by
    \/ /\ e.type = "reused"
       /\ \E i \in lo..hi : StartOf(i, e.run) /\ SameTask(wal[i], e)
       /\ \E j \in Completions(e.run, lo, hi) :
             wal[j].status = "passed" /\ wal[j].consistent

Replays(lo) == \A i \in lo..Len(wal) : Applies(wal[i], lo, i - 1)

\* State.Inputs: the input records that applied, unorphaned events refer to.
Referenced(lo, hi) ==
    {wal[i].by : i \in {i \in lo..hi : ~Orphan(wal[i], lo, i - 1)}}

-----------------------------------------------------------------------------
\* access: the lock is free and the log opens.
Accessible == lock = NoSession /\ ~torn
Over(s) == pc[s] \in {"done", "crashed"}

\* Retention keeps the log from its first unexpired event on.
Expired(at, s, t) == at + Window[s] < t
FirstKept(s) ==
    {keep \in first..(Len(wal) + 1) :
        /\ \A i \in first..(keep - 1) : Expired(wal[i].at, s, clock)
        /\ keep <= Len(wal) => ~Expired(wal[keep].at, s, clock)}

\* Maintain, up to the collection of files: truncate, then replay.
Maintain(s) ==
    /\ pc[s] = "open" /\ Accessible /\ clock >= Arrival[s]
    /\ \E keep \in FirstKept(s) :
         /\ Replays(keep)
         /\ first' = keep
         /\ view' = [view EXCEPT ![s] = [lo |-> keep, hi |-> Len(wal)]]
    /\ lock' = s
    /\ now' = [now EXCEPT ![s] = clock]
    /\ pc' = [pc EXCEPT ![s] = "collect"]
    /\ UNCHANGED <<clock, wal, torn, handle, fileVars, check, roundVars, batch,
                   healthy>>

\* Maintain, one file of its collection loop.
StaleInputsOfAnyAge(s, x) ==                      \* mutant: no age test
    inputsAt[x] # 0 /\ x \notin Referenced(view[s].lo, view[s].hi)
StaleInputs(s, x) ==
    /\ inputsAt[x] # 0 /\ Expired(inputsAt[x], s, now[s])
    /\ x \notin Referenced(view[s].lo, view[s].hi)
StaleOutputs(s, r) ==
    /\ outputsAt[r] # 0 /\ Expired(outputsAt[r], s, now[s])
    /\ ~Live(r, view[s].lo, view[s].hi)

CollectInputs(s, x) ==
    /\ pc[s] = "collect" /\ StaleInputs(s, x)
    /\ inputsAt' = [inputsAt EXCEPT ![x] = 0]
    /\ UNCHANGED <<clock, logVars, lock, handle, outputsAt, pc, check, roundVars,
                   view, now, batch, healthy>>

CollectOutputs(s, r) ==
    /\ pc[s] = "collect" /\ StaleOutputs(s, r)
    /\ outputsAt' = [outputsAt EXCEPT ![r] = 0]
    /\ UNCHANGED <<clock, logVars, lock, handle, inputsAt, pc, check, roundVars,
                   view, now, batch, healthy>>

MaintainDone(s) ==
    /\ pc[s] = "collect"
    /\ \A x \in Session : ~StaleInputs(s, x)
    /\ \A r \in Run : ~StaleOutputs(s, r)
    /\ lock' = NoSession
    /\ pc' = [pc EXCEPT ![s] = "save"]
    /\ UNCHANGED <<clock, logVars, handle, fileVars, check, roundVars, view, now,
                   batch, healthy>>

SaveInputs(s) ==
    /\ pc[s] = "save"
    /\ inputsAt' = [inputsAt EXCEPT ![s] = clock]
    /\ pc' = [pc EXCEPT ![s] = "run"]
    /\ UNCHANGED <<clock, logVars, lock, handle, outputsAt, check, roundVars,
                   view, now, batch, healthy>>

-----------------------------------------------------------------------------
\* s.mu is held by the check whose started event is being appended.
NoMutex(s) == TRUE                                \* mutant: s.mu not taken
MutexFree(s) == \A t \in Task : check[s][t] # "logging"

\* candidate: a Run of the same checkout and task completed in the view.
Candidate(s, t, r) ==
    \E j \in Completions(r, view[s].lo, view[s].hi) :
        \E i \in view[s].lo..view[s].hi :
            /\ StartOf(i, r)
            /\ CheckoutOf[wal[i].by] = CheckoutOf[s] /\ wal[i].task = t

\* What reuse asks of the latest matching Run.
ReusableUnchecked(j) == wal[j].status = "passed"  \* mutant: consistency ignored
Reusable(j) == wal[j].status = "passed" /\ wal[j].consistent

Reuse(s, t, r) ==
    /\ pc[s] = "run" /\ check[s][t] = "todo" /\ MutexFree(s) /\ healthy[s]
    /\ Candidate(s, t, r)
    /\ \E j \in Completions(r, view[s].lo, view[s].hi) : Reusable(j)
    /\ inputsAt[r[1]] # 0 /\ outputsAt[r] # 0
    /\ check' = [check EXCEPT ![s][t] = "reused"]
    /\ source' = [source EXCEPT ![s][t] = r]
    /\ UNCHANGED <<clock, logVars, lock, handle, fileVars, pc, status,
                   consistent, view, now, batch, healthy>>

\* The candidate's files were collected since the view was taken.
EvidenceMissing(s, t, r) ==
    /\ pc[s] = "run" /\ check[s][t] = "todo" /\ MutexFree(s) /\ healthy[s]
    /\ Candidate(s, t, r)
    /\ inputsAt[r[1]] = 0 \/ outputsAt[r] = 0
    /\ healthy' = [healthy EXCEPT ![s] = FALSE]
    /\ UNCHANGED <<clock, logVars, lock, handle, fileVars, pc, check, roundVars,
                   view, now, batch>>

\* No reuse was granted, the check's process is running, and started takes
\* s.mu and stamps the event before Append asks for the lock.
Launch(s, t) ==
    /\ pc[s] = "run" /\ check[s][t] = "todo" /\ MutexFree(s)
    /\ IF healthy[s]
         THEN /\ check' = [check EXCEPT ![s][t] = "logging"]
              /\ batch' = [batch EXCEPT ![s] =
                     {NewEvent("started", <<s, t>>, s, t, "none", FALSE)}]
         ELSE /\ check' = [check EXCEPT ![s][t] = "running"]
              /\ UNCHANGED batch
    /\ UNCHANGED <<clock, logVars, lock, handle, fileVars, pc, roundVars, view,
                   now, healthy>>

\* The process ended, or was killed with the round's context.
Exit(s, t, st) ==
    /\ pc[s] = "run" /\ check[s][t] = "running"
    /\ check' = [check EXCEPT ![s][t] = "exited"]
    /\ status' = [status EXCEPT ![s][t] = st]
    /\ UNCHANGED <<clock, logVars, lock, handle, fileVars, pc, source,
                   consistent, view, now, batch, healthy>>

\* The workers are done and the final capture is compared with the plan.
Capture(s, same) ==
    /\ pc[s] = "run"
    /\ \A t \in Task : check[s][t] \in {"exited", "reused", "recorded"}
    /\ consistent' = [consistent EXCEPT ![s] = same]
    /\ pc' = [pc EXCEPT ![s] = IF healthy[s] THEN "record" ELSE "done"]
    /\ UNCHANGED <<clock, logVars, lock, handle, fileVars, check, status, source,
                   view, now, batch, healthy>>

\* finish, one result of its loop: save the output, make the event.
Unrecorded(s) == {t \in Task : check[s][t] # "recorded"}
Collect(s, t) ==
    /\ pc[s] = "record" /\ t \in Unrecorded(s)
    /\ \A u \in Unrecorded(s) : t <= u
    /\ IF check[s][t] = "reused"
         THEN /\ batch' = [batch EXCEPT ![s] = @ \cup
                     {NewEvent("reused", source[s][t], s, t, "passed", consistent[s])}]
              /\ UNCHANGED outputsAt
         ELSE /\ outputsAt' = [outputsAt EXCEPT ![<<s, t>>] = clock]
              /\ batch' = [batch EXCEPT ![s] = @ \cup
                     {NewEvent("finished", <<s, t>>, s, t, status[s][t], consistent[s])}]
    /\ check' = [check EXCEPT ![s][t] = "recorded"]
    /\ UNCHANGED <<clock, logVars, lock, handle, inputsAt, pc, roundVars, view,
                   now, healthy>>

\* finish with nothing to append.
NothingToRecord(s) ==
    /\ pc[s] = "record" /\ Unrecorded(s) = {} /\ batch[s] = {} /\ lock # s
    /\ pc' = [pc EXCEPT ![s] = "read"]
    /\ UNCHANGED <<clock, logVars, lock, handle, fileVars, check, roundVars,
                   view, now, batch, healthy>>

-----------------------------------------------------------------------------
\* Append under the lock: replay, drop the orphans, check the whole batch.
Appending(s) ==
    /\ batch[s] # {} /\ lock # s
    /\ pc[s] = "run" \/ (pc[s] = "record" /\ Unrecorded(s) = {})

Acceptable(s) == \A e \in batch[s] : Applies(e, first, Len(wal))

HandleKept(s) == view[s].hi                        \* mutant: log kept open
HandleOpened(s) == Len(wal)

OpenLog(s) ==
    /\ Appending(s) /\ Accessible /\ Replays(first) /\ Acceptable(s)
    /\ lock' = s
    /\ handle' = [handle EXCEPT ![s] = HandleOpened(s)]
    /\ batch' = [batch EXCEPT ![s] = {e \in @ : ~Orphan(e, first, Len(wal))}]
    /\ UNCHANGED <<clock, logVars, fileVars, pc, check, roundVars, view, now,
                   healthy>>

\* WriteBatch, one record: it goes behind the last index the handle knows.
WrittenTwice(s, e) == SubSeq(wal, 1, handle[s]) \o <<e, e>>  \* mutant: repeated
Written(s, e) == Append(SubSeq(wal, 1, handle[s]), e)

WriteNext(s) ==
    /\ lock = s /\ pc[s] \in {"run", "record"}
    /\ \E e \in batch[s] :
         /\ \A f \in batch[s] : e.task <= f.task
         /\ wal' = Written(s, e)
         /\ batch' = [batch EXCEPT ![s] = @ \ {e}]
    /\ handle' = [handle EXCEPT ![s] = @ + 1]
    /\ UNCHANGED <<clock, first, torn, lock, fileVars, pc, check, roundVars,
                   view, now, healthy>>

\* onStart returned: the check whose start was logged just runs.
Started(s) == [t \in Task |-> IF check[s][t] = "logging" THEN "running" ELSE check[s][t]]

CloseLog(s) ==
    /\ lock = s /\ pc[s] \in {"run", "record"} /\ batch[s] = {}
    /\ lock' = NoSession
    /\ pc' = [pc EXCEPT ![s] = IF @ = "record" THEN "read" ELSE @]
    /\ check' = [check EXCEPT ![s] = Started(s)]
    /\ UNCHANGED <<clock, logVars, handle, fileVars, roundVars, view, now, batch,
                   healthy>>

\* The round's last access: the statistics of the report.
ReadBack(s) ==
    /\ pc[s] = "read" /\ Accessible /\ Replays(first)
    /\ pc' = [pc EXCEPT ![s] = "done"]
    /\ UNCHANGED <<clock, logVars, lock, handle, fileVars, check, roundVars,
                   view, now, batch, healthy>>

KeptByFailed(s) == lock                           \* mutant: no deferred unlock
Released(s) == IF lock = s THEN NoSession ELSE lock

\* Any access may fail: lock wait over (5s), context over, I/O error, corrupt
\* log, rejected batch.  The lock is released and this round's history is off.
InHistory(s) ==
    \/ pc[s] \in {"open", "collect", "save", "record", "read"}
    \/ pc[s] = "run" /\ ~MutexFree(s)

Fail(s) ==
    /\ InHistory(s) /\ (s \in Faulty \/ torn)
    /\ healthy' = [healthy EXCEPT ![s] = FALSE]
    /\ lock' = Released(s)
    /\ batch' = [batch EXCEPT ![s] = {}]
    /\ check' = [check EXCEPT ![s] = Started(s)]
    /\ pc' = [pc EXCEPT ![s] = IF @ \in {"record", "read"} THEN "done" ELSE "run"]
    /\ UNCHANGED <<clock, logVars, handle, fileVars, roundVars, view, now>>

\* The process dies.  The kernel releases its lock; a write may be torn.
Crash(s) ==
    /\ s \in Faulty /\ ~Over(s)
    /\ pc' = [pc EXCEPT ![s] = "crashed"]
    /\ lock' = Released(s)
    /\ torn' \in IF lock = s /\ batch[s] # {} THEN {torn, TRUE} ELSE {torn}
    /\ batch' = [batch EXCEPT ![s] = {}]
    /\ UNCHANGED <<clock, wal, first, handle, fileVars, check, roundVars, view,
                   now, healthy>>

\* Time passes.  A round outlives its saved inputs' age by MaxRound at most.
Tick ==
    /\ clock < MaxTime
    /\ \A s \in Session : (~Over(s) /\ inputsAt[s] # 0)
                             => clock < inputsAt[s] + MaxRound
    /\ clock' = clock + 1
    /\ UNCHANGED <<logVars, lock, handle, fileVars, pc, check, roundVars, view,
                   now, batch, healthy>>

-----------------------------------------------------------------------------
Init ==
    /\ clock = 1 /\ wal = <<>> /\ first = 1 /\ torn = FALSE
    /\ lock = NoSession /\ handle = [s \in Session |-> 0]
    /\ inputsAt = [s \in Session |-> 0] /\ outputsAt = [r \in Run |-> 0]
    /\ pc = [s \in Session |-> "open"]
    /\ check = [s \in Session |-> [t \in Task |->
           IF t \in Planned[s] THEN "todo" ELSE "recorded"]]
    /\ status = [s \in Session |-> [t \in Task |-> "none"]]
    /\ source = [s \in Session |-> [t \in Task |-> <<s, t>>]]
    /\ consistent = [s \in Session |-> FALSE]
    /\ view = [s \in Session |-> [lo |-> 1, hi |-> 0]]
    /\ now = [s \in Session |-> 1]
    /\ batch = [s \in Session |-> {}]
    /\ healthy = [s \in Session |-> TRUE]

\* Everything a round does by itself once it has begun.
Step(s) ==
    \/ Maintain(s) \/ MaintainDone(s) \/ SaveInputs(s) \/ NothingToRecord(s)
    \/ OpenLog(s) \/ WriteNext(s) \/ CloseLog(s) \/ ReadBack(s) \/ Fail(s)
    \/ \E x \in Session : CollectInputs(s, x)
    \/ \E r \in Run : CollectOutputs(s, r)
    \/ \E same \in BOOLEAN : Capture(s, same)
    \/ \E t \in Task :
         \/ Launch(s, t) \/ Collect(s, t)
         \/ \E st \in Status : Exit(s, t, st)
         \/ \E r \in Run : Reuse(s, t, r) \/ EvidenceMissing(s, t, r)

Next == Tick \/ \E s \in Session : Step(s) \/ Crash(s)

Spec == Init /\ [][Next]_vars

\* Time passes and a process keeps running: its lock waits end after 5 seconds
\* and its checks end by themselves or with the round's context.
FairSpec == Spec /\ WF_vars(Tick) /\ \A s \in Session : WF_vars(Step(s))

-----------------------------------------------------------------------------
CheckState == {"todo", "logging", "running", "exited", "reused", "recorded"}
Place == {"open", "collect", "save", "run", "record", "read", "done",
          "crashed"}

TypeOK ==
    /\ clock \in Nat \ {0}
    /\ wal \in Seq(Event) /\ first \in 1..(Len(wal) + 1) /\ torn \in BOOLEAN
    /\ lock \in Session \cup {NoSession} /\ handle \in [Session -> Nat]
    /\ inputsAt \in [Session -> Nat] /\ outputsAt \in [Run -> Nat]
    /\ pc \in [Session -> Place]
    /\ check \in [Session -> [Task -> CheckState]]
    /\ status \in [Session -> [Task -> Status \cup {"none"}]]
    /\ source \in [Session -> [Task -> Run]]
    /\ consistent \in [Session -> BOOLEAN]
    /\ view \in [Session -> [lo : Nat \ {0}, hi : Nat]]
    /\ now \in [Session -> Nat]
    /\ batch \in [Session -> SUBSET Event]
    /\ healthy \in [Session -> BOOLEAN]

\* Wherever retention cuts the log, what is left replays without an error:
\* whatever the sessions' interleaving and crashes, apply never meets a
\* duplicate start, a second or foreign completion, or a reuse of a Run that
\* was not a consistent success (record.go, apply; retention.go, TruncateFront).
Replayable == \A lo \in first..(Len(wal) + 1) : Replays(lo)

\* No batch a session has made is ever turned away by the validation Append
\* makes of it under the lock, although its events were decided on outside
\* it, against an older state (store.go, Append).
NoBatchRejected == \A s \in Session : (Appending(s) /\ Accessible) => Acceptable(s)

\* A round that ends without a history diagnostic has recorded the start and
\* the completion of each check it executed, unless retention has taken the
\* start away meanwhile, though its checks share one session, one mutex and
\* one batch (reuse.go, started and finish; store.go, the orphans of Append).
HealthyRoundRecorded ==
    \A s \in Session, t \in Task :
        (pc[s] = "done" /\ healthy[s] /\ status[s][t] # "none") =>
            /\ Live(<<s, t>>, 1, Len(wal))
            /\ Live(<<s, t>>, first, Len(wal)) =>
                 \E j \in Completions(<<s, t>>, first, Len(wal)) :
                    wal[j].status = status[s][t] /\ wal[j].consistent = consistent[s]

\* The evidence of every retained Run is on disk: its session's inputs record
\* and, once it is completed, its output.  Collection runs while other
\* sessions are between saving a file and logging the event that refers to it
\* (retention.go, Maintain; files.go).  This needs rounds no longer than any
\* retention window.
EvidencePresent ==
    \A i \in first..Len(wal) :
        /\ wal[i].type = "started" => inputsAt[wal[i].run[1]] # 0
        /\ (wal[i].type = "finished" /\ ~Orphan(wal[i], first, i - 1))
              => outputsAt[wal[i].run] # 0

\* Entries once written stay as they are, one record is added at a time and
\* what is forgotten is a prefix: no session writes over another's records
\* through a stale log handle (store.go, access: the lock covers
\* open/read/write/close).
OnlyAppended ==
    [][/\ first' >= first
       /\ \/ wal' = wal
          \/ Len(wal') = Len(wal) + 1 /\ SubSeq(wal', 1, Len(wal)) = wal]_vars

\* A round ends: nobody keeps the lock or the session's mutex to himself, not
\* even where an access fails or a process dies in it, and nobody waits for it for
\* ever (store.go, access; reuse.go, started).
RoundEnds == \A s \in Session : <>Over(s)

-----------------------------------------------------------------------------
\* What the store promises: RunLedger.tla.
Outcome == [status : Status \cup {"none"}, consistent : BOOLEAN]
NoOutcome == [status |-> "absent"]

Retained(r) == Live(r, first, Len(wal))
CompletedAt(r) == Completions(r, first, Len(wal))

LedgerPhase(r) ==
    CASE ~Live(r, 1, Len(wal)) -> "new"
      [] ~Retained(r) /\ Live(r, 1, Len(wal)) -> "expired"
      [] Retained(r) /\ CompletedAt(r) = {} -> "started"
      [] OTHER -> "finished"
LedgerOutcome(r) ==
    IF CompletedAt(r) = {} THEN NoOutcome
    ELSE LET j == CHOOSE j \in CompletedAt(r) : TRUE
         IN [status |-> wal[j].status, consistent |-> wal[j].consistent]
LedgerRank(r) ==
    IF CompletedAt(r) = {} THEN 0 ELSE CHOOSE j \in CompletedAt(r) : TRUE

Ledger == INSTANCE RunLedger WITH
    phase <- [r \in Run |-> LedgerPhase(r)],
    outcome <- [r \in Run |-> LedgerOutcome(r)],
    rank <- [r \in Run |-> LedgerRank(r)]

\* The sessions, locks, replays, truncations and crashes implement the simple
\* life of a Run: in particular an expired Run never comes back and a recorded
\* outcome never changes (record.go, apply; retention.go).
ImplementsLedger == Ledger!LedgerSpec
=============================================================================
