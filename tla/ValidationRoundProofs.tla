------------------------- MODULE ValidationRoundProofs -------------------------
(***************************************************************************)
(* Proofs about ValidationRound.tla, for any sessions, checks, files,      *)
(* contents, edits, workers and faults.                                    *)
(***************************************************************************)
EXTENDS ValidationRound, TLAPS, FiniteSetTheorems, SequenceTheorems, WellFoundedInduction

-----------------------------------------------------------------------------
(* The invariant.                                                          *)

Place == {"plan", "begin", "run", "record", "done"}
Status == Result \cup {"queued", "running"}
Completion == [task : Task, inputs : Tree, status : Status, consistent : BOOLEAN,
               by : Session]

TypeOK ==
    /\ tree \in Tree /\ edits \in Nat /\ log \in Seq(Completion)
    /\ pc \in [Session -> Place] /\ plan \in [Session -> Tree]
    /\ view \in [Session -> Nat]
    /\ healthy \in [Session -> BOOLEAN] /\ cancelled \in [Session -> BOOLEAN]
    /\ status \in [Session -> [Task -> Status]]
    /\ saw \in [Session -> [Task -> SUBSET Tree]]
    /\ entry \in [Session -> [Task -> Nat]]
    /\ report \in [Session -> [complete : BOOLEAN, passed : BOOLEAN, consistent : BOOLEAN]]
    /\ undone \in [Session -> SUBSET File]

\* How far a round has come: nothing is known of a check before a worker takes
\* it, nothing is reported before the workers are done, and what is reused was
\* not executed.
PlaceOK ==
    \A s \in Session :
        /\ view[s] <= Len(log)
        /\ pc[s] \in {"plan", "begin", "run"} => report[s] = NoReport
        /\ \A t \in Task :
             /\ pc[s] \in {"plan", "begin"} => status[s][t] = "queued"
             /\ status[s][t] \in {"queued", "unavailable"} => saw[s][t] = {} /\ entry[s][t] = 0
             /\ status[s][t] = "running" => entry[s][t] = 0 /\ saw[s][t] # {} /\ pc[s] = "run"
             /\ entry[s][t] # 0 => saw[s][t] = {} /\ entry[s][t] \in 1..view[s]

\* A file that a check of a running round has seen otherwise than planned is still
\* otherwise, or it was put back.
TreesOK ==
    \A s \in Session, t \in Task : pc[s] = "run" =>
        \A d \in saw[s][t], f \in File :
            d[f] # plan[s][f] => tree[f] # plan[s][f] \/ f \in undone[s]

\* A check that passed did so on contents it has seen, file by file.
VerdictOK ==
    \A s \in Session, t \in Task : (status[s][t] = "passed" /\ entry[s][t] = 0) =>
        \E c \in Seen(s, t) : Passes(t, c)

\* A verdict of a round whose last capture matched is one on the planned content,
\* unless one of the check's files was put back.
ReportOK ==
    \A s \in Session :
        /\ report[s].passed => report[s].consistent /\ AllPassed(s)
        /\ \A t \in Task :
              (/\ report[s].consistent /\ status[s][t] = "passed"
               /\ BinsManaged(t, plan[s]) /\ NothingUndone(s, t)) => Passes(t, plan[s])

\* So is every consistent success in the history, whose Bins had receipts.
Untouched(c) == undone[c.by] \cap InputsOf[c.task] = {}
LogOK ==
    \A i \in 1..Len(log) :
        (/\ log[i].status = "passed" /\ log[i].consistent
         /\ BinsManaged(log[i].task, log[i].inputs) /\ Untouched(log[i]))
            => Passes(log[i].task, log[i].inputs)

\* A check was executed because the latest match of its view is no success.
LaunchOK ==
    \A s \in Session, t \in Task :
        (t \in Executed(s) /\ s \notin Forced /\ healthy[s] /\ BinsManaged(t, plan[s])) =>
            \A i \in 1..view[s] : IsLatest(s, t, i) => log[i].status # "passed" \/ ~log[i].consistent

IInv ==
    /\ TypeOK /\ PlaceOK /\ TreesOK /\ VerdictOK /\ ReportOK /\ LogOK /\ LaunchOK
    /\ ReuseIsTrue

-----------------------------------------------------------------------------
(* What the steps do to the history and to the types.                      *)

\* What a round records goes behind what is there.
LEMMA RecordAppends ==
    ASSUME TypeOK, NEW s \in Session, Record(s), log' # log
    PROVE  \E n \in Nat : \E b \in [1..n -> Executed(s)] :
              /\ log' \in Seq(Completion) /\ Len(log') = Len(log) + n
              /\ \A i \in 1..Len(log) : log'[i] = log[i]
              /\ \A i \in 1..n : log'[Len(log) + i] = CompletionOf(s, b[i])
  <1> DEFINE n == Cardinality(Executed(s))
  <1>1. n \in Nat
    <2>1. Executed(s) \in SUBSET Task
      BY DEF Executed
    <2> QED
      BY <2>1, OrderAssumption, FS_Subset, FS_CardinalityType
  <1>2. PICK b \in Batch(s) : log' = log \o [i \in DOMAIN b |-> CompletionOf(s, b[i])]
    BY DEF Record
  <1>3. b \in [1..n -> Executed(s)]
    BY <1>2 DEF Batch
  <1> HIDE DEF n
  <1> DEFINE q == [i \in 1..n |-> CompletionOf(s, b[i])]
  <1>4. \A i \in 1..n : CompletionOf(s, b[i]) \in Completion
    BY <1>1, <1>3 DEF CompletionOf, Completion, Executed, TypeOK
  <1>5. q \in Seq(Completion) /\ Len(q) = n
    BY <1>1, <1>4
  <1>6. log' = log \o q /\ \A i \in 1..n : q[i] = CompletionOf(s, b[i])
    BY <1>2, <1>3
  <1> HIDE DEF q
  <1>7. log \in Seq(Completion)
    BY DEF TypeOK
  <1>8. log' \in Seq(Completion) /\ Len(log') = Len(log) + n
    BY <1>5, <1>6, <1>7, ConcatProperties
  <1>9. \A i \in 1..Len(log) : log'[i] = log[i]
    BY <1>5, <1>6, <1>7
  <1>10. \A i \in 1..n : log'[Len(log) + i] = q[i]
    BY <1>1, <1>5, <1>6, <1>7
  <1>11. \A i \in 1..n : log'[Len(log) + i] = CompletionOf(s, b[i])
    BY <1>6, <1>10
  <1> QED
    BY <1>1, <1>3, <1>8, <1>9, <1>11, Zenon

LEMMA InitType == Init => TypeOK
  <1> SUFFICES ASSUME Init PROVE TypeOK
    OBVIOUS
  <1>1. plan \in [Session -> Tree] /\ tree \in Tree
    BY DEF Init
  <1>2. /\ status \in [Session -> [Task -> Status]]
        /\ saw \in [Session -> [Task -> SUBSET Tree]]
        /\ entry \in [Session -> [Task -> Nat]]
    BY DEF Init, Status
  <1>3. report \in [Session -> [complete : BOOLEAN, passed : BOOLEAN, consistent : BOOLEAN]]
    BY DEF Init, NoReport
  <1> QED
    BY <1>1, <1>2, <1>3 DEF Init, TypeOK, Place

LEMMA StepType == TypeOK /\ [Next]_vars => TypeOK'
  <1> SUFFICES ASSUME TypeOK, [Next]_vars PROVE TypeOK'
    OBVIOUS
  <1>1. ASSUME NEW f \in File, NEW v \in ContentOf[f], Edit(f, v) PROVE TypeOK'
    <2>1. tree' \in Tree
      BY <1>1, FilesAssumption DEF Edit, TypeOK, Tree
    <2>2. saw' \in [Session -> [Task -> SUBSET Tree]]
      <3> SUFFICES ASSUME NEW s \in Session, NEW t \in Task
                   PROVE  (IF status[s][t] = "running" THEN saw[s][t] \cup {tree'}
                           ELSE saw[s][t]) \in SUBSET Tree
        BY <1>1 DEF Edit
      <3> QED
        BY <2>1 DEF TypeOK
    <2>3. undone' \in [Session -> SUBSET File]
      <3>1. \A s \in Session : undone[s] \cup {f} \in SUBSET File /\ undone[s] \in SUBSET File
        BY DEF TypeOK
      <3> QED
        BY <1>1, <3>1 DEF Edit
    <2> QED
      BY <1>1, <2>1, <2>2, <2>3 DEF Edit, TypeOK
  <1>2. ASSUME NEW s \in Session, Cancel(s) PROVE TypeOK'
    BY <1>2 DEF Cancel, TypeOK
  <1>3. ASSUME NEW s \in Session, PlanRound(s) PROVE TypeOK'
    BY <1>3 DEF PlanRound, TypeOK, Place
  <1>4. ASSUME NEW s \in Session, BeginRound(s) PROVE TypeOK'
    <2>1. PICK ok \in BOOLEAN : healthy' = [healthy EXCEPT ![s] = ok]
      BY <1>4 DEF BeginRound
    <2>2. healthy' \in [Session -> BOOLEAN]
      BY <2>1 DEF TypeOK
    <2>3. Len(log) \in Nat
      BY DEF TypeOK
    <2> QED
      BY <1>4, <2>2, <2>3 DEF BeginRound, Snapshot, TypeOK, Place
  <1>5. ASSUME NEW s \in Session, RefuseRound(s) PROVE TypeOK'
    BY <1>5 DEF RefuseRound, TypeOK, Place
  <1>6. ASSUME NEW s \in Session, NEW t \in Task, NEW i \in 1..view[s], Reuse(s, t, i)
        PROVE  TypeOK'
    <2>1. i \in Nat
      BY DEF TypeOK
    <2> QED
      BY <1>6, <2>1 DEF Reuse, TypeOK, Status, Result
  <1>7. ASSUME NEW s \in Session, NEW t \in Task, LookupFails(s, t) PROVE TypeOK'
    BY <1>7 DEF LookupFails, TypeOK
  <1>8. ASSUME NEW s \in Session, NEW t \in Task, Launch(s, t) PROVE TypeOK'
    <2>1. PICK st \in Status : status' = [status EXCEPT ![s][t] = st]
      BY <1>8 DEF Launch, Status, Result
    <2>2. PICK d \in SUBSET Tree : saw' = [saw EXCEPT ![s][t] = d]
      <3>1. {tree} \in SUBSET Tree
        BY DEF TypeOK
      <3>2. saw[s][t] \in SUBSET Tree /\ saw = [saw EXCEPT ![s][t] = saw[s][t]]
        BY DEF TypeOK
      <3> QED
        BY <1>8, <3>1, <3>2, Zenon DEF Launch
    <2>3. status' \in [Session -> [Task -> Status]]
      BY <2>1 DEF TypeOK
    <2>4. saw' \in [Session -> [Task -> SUBSET Tree]]
      BY <2>2 DEF TypeOK
    <2> QED
      BY <1>8, <2>3, <2>4 DEF Launch, TypeOK
  <1>9. ASSUME NEW s \in Session, NEW t \in Task, ReportUnavailable(s, t) PROVE TypeOK'
    BY <1>9 DEF ReportUnavailable, TypeOK, Status, Result
  <1>10. ASSUME NEW s \in Session, NEW t \in Task, Exit(s, t) PROVE TypeOK'
    <2>1. Outcomes(s, t) \subseteq Status
      BY DEF Outcomes, Verdicts, Status, Result
    <2> QED
      BY <1>10, <2>1 DEF Exit, TypeOK
  <1>11. ASSUME NEW s \in Session, Conclude(s) PROVE TypeOK'
    <2>1. /\ AllTerminal(s) \in BOOLEAN /\ (AllPassed(s) /\ StillConsistent(s)) \in BOOLEAN
          /\ StillConsistent(s) \in BOOLEAN
      BY DEF AllTerminal, AllPassed, StillConsistent
    <2> QED
      BY <1>11, <2>1 DEF Conclude, TypeOK, Place
  <1>12. ASSUME NEW s \in Session, Record(s) PROVE TypeOK'
    <2>1. log' \in Seq(Completion)
      BY <1>12, RecordAppends DEF TypeOK
    <2> QED
      BY <1>12, <2>1 DEF Record, TypeOK, Place
  <1>13. CASE UNCHANGED vars
    BY <1>13 DEF vars, TypeOK
  <1> QED
    BY <1>1, <1>2, <1>3, <1>4, <1>5, <1>6, <1>7, <1>8, <1>9, <1>10, <1>11, <1>12, <1>13
    DEF Next, Step

\* The history only grows.
LEMMA LogGrows ==
    ASSUME TypeOK, [Next]_vars
    PROVE  Len(log) <= Len(log') /\ \A i \in 1..Len(log) : log'[i] = log[i]
  <1>1. log \in Seq(Completion)
    BY DEF TypeOK
  <1>2. CASE log' = log
    BY <1>1, <1>2
  <1>3. log' = log \/ \E s \in Session : Record(s)
    <2>1. ASSUME NEW s \in Session, Step(s) PROVE log' = log \/ Record(s)
      BY <2>1 DEF Step, PlanRound, BeginRound, RefuseRound, Reuse, LookupFails, Launch,
         ReportUnavailable, Exit, Conclude
    <2> QED
      BY <2>1 DEF Next, vars, Edit, Cancel
  <1>4. ASSUME NEW s \in Session, Record(s), log' # log
        PROVE  Len(log) <= Len(log') /\ \A i \in 1..Len(log) : log'[i] = log[i]
    BY <1>1, <1>4, RecordAppends
  <1> QED
    BY <1>2, <1>3, <1>4

\* What was put back during a round stays noted, and the evidence for a result
\* stays where it is.
LEMMA UndoneGrows ==
    ASSUME TypeOK, PlaceOK, [Next]_vars
    PROVE  /\ \A u \in Session : undone[u] \subseteq undone'[u]
           /\ \A s \in Session, t \in Task :
                 entry'[s][t] = entry[s][t] /\ NothingUndone(s, t)' => NothingUndone(s, t)
  <1>1. \A u \in Session : undone[u] \subseteq undone'[u]
    <2>1. CASE undone' = undone
      BY <2>1
    <2>2. CASE undone' # undone
      <3>1. ASSUME NEW s \in Session, Step(s) PROVE undone' = undone
        BY <3>1 DEF Step, PlanRound, BeginRound, RefuseRound, Reuse, LookupFails, Launch,
           ReportUnavailable, Exit, Conclude, Record
      <3>2. PICK f \in File : \E v \in ContentOf[f] : Edit(f, v)
        BY <2>2, <3>1 DEF Next, vars, Cancel
      <3> QED
        BY <3>2 DEF Edit
    <2> QED
      BY <2>1, <2>2
  <1>2. ASSUME NEW s \in Session, NEW t \in Task, entry'[s][t] = entry[s][t],
               NothingUndone(s, t)'
        PROVE  NothingUndone(s, t)
    <2>1. Witness(s, t)' = Witness(s, t) /\ Witness(s, t) \in Session
      <3>1. CASE entry[s][t] = 0
        BY <1>2, <3>1 DEF Witness
      <3>2. CASE entry[s][t] # 0
        <4>1. entry[s][t] \in 1..Len(log)
          BY <3>2 DEF PlaceOK, TypeOK
        <4>2. log[entry[s][t]] \in Completion /\ log'[entry[s][t]] = log[entry[s][t]]
          BY <4>1, LogGrows DEF TypeOK
        <4> QED
          BY <1>2, <3>2, <4>2 DEF Witness, Completion
      <3> QED
        BY <3>1, <3>2
    <2>2. undone'[Witness(s, t)] \cap InputsOf[t] = {}
      BY <1>2, <2>1 DEF NothingUndone
    <2> QED
      BY <1>1, <2>1, <2>2 DEF NothingUndone
  <1> QED
    BY <1>1, <1>2

\* A worker that takes a check starts it on what is on disk, or gives it up.
LEMMA Launches ==
    ASSUME TypeOK, NEW s \in Session, NEW t \in Task, Launch(s, t)
    PROVE  /\ pc[s] = "run" /\ status[s][t] = "queued"
           /\ UNCHANGED <<tree, edits, log, pc, plan, view, healthy, cancelled, entry, report,
                          undone>>
           /\ \A u \in Session, k \in Task : (u # s \/ k # t) =>
                 status'[u][k] = status[u][k] /\ saw'[u][k] = saw[u][k]
           /\ \/ status'[s][t] = "cancelled" /\ saw'[s][t] = saw[s][t]
              \/ status'[s][t] = "running" /\ saw'[s][t] = {tree}
  <1>1. CASE cancelled[s]
    <2>1. status' = [status EXCEPT ![s][t] = "cancelled"] /\ saw' = saw
      BY <1>1 DEF Launch
    <2> QED
      BY <2>1 DEF Launch, WorkerTakes, TypeOK
  <1>2. CASE ~cancelled[s]
    <2>1. status' = [status EXCEPT ![s][t] = "running"] /\ saw' = [saw EXCEPT ![s][t] = {tree}]
      BY <1>2 DEF Launch
    <2>2. \A u \in Session, k \in Task : (u # s \/ k # t) =>
             status'[u][k] = status[u][k] /\ saw'[u][k] = saw[u][k]
      BY <2>1 DEF TypeOK
    <2>3. status'[s][t] = "running" /\ saw'[s][t] = {tree}
      BY <2>1 DEF TypeOK
    <2> QED
      BY <2>2, <2>3 DEF Launch, WorkerTakes
  <1> QED
    BY <1>1, <1>2

\* A capture tells the contents of a file, if it is no Bin without a receipt.
LEMMA ObservedTells ==
    ASSUME NEW c \in Tree, NEW d \in Tree, NEW f \in File,
           Observed(c)[f] = Observed(d)[f], f \in Bin => d[f] \notin Unmanaged
    PROVE  c[f] = d[f]
  <1>1. Observed(d)[f] = {d[f]}
    BY DEF Observed
  <1>2. Observed(c)[f] = {} \/ Observed(c)[f] = {c[f]}
    BY DEF Observed
  <1> QED
    BY <1>1, <1>2

\* A check passes on contents that look like those it passes on.
LEMMA SamePasses ==
    ASSUME NEW t \in Task, NEW c \in Tree, NEW d \in Tree, Passes(t, c),
           \A f \in InputsOf[t] \ VersionFile : c[f] = d[f]
    PROVE  Passes(t, d)
  BY InputsAssumption DEF Tree

\* When the last capture matches, a check that passed has seen what was planned,
\* if none of its files was put back.
LEMMA SeenIsPlanned ==
    ASSUME TypeOK, TreesOK, NEW s \in Session, NEW t \in Task, pc[s] = "run",
           CaptureMatches(s), BinsManaged(t, plan[s]), undone[s] \cap InputsOf[t] = {},
           NEW c \in Seen(s, t), Passes(t, c)
    PROVE  Passes(t, plan[s])
  <1>1. tree \in Tree /\ plan[s] \in Tree /\ c \in Tree
    BY DEF TypeOK, Seen
  <1>2. InputsOf[t] \subseteq File
    BY FilesAssumption
  <1>3. ASSUME NEW f \in InputsOf[t] PROVE c[f] = plan[s][f]
    <2>1. f \in File
      BY <1>2
    <2>2. f \in Bin => plan[s][f] \notin Unmanaged
      BY DEF BinsManaged
    <2>3. Observed(tree)[f] = Observed(plan[s])[f]
      BY DEF CaptureMatches
    <2>4. tree[f] = plan[s][f]
      BY <1>1, <2>1, <2>2, <2>3, ObservedTells
    <2>5. PICK d \in saw[s][t] : c[f] = d[f]
      BY <2>1 DEF Seen
    <2> QED
      BY <2>1, <2>4, <2>5 DEF TreesOK
  <1> QED
    BY <1>1, <1>3, SamePasses

\* Rounds go through their places in order.
LEMMA StepPlace ==
    ASSUME TypeOK, TypeOK', PlaceOK, [Next]_vars PROVE  PlaceOK'
  <1>1. ASSUME NEW f \in File, NEW v \in ContentOf[f], Edit(f, v) PROVE PlaceOK'
    BY <1>1 DEF Edit, PlaceOK, TypeOK
  <1>2. ASSUME NEW s \in Session, Cancel(s) PROVE PlaceOK'
    BY <1>2 DEF Cancel, PlaceOK, TypeOK
  <1>3. ASSUME NEW s \in Session, PlanRound(s) PROVE PlaceOK'
    BY <1>3 DEF PlanRound, PlaceOK, TypeOK
  <1>4. ASSUME NEW s \in Session, BeginRound(s) PROVE PlaceOK'
    BY <1>4 DEF BeginRound, PlaceOK, TypeOK, Snapshot
  <1>5. ASSUME NEW s \in Session, RefuseRound(s) PROVE PlaceOK'
    BY <1>5 DEF RefuseRound, PlaceOK, TypeOK
  <1>6. ASSUME NEW s \in Session, NEW t \in Task, NEW i \in 1..view[s], Reuse(s, t, i)
        PROVE  PlaceOK'
    BY <1>6 DEF Reuse, PlaceOK, TypeOK, WorkerTakes, NoReport
  <1>7. ASSUME NEW s \in Session, NEW t \in Task, LookupFails(s, t) PROVE PlaceOK'
    BY <1>7 DEF LookupFails, PlaceOK, TypeOK, WorkerTakes, NoReport
  <1>8. ASSUME NEW s \in Session, NEW t \in Task, Launch(s, t) PROVE PlaceOK'
    <2>1. /\ pc[s] = "run" /\ status[s][t] = "queued"
          /\ UNCHANGED <<log, pc, view, entry, report>>
          /\ \A u \in Session, k \in Task : (u # s \/ k # t) =>
                status'[u][k] = status[u][k] /\ saw'[u][k] = saw[u][k]
          /\ \/ status'[s][t] = "cancelled" /\ saw'[s][t] = saw[s][t]
             \/ status'[s][t] = "running" /\ saw'[s][t] # {}
      BY <1>8, Launches
    <2> QED
      BY <2>1 DEF PlaceOK
  <1>9. ASSUME NEW s \in Session, NEW t \in Task, ReportUnavailable(s, t) PROVE PlaceOK'
    BY <1>9 DEF ReportUnavailable, PlaceOK, TypeOK, WorkerTakes, NoReport
  <1>10. ASSUME NEW s \in Session, NEW t \in Task, Exit(s, t) PROVE PlaceOK'
    <2>1. PICK st \in Outcomes(s, t) : status' = [status EXCEPT ![s][t] = st]
      BY <1>10 DEF Exit
    <2>2. st \notin {"queued", "running", "unavailable"}
      BY <2>1 DEF Outcomes, Verdicts
    <2> QED
      BY <1>10, <2>1, <2>2 DEF Exit, PlaceOK, TypeOK
  <1>11. ASSUME NEW s \in Session, Conclude(s) PROVE PlaceOK'
    <2>1. PICK r : report' = [report EXCEPT ![s] = r]
      BY <1>11 DEF Conclude
    <2>2. \A u \in Session \ {s} : report'[u] = report[u]
      BY <2>1 DEF TypeOK
    <2>3. /\ pc' = [pc EXCEPT ![s] = "record"] /\ \A t \in Task : status[s][t] # "running"
          /\ UNCHANGED <<log, view, status, saw, entry>> /\ pc[s] = "run"
      BY <1>11 DEF Conclude, Result
    <2> QED
      BY <2>2, <2>3 DEF PlaceOK, TypeOK
  <1>12. ASSUME NEW s \in Session, Record(s) PROVE PlaceOK'
    <2>1. Len(log) <= Len(log') /\ Len(log) \in Nat /\ Len(log') \in Nat
      BY LogGrows DEF TypeOK
    <2> QED
      BY <1>12, <2>1 DEF Record, PlaceOK, TypeOK
  <1>13. CASE UNCHANGED vars
    BY <1>13 DEF vars, PlaceOK, TypeOK
  <1> QED
    BY <1>1, <1>2, <1>3, <1>4, <1>5, <1>6, <1>7, <1>8, <1>9, <1>10, <1>11, <1>12, <1>13 DEF Next, Step

\* While a round runs, an edit that puts back what it was planned on is noted.
LEMMA StepTrees ==
    ASSUME TypeOK, TypeOK', PlaceOK, TreesOK, [Next]_vars PROVE  TreesOK'
  <1>1. ASSUME NEW f \in File, NEW v \in ContentOf[f], Edit(f, v) PROVE TreesOK'
    <2> SUFFICES ASSUME NEW s \in Session, NEW t \in Task, pc[s] = "run",
                        NEW d \in saw'[s][t], NEW g \in File, d[g] # plan[s][g]
                 PROVE  tree'[g] # plan[s][g] \/ g \in undone'[s]
      BY <1>1 DEF Edit, TreesOK
    <2>1. d \in saw[s][t] \/ d = tree'
      BY <1>1 DEF Edit
    <2>2. tree' = [tree EXCEPT ![f] = v] /\ tree'[f] = v
      BY <1>1 DEF Edit, TypeOK, Tree
    <2>3. v = plan[s][f] => f \in undone'[s]
      BY <1>1 DEF Edit, Undoes, TypeOK
    <2>4. undone[s] \subseteq undone'[s]
      BY <1>1 DEF Edit
    <2>5. CASE g = f
      BY <2>2, <2>3, <2>5
    <2>6. CASE g # f
      <3>1. tree'[g] = tree[g]
        BY <2>2, <2>6 DEF TypeOK, Tree
      <3> QED
        BY <2>1, <2>4, <3>1 DEF TreesOK
    <2> QED
      BY <2>5, <2>6
  <1>2. ASSUME NEW s \in Session, Cancel(s) PROVE TreesOK'
    BY <1>2 DEF Cancel, TreesOK, TypeOK
  <1>3. ASSUME NEW s \in Session, PlanRound(s) PROVE TreesOK'
    BY <1>3 DEF PlanRound, TreesOK, TypeOK
  <1>4. ASSUME NEW s \in Session, BeginRound(s) PROVE TreesOK'
    BY <1>4 DEF BeginRound, TreesOK, TypeOK, PlaceOK
  <1>5. ASSUME NEW s \in Session, RefuseRound(s) PROVE TreesOK'
    BY <1>5 DEF RefuseRound, TreesOK, TypeOK
  <1>6. ASSUME NEW s \in Session, NEW t \in Task, NEW i \in 1..view[s], Reuse(s, t, i)
        PROVE  TreesOK'
    BY <1>6 DEF Reuse, TreesOK, TypeOK
  <1>7. ASSUME NEW s \in Session, NEW t \in Task, LookupFails(s, t) PROVE TreesOK'
    BY <1>7 DEF LookupFails, TreesOK, TypeOK
  <1>8. ASSUME NEW s \in Session, NEW t \in Task, Launch(s, t) PROVE TreesOK'
    <2>1. /\ UNCHANGED <<tree, pc, plan, undone>>
          /\ \A u \in Session, k \in Task : \A d \in saw'[u][k] : d \in saw[u][k] \/ d = tree
      BY <1>8, Launches
    <2> QED
      BY <2>1 DEF TreesOK
  <1>9. ASSUME NEW s \in Session, NEW t \in Task, ReportUnavailable(s, t) PROVE TreesOK'
    BY <1>9 DEF ReportUnavailable, TreesOK, TypeOK
  <1>10. ASSUME NEW s \in Session, NEW t \in Task, Exit(s, t) PROVE TreesOK'
    BY <1>10 DEF Exit, TreesOK, TypeOK
  <1>11. ASSUME NEW s \in Session, Conclude(s) PROVE TreesOK'
    BY <1>11 DEF Conclude, TreesOK, TypeOK
  <1>12. ASSUME NEW s \in Session, Record(s) PROVE TreesOK'
    BY <1>12 DEF Record, TreesOK, TypeOK
  <1>13. CASE UNCHANGED vars
    BY <1>13 DEF vars, TreesOK, TypeOK
  <1> QED
    BY <1>1, <1>2, <1>3, <1>4, <1>5, <1>6, <1>7, <1>8, <1>9, <1>10, <1>11, <1>12, <1>13 DEF Next, Step

\* What a check that passed has seen stays what it has seen.
LEMMA StepVerdict ==
    ASSUME TypeOK, TypeOK', VerdictOK, [Next]_vars PROVE  VerdictOK'
  <1>1. ASSUME NEW f \in File, NEW v \in ContentOf[f], Edit(f, v) PROVE VerdictOK'
    BY <1>1 DEF Edit, VerdictOK, TypeOK, Seen
  <1>2. ASSUME NEW s \in Session, Cancel(s) PROVE VerdictOK'
    BY <1>2 DEF Cancel, VerdictOK, TypeOK, Seen
  <1>3. ASSUME NEW s \in Session, PlanRound(s) PROVE VerdictOK'
    BY <1>3 DEF PlanRound, VerdictOK, TypeOK, Seen
  <1>4. ASSUME NEW s \in Session, BeginRound(s) PROVE VerdictOK'
    BY <1>4 DEF BeginRound, VerdictOK, TypeOK, Seen
  <1>5. ASSUME NEW s \in Session, RefuseRound(s) PROVE VerdictOK'
    BY <1>5 DEF RefuseRound, VerdictOK, TypeOK, Seen
  <1>6. ASSUME NEW s \in Session, NEW t \in Task, NEW i \in 1..view[s], Reuse(s, t, i)
        PROVE  VerdictOK'
    BY <1>6 DEF Reuse, VerdictOK, TypeOK, Seen
  <1>7. ASSUME NEW s \in Session, NEW t \in Task, LookupFails(s, t) PROVE VerdictOK'
    BY <1>7 DEF LookupFails, VerdictOK, TypeOK, Seen
  <1>8. ASSUME NEW s \in Session, NEW t \in Task, Launch(s, t) PROVE VerdictOK'
    BY <1>8, Launches DEF VerdictOK, Seen
  <1>9. ASSUME NEW s \in Session, NEW t \in Task, ReportUnavailable(s, t) PROVE VerdictOK'
    BY <1>9 DEF ReportUnavailable, VerdictOK, TypeOK, Seen
  <1>10. ASSUME NEW s \in Session, NEW t \in Task, Exit(s, t) PROVE VerdictOK'
    <2>1. PICK st \in Outcomes(s, t) : status' = [status EXCEPT ![s][t] = st]
      BY <1>10 DEF Exit
    <2>2. UNCHANGED <<saw, entry>>
      BY <1>10 DEF Exit
    <2>3. st = "passed" => \E c \in Seen(s, t) : Passes(t, c)
      BY <2>1 DEF Outcomes, Verdicts
    <2> QED
      BY <2>1, <2>2, <2>3 DEF VerdictOK, TypeOK, Seen
  <1>11. ASSUME NEW s \in Session, Conclude(s) PROVE VerdictOK'
    BY <1>11 DEF Conclude, VerdictOK, TypeOK, Seen
  <1>12. ASSUME NEW s \in Session, Record(s) PROVE VerdictOK'
    BY <1>12 DEF Record, VerdictOK, TypeOK, Seen
  <1>13. CASE UNCHANGED vars
    BY <1>13 DEF vars, VerdictOK, TypeOK, Seen, Seen
  <1> QED
    BY <1>1, <1>2, <1>3, <1>4, <1>5, <1>6, <1>7, <1>8, <1>9, <1>10, <1>11, <1>12, <1>13 DEF Next, Step

\* The verdict of a round is true of the content it was planned on.
LEMMA StepReport ==
    ASSUME TypeOK, TypeOK', PlaceOK, TreesOK, VerdictOK, ReuseIsTrue, ReportOK,
           [Next]_vars
    PROVE  ReportOK'
  <1>0. \A s \in Session, t \in Task :
           entry'[s][t] = entry[s][t] /\ NothingUndone(s, t)' => NothingUndone(s, t)
    BY UndoneGrows
  <1>1. ASSUME NEW f \in File, NEW v \in ContentOf[f], Edit(f, v) PROVE ReportOK'
    BY <1>0, <1>1 DEF Edit, ReportOK, AllPassed, BinsManaged
  <1>2. ASSUME NEW s \in Session, Cancel(s) PROVE ReportOK'
    BY <1>0, <1>2 DEF Cancel, ReportOK, AllPassed, BinsManaged
  <1>3. ASSUME NEW s \in Session, PlanRound(s) PROVE ReportOK'
    <2>1. report[s] = NoReport /\ UNCHANGED <<report, status, entry>>
          /\ \A u \in Session \ {s} : plan'[u] = plan[u]
      BY <1>3 DEF PlanRound, PlaceOK, TypeOK
    <2> QED
      BY <1>0, <2>1 DEF ReportOK, NoReport, AllPassed, BinsManaged
  <1>4. ASSUME NEW s \in Session, BeginRound(s) PROVE ReportOK'
    BY <1>0, <1>4 DEF BeginRound, ReportOK, AllPassed, BinsManaged
  <1>5. ASSUME NEW s \in Session, RefuseRound(s) PROVE ReportOK'
    BY <1>0, <1>5 DEF RefuseRound, ReportOK, AllPassed, BinsManaged
  <1>6. ASSUME NEW s \in Session, NEW t \in Task, NEW i \in 1..view[s], Reuse(s, t, i)
        PROVE  ReportOK'
    <2>1. report[s] = NoReport /\ UNCHANGED <<report, plan>>
          /\ \A u \in Session \ {s} : status'[u] = status[u] /\ entry'[u] = entry[u]
      BY <1>6 DEF Reuse, WorkerTakes, PlaceOK, TypeOK
    <2> QED
      BY <1>0, <2>1 DEF ReportOK, NoReport, AllPassed, BinsManaged
  <1>7. ASSUME NEW s \in Session, NEW t \in Task, LookupFails(s, t) PROVE ReportOK'
    BY <1>0, <1>7 DEF LookupFails, ReportOK, AllPassed, BinsManaged
  <1>8. ASSUME NEW s \in Session, NEW t \in Task, Launch(s, t) PROVE ReportOK'
    <2>1. report[s] = NoReport /\ UNCHANGED <<report, plan, entry>>
      BY <1>8, Launches DEF PlaceOK
    <2>2. \A u \in Session \ {s}, k \in Task : status'[u][k] = status[u][k]
      BY <1>8, Launches
    <2> QED
      BY <1>0, <2>1, <2>2 DEF ReportOK, NoReport, AllPassed, BinsManaged
  <1>9. ASSUME NEW s \in Session, NEW t \in Task, ReportUnavailable(s, t) PROVE ReportOK'
    <2>1. report[s] = NoReport /\ UNCHANGED <<report, plan, entry>>
          /\ \A u \in Session \ {s} : status'[u] = status[u]
      BY <1>9 DEF ReportUnavailable, WorkerTakes, PlaceOK, TypeOK
    <2> QED
      BY <1>0, <2>1 DEF ReportOK, NoReport, AllPassed, BinsManaged
  <1>10. ASSUME NEW s \in Session, NEW t \in Task, Exit(s, t) PROVE ReportOK'
    <2>1. report[s] = NoReport /\ UNCHANGED <<report, plan, entry>>
          /\ \A u \in Session \ {s} : status'[u] = status[u]
      BY <1>10 DEF Exit, PlaceOK, TypeOK
    <2> QED
      BY <1>0, <2>1 DEF ReportOK, NoReport, AllPassed, BinsManaged
  <1>11. ASSUME NEW s \in Session, Conclude(s) PROVE ReportOK'
    <2>1. pc[s] = "run" /\ UNCHANGED <<plan, status, entry>>
      BY <1>11 DEF Conclude
    <2>2. \A u \in Session \ {s} : report'[u] = report[u]
      BY <1>11 DEF Conclude, TypeOK
    <2>3. /\ report'[s].passed = (AllPassed(s) /\ StillConsistent(s))
          /\ report'[s].consistent = StillConsistent(s)
      BY <1>11 DEF Conclude, TypeOK
    <2>4. ASSUME NEW t \in Task, StillConsistent(s), status[s][t] = "passed",
                 BinsManaged(t, plan[s]), NothingUndone(s, t)
          PROVE  Passes(t, plan[s])
      <3>1. CASE entry[s][t] # 0
        BY <2>4, <3>1 DEF ReuseIsTrue
      <3>2. CASE entry[s][t] = 0
        <4>1. undone[s] \cap InputsOf[t] = {}
          BY <2>4, <3>2 DEF NothingUndone, Witness
        <4> QED
          BY <2>1, <2>4, <3>2, <4>1, SeenIsPlanned DEF VerdictOK, StillConsistent
      <3> QED
        BY <3>1, <3>2
    <2> QED
      BY <1>0, <2>1, <2>2, <2>3, <2>4 DEF ReportOK, AllPassed, BinsManaged
  <1>12. ASSUME NEW s \in Session, Record(s) PROVE ReportOK'
    BY <1>0, <1>12 DEF Record, ReportOK, AllPassed, BinsManaged
  <1>13. CASE UNCHANGED vars
    BY <1>0, <1>13 DEF vars, ReportOK, AllPassed, BinsManaged, AllPassed, BinsManaged
  <1> QED
    BY <1>1, <1>2, <1>3, <1>4, <1>5, <1>6, <1>7, <1>8, <1>9, <1>10, <1>11, <1>12, <1>13 DEF Next, Step

\* The history keeps consistent successes only of content that passes.
LEMMA StepLog ==
    ASSUME TypeOK, TypeOK', PlaceOK, ReportOK, LogOK, [Next]_vars PROVE  LogOK'
  <1>1. ASSUME NEW f \in File, NEW v \in ContentOf[f], Edit(f, v) PROVE LogOK'
    <2>1. log' = log /\ \A i \in 1..Len(log) : log[i] \in Completion
      BY <1>1 DEF Edit, TypeOK
    <2>2. \A i \in 1..Len(log) : Untouched(log[i])' => Untouched(log[i])
      BY <2>1, UndoneGrows DEF Untouched, Completion
    <2> QED
      BY <2>1, <2>2 DEF LogOK, BinsManaged
  <1>2. ASSUME NEW s \in Session, Cancel(s) PROVE LogOK'
    BY <1>2 DEF Cancel, LogOK, BinsManaged, Untouched
  <1>3. ASSUME NEW s \in Session, PlanRound(s) PROVE LogOK'
    BY <1>3 DEF PlanRound, LogOK, BinsManaged, Untouched
  <1>4. ASSUME NEW s \in Session, BeginRound(s) PROVE LogOK'
    BY <1>4 DEF BeginRound, LogOK, BinsManaged, Untouched
  <1>5. ASSUME NEW s \in Session, RefuseRound(s) PROVE LogOK'
    BY <1>5 DEF RefuseRound, LogOK, BinsManaged, Untouched
  <1>6. ASSUME NEW s \in Session, NEW t \in Task, NEW i \in 1..view[s], Reuse(s, t, i)
        PROVE  LogOK'
    BY <1>6 DEF Reuse, LogOK, BinsManaged, Untouched
  <1>7. ASSUME NEW s \in Session, NEW t \in Task, LookupFails(s, t) PROVE LogOK'
    BY <1>7 DEF LookupFails, LogOK, BinsManaged, Untouched
  <1>8. ASSUME NEW s \in Session, NEW t \in Task, Launch(s, t) PROVE LogOK'
    BY <1>8 DEF Launch, LogOK, BinsManaged, Untouched
  <1>9. ASSUME NEW s \in Session, NEW t \in Task, ReportUnavailable(s, t) PROVE LogOK'
    BY <1>9 DEF ReportUnavailable, LogOK, BinsManaged, Untouched
  <1>10. ASSUME NEW s \in Session, NEW t \in Task, Exit(s, t) PROVE LogOK'
    BY <1>10 DEF Exit, LogOK, BinsManaged, Untouched
  <1>11. ASSUME NEW s \in Session, Conclude(s) PROVE LogOK'
    BY <1>11 DEF Conclude, LogOK, BinsManaged, Untouched
  <1>12. ASSUME NEW s \in Session, Record(s) PROVE LogOK'
    <2>0. undone' = undone
      BY <1>12 DEF Record
    <2>1. CASE log' = log
      BY <2>0, <2>1 DEF LogOK, BinsManaged, Untouched
    <2>2. CASE log' # log
      <3>0. PICK n \in Nat : \E b \in [1..n -> Executed(s)] :
                /\ Len(log') = Len(log) + n
                /\ \A i \in 1..Len(log) : log'[i] = log[i]
                /\ \A i \in 1..n : log'[Len(log) + i] = CompletionOf(s, b[i])
        BY <1>12, <2>2, RecordAppends
      <3>1. PICK b \in [1..n -> Executed(s)] :
                /\ Len(log') = Len(log) + n
                /\ \A i \in 1..Len(log) : log'[i] = log[i]
                /\ \A i \in 1..n : log'[Len(log) + i] = CompletionOf(s, b[i])
        BY <3>0
      <3> DEFINE True(c) == (/\ c.status = "passed" /\ c.consistent
                            /\ BinsManaged(c.task, c.inputs) /\ Untouched(c))
                               => Passes(c.task, c.inputs)
      <3>2. \A t \in Executed(s) : True(CompletionOf(s, t))
        BY DEF CompletionOf, ReportOK, Untouched, NothingUndone, Witness, PlaceOK, Executed
      <3>3. \A i \in 1..n : b[i] \in Executed(s)
        BY <3>1
      <3>4. \A i \in 1..Len(log) : True(log[i])
        BY DEF LogOK
      <3>5. Len(log) \in Nat
        BY DEF TypeOK
      <3> HIDE DEF True
      <3>6. \A i \in 1..Len(log') : True(log'[i])
        <4> SUFFICES ASSUME NEW i \in 1..Len(log') PROVE True(log'[i])
          OBVIOUS
        <4>1. CASE i \in 1..Len(log)
          BY <3>1, <3>4, <4>1
        <4>2. CASE i \notin 1..Len(log)
          <5>1. i - Len(log) \in 1..n /\ Len(log) + (i - Len(log)) = i
            BY <3>1, <3>5, <4>2
          <5>2. log'[i] = CompletionOf(s, b[i - Len(log)])
            BY <3>1, <5>1
          <5> QED
            BY <3>2, <3>3, <5>1, <5>2
        <4> QED
          BY <4>1, <4>2
      <3> QED
        BY <2>0, <3>6 DEF True, LogOK, BinsManaged, Untouched
    <2> QED
      BY <2>1, <2>2
  <1>13. CASE UNCHANGED vars
    BY <1>13 DEF vars, LogOK, BinsManaged, Untouched
  <1> QED
    BY <1>1, <1>2, <1>3, <1>4, <1>5, <1>6, <1>7, <1>8, <1>9, <1>10, <1>11, <1>12, <1>13 DEF Next, Step

\* What is reused passes on the content of the round that reuses it.
LEMMA StepReuse ==
    ASSUME TypeOK, TypeOK', PlaceOK, LogOK, ReuseIsTrue, [Next]_vars
    PROVE  ReuseIsTrue'
  <1>0. \A s \in Session, t \in Task :
           entry'[s][t] = entry[s][t] /\ NothingUndone(s, t)' => NothingUndone(s, t)
    BY UndoneGrows
  <1>1. ASSUME NEW f \in File, NEW v \in ContentOf[f], Edit(f, v) PROVE ReuseIsTrue'
    BY <1>0, <1>1 DEF Edit, ReuseIsTrue
  <1>2. ASSUME NEW s \in Session, Cancel(s) PROVE ReuseIsTrue'
    BY <1>0, <1>2 DEF Cancel, ReuseIsTrue
  <1>3. ASSUME NEW s \in Session, PlanRound(s) PROVE ReuseIsTrue'
    <2>1. /\ \A t \in Task : entry[s][t] = 0
          /\ entry' = entry /\ \A u \in Session \ {s} : plan'[u] = plan[u]
      BY <1>3 DEF PlanRound, PlaceOK, TypeOK
    <2> QED
      BY <1>0, <2>1 DEF ReuseIsTrue
  <1>4. ASSUME NEW s \in Session, BeginRound(s) PROVE ReuseIsTrue'
    BY <1>0, <1>4 DEF BeginRound, ReuseIsTrue
  <1>5. ASSUME NEW s \in Session, RefuseRound(s) PROVE ReuseIsTrue'
    BY <1>0, <1>5 DEF RefuseRound, ReuseIsTrue
  <1>6. ASSUME NEW s \in Session, NEW t \in Task, NEW i \in 1..view[s], Reuse(s, t, i)
        PROVE  ReuseIsTrue'
    <2>1. /\ plan' = plan /\ undone' = undone /\ log' = log /\ entry'[s][t] = i /\ i # 0
          /\ \A u \in Session, k \in Task : (u # s \/ k # t) => entry'[u][k] = entry[u][k]
      BY <1>6 DEF Reuse, TypeOK
    <2>2. ASSUME NothingUndone(s, t)' PROVE Passes(t, plan[s])
      <3>1. /\ i \in 1..Len(log) /\ log[i].task = t /\ BinsManaged(t, plan[s])
            /\ \A f \in InputsOf[t] \ VersionFile : Observed(log[i].inputs)[f] = Observed(plan[s])[f]
            /\ log[i].status = "passed" /\ log[i].consistent
        BY <1>6 DEF Reuse, Grants, IsLatest, Matching, SameInputs, PlaceOK, TypeOK
      <3>2. log[i].inputs \in Tree /\ plan[s] \in Tree
        <4>1. log[i] \in Completion
          BY <3>1 DEF TypeOK
        <4> QED
          BY <4>1 DEF TypeOK, Completion
      <3>3. ASSUME NEW f \in InputsOf[t] \ VersionFile PROVE log[i].inputs[f] = plan[s][f]
        BY <3>1, <3>2, FilesAssumption, ObservedTells DEF BinsManaged
      <3>4. BinsManaged(t, log[i].inputs)
        BY <3>1, <3>3, FilesAssumption DEF BinsManaged
      <3>5. Untouched(log[i])
        BY <2>1, <2>2, <3>1 DEF Untouched, NothingUndone, Witness
      <3>6. Passes(t, log[i].inputs)
        BY <3>1, <3>4, <3>5 DEF LogOK
      <3> QED
        BY <3>2, <3>3, <3>6, SamePasses
    <2> QED
      BY <1>0, <2>1, <2>2 DEF ReuseIsTrue
  <1>7. ASSUME NEW s \in Session, NEW t \in Task, LookupFails(s, t) PROVE ReuseIsTrue'
    BY <1>0, <1>7 DEF LookupFails, ReuseIsTrue
  <1>8. ASSUME NEW s \in Session, NEW t \in Task, Launch(s, t) PROVE ReuseIsTrue'
    BY <1>0, <1>8 DEF Launch, ReuseIsTrue
  <1>9. ASSUME NEW s \in Session, NEW t \in Task, ReportUnavailable(s, t) PROVE ReuseIsTrue'
    BY <1>0, <1>9 DEF ReportUnavailable, ReuseIsTrue
  <1>10. ASSUME NEW s \in Session, NEW t \in Task, Exit(s, t) PROVE ReuseIsTrue'
    BY <1>0, <1>10 DEF Exit, ReuseIsTrue
  <1>11. ASSUME NEW s \in Session, Conclude(s) PROVE ReuseIsTrue'
    BY <1>0, <1>11 DEF Conclude, ReuseIsTrue
  <1>12. ASSUME NEW s \in Session, Record(s) PROVE ReuseIsTrue'
    BY <1>0, <1>12 DEF Record, ReuseIsTrue
  <1>13. CASE UNCHANGED vars
    BY <1>0, <1>13 DEF vars, ReuseIsTrue
  <1> QED
    BY <1>1, <1>2, <1>3, <1>4, <1>5, <1>6, <1>7, <1>8, <1>9, <1>10, <1>11, <1>12, <1>13 DEF Next, Step

\* A check is executed because the history has no success for it.
LEMMA StepLaunch ==
    ASSUME TypeOK, TypeOK', PlaceOK, LaunchOK, [Next]_vars PROVE  LaunchOK'
  <1>1. ASSUME NEW f \in File, NEW v \in ContentOf[f], Edit(f, v) PROVE LaunchOK'
    <2>1. /\ UNCHANGED <<log, plan, view, healthy>>
          /\ \A u \in Session, k \in Task : saw'[u][k] # {} => saw[u][k] # {}
      BY <1>1 DEF Edit, PlaceOK
    <2> QED
      BY <2>1 DEF LaunchOK, Executed, BinsManaged, IsLatest, Matching
  <1>2. ASSUME NEW s \in Session, Cancel(s) PROVE LaunchOK'
    BY <1>2 DEF Cancel, LaunchOK, TypeOK, Executed, BinsManaged, IsLatest, Matching
  <1>3. ASSUME NEW s \in Session, PlanRound(s) PROVE LaunchOK'
    <2>1. /\ UNCHANGED <<log, view, healthy, saw>> /\ \A k \in Task : saw[s][k] = {}
          /\ \A u \in Session \ {s} : plan'[u] = plan[u]
      BY <1>3 DEF PlanRound, PlaceOK, TypeOK
    <2> QED
      BY <2>1 DEF LaunchOK, Executed, BinsManaged, IsLatest, Matching
  <1>4. ASSUME NEW s \in Session, BeginRound(s) PROVE LaunchOK'
    <2>1. /\ UNCHANGED <<log, plan, saw>> /\ \A k \in Task : saw[s][k] = {}
          /\ \A u \in Session \ {s} : view'[u] = view[u] /\ healthy'[u] = healthy[u]
      BY <1>4 DEF BeginRound, PlaceOK, TypeOK
    <2> QED
      BY <2>1 DEF LaunchOK, Executed, BinsManaged, IsLatest, Matching
  <1>5. ASSUME NEW s \in Session, RefuseRound(s) PROVE LaunchOK'
    BY <1>5 DEF RefuseRound, LaunchOK, TypeOK, Executed, BinsManaged, IsLatest, Matching
  <1>6. ASSUME NEW s \in Session, NEW t \in Task, NEW i \in 1..view[s], Reuse(s, t, i)
        PROVE  LaunchOK'
    BY <1>6 DEF Reuse, LaunchOK, TypeOK, Executed, BinsManaged, IsLatest, Matching
  <1>7. ASSUME NEW s \in Session, NEW t \in Task, LookupFails(s, t) PROVE LaunchOK'
    BY <1>7 DEF LookupFails, LaunchOK, TypeOK, Executed, BinsManaged, IsLatest, Matching
  <1>8. ASSUME NEW s \in Session, NEW t \in Task, Launch(s, t) PROVE LaunchOK'
    <2>1. /\ UNCHANGED <<log, plan, view, healthy>>
          /\ \A u \in Session, k \in Task : (u # s \/ k # t) => saw'[u][k] = saw[u][k]
      BY <1>8, Launches
    <2>2. \A i \in 1..view[s] : ~Grants(s, t, i)
      BY <1>8 DEF Launch
    <2> QED
      BY <2>1, <2>2 DEF LaunchOK, Executed, BinsManaged, IsLatest, Matching, Grants
  <1>9. ASSUME NEW s \in Session, NEW t \in Task, ReportUnavailable(s, t) PROVE LaunchOK'
    BY <1>9 DEF ReportUnavailable, LaunchOK, TypeOK, Executed, BinsManaged, IsLatest, Matching
  <1>10. ASSUME NEW s \in Session, NEW t \in Task, Exit(s, t) PROVE LaunchOK'
    BY <1>10 DEF Exit, LaunchOK, TypeOK, Executed, BinsManaged, IsLatest, Matching
  <1>11. ASSUME NEW s \in Session, Conclude(s) PROVE LaunchOK'
    BY <1>11 DEF Conclude, LaunchOK, TypeOK, Executed, BinsManaged, IsLatest, Matching
  <1>12. ASSUME NEW s \in Session, Record(s) PROVE LaunchOK'
    <2>1. /\ UNCHANGED <<plan, view, healthy, saw>>
          /\ \A u \in Session : \A i \in 1..view[u] : log'[i] = log[i]
      BY <1>12, LogGrows DEF Record, PlaceOK, TypeOK
    <2> QED
      BY <2>1 DEF LaunchOK, Executed, BinsManaged, IsLatest, Matching
  <1>13. CASE UNCHANGED vars
    BY <1>13 DEF vars, LaunchOK, TypeOK, Executed, BinsManaged, IsLatest, Matching, Executed, BinsManaged, IsLatest, Matching
  <1> QED
    BY <1>1, <1>2, <1>3, <1>4, <1>5, <1>6, <1>7, <1>8, <1>9, <1>10, <1>11, <1>12, <1>13 DEF Next, Step

-----------------------------------------------------------------------------
(* The theorems.                                                           *)

LEMMA InitInvariant == Init => IInv
  <1> SUFFICES ASSUME Init PROVE IInv
    OBVIOUS
  <1>1. TypeOK
    BY InitType
  <1>2. PlaceOK /\ TreesOK /\ VerdictOK
    BY DEF Init, PlaceOK, TreesOK, VerdictOK
  <1>3. ReportOK
    BY DEF Init, ReportOK, NoReport
  <1>4. LogOK /\ LaunchOK /\ ReuseIsTrue
    BY DEF Init, LogOK, LaunchOK, Executed, ReuseIsTrue
  <1> QED
    BY <1>1, <1>2, <1>3, <1>4 DEF IInv

LEMMA StepInvariant == IInv /\ [Next]_vars => IInv'
  <1> SUFFICES ASSUME IInv, [Next]_vars PROVE IInv'
    OBVIOUS
  <1> USE DEF IInv
  <1>1. TypeOK'
    BY StepType
  <1>2. PlaceOK'
    BY <1>1, StepPlace
  <1>3. TreesOK'
    BY <1>1, StepTrees
  <1>4. VerdictOK'
    BY <1>1, StepVerdict
  <1>5. ReportOK'
    BY <1>1, StepReport
  <1>6. LogOK'
    BY <1>1, StepLog
  <1>7. LaunchOK'
    BY <1>1, StepLaunch
  <1>8. ReuseIsTrue'
    BY <1>1, StepReuse
  <1> QED
    BY <1>1, <1>2, <1>3, <1>4, <1>5, <1>6, <1>7, <1>8

\* The invariant holds of every execution.
THEOREM Invariant == Spec => []IInv
  BY InitInvariant, StepInvariant, PTL DEF Spec

\* A passing report is true of the content it was planned on, check by check, but
\* for what an edit undone within a round has hidden (validation.go:492-512).
THEOREM PassedHolds == Spec => []PassedUnlessUndone
  <1>1. IInv => PassedUnlessUndone
    BY DEF IInv, PassedUnlessUndone, ReportOK, AllPassed
  <1> QED
    BY <1>1, Invariant, PTL

\* A reused success holds on the content of the round that reuses it, unless an
\* edit was undone in the round that executed it (reuse.go:113-154).
THEOREM ReuseHolds == Spec => []ReuseIsTrue
  <1>1. IInv => ReuseIsTrue
    BY DEF IInv
  <1> QED
    BY <1>1, Invariant, PTL

\* A set of naturals that is not empty and has a bound has a greatest element.
LEMMA Greatest ==
    ASSUME NEW n \in Nat, NEW T \in SUBSET (0..n), T # {}
    PROVE  \E x \in T : \A y \in T : y <= x
  <1> DEFINE R == OpToRel(<, Nat)
  <1> DEFINE D == {d \in Nat : \E x \in T : d = n - x}
  <1>1. IsWellFoundedOn(R, Nat)
    BY NatLessThanWellFounded
  <1>2. \A c, d \in Nat : c < d => <<c, d>> \in R
    BY DEF OpToRel
  <1>3. D \in SUBSET Nat /\ D # {}
    <2>1. PICK x \in T : TRUE
      OBVIOUS
    <2>2. x \in 0..n /\ n - x \in Nat
      OBVIOUS
    <2> QED
      BY <2>1, <2>2
  <1> HIDE DEF R
  <1>4. PICK d \in D : \A c \in D : ~(<<c, d>> \in R)
    <2> HIDE DEF D
    <2> QED
      BY <1>1, <1>3, WFMin
  <1>5. \A c \in D : ~(c < d)
    BY <1>2, <1>4
  <1>6. PICK x \in T : d = n - x
    BY <1>4
  <1>7. ASSUME NEW y \in T PROVE y <= x
    <2>1. y \in 0..n /\ x \in 0..n /\ n - y \in D
      OBVIOUS
    <2> QED
      BY <1>5, <1>6, <2>1
  <1> QED
    BY <1>7

\* Edits to VersionTag documents alone cost no check its reuse
\* (inputs.go:115-134).
THEOREM VersionEditsReuse == Spec => []VersionEditsKeepReuse
  <1>1. ASSUME IInv PROVE VersionEditsKeepReuse
    <2> SUFFICES ASSUME NEW s \in Session, NEW t \in Task, NEW i \in 1..view[s],
                        t \in Executed(s), s \notin Forced, healthy[s], BinsManaged(t, plan[s]),
                        log[i].task = t, log[i].status = "passed", log[i].consistent,
                        \A f \in InputsOf[t] \ VersionFile : log[i].inputs[f] = plan[s][f]
                 PROVE  \E j \in (i + 1)..view[s] :
                           j \in Matching(s, t) /\ (log[j].status # "passed" \/ ~log[j].consistent)
      BY DEF VersionEditsKeepReuse
    <2>1. view[s] \in Nat /\ Matching(s, t) \subseteq 1..view[s]
      BY <1>1 DEF IInv, TypeOK, Matching
    <2>2. i \in Matching(s, t)
      BY FilesAssumption DEF Matching, SameInputs, Observed
    <2>3. PICK j \in Matching(s, t) : \A k \in Matching(s, t) : k <= j
      <3>1. Matching(s, t) \in SUBSET (0..view[s]) /\ Matching(s, t) # {}
        BY <2>1, <2>2
      <3> QED
        BY <2>1, <3>1, Greatest
    <2>4. log[j].status # "passed" \/ ~log[j].consistent
      BY <1>1, <2>1, <2>3 DEF IInv, LaunchOK, IsLatest
    <2> QED
      BY <2>1, <2>2, <2>3, <2>4
  <1> QED
    BY <1>1, Invariant, PTL
=============================================================================
