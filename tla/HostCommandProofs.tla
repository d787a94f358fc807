------------------------- MODULE HostCommandProofs -------------------------
(***************************************************************************)
(* Proofs about five components of the host that share no state: the       *)
(* replay of the validation history, for any log; the viewer, for any      *)
(* number of pages, edits and requests under way; the installation of a    *)
(* release, for any number of processes and of releases; the capture of a  *)
(* checkout, for any files, contents, limits, readers and edits; and the   *)
(* command log, for any number of runs, days, and writes that end early.   *)
(***************************************************************************)
EXTENDS HistoryReplay, Viewer, Upgrade, WorkspaceCapture, CommandLog, TLAPS,
        FiniteSetTheorems, WellFoundedInduction

-----------------------------------------------------------------------------
(* The replay.  Retained starts, outcomes and reuses are counted one entry *)
(* at a time; a completion takes one off the unfinished.  The invariant    *)
(* says which Runs each counter counts, and that the replayed Runs are     *)
(* those of the log: what is counted is then what the log says.            *)

Executed(k) == {r \in Run : runs[r] # NoRun /\ runs[r].key = k}
Executing(k) == {r \in Executed(k) : runs[r].state = "unfinished"}
Completed(k, st) == {r \in Executed(k) : runs[r].state = "completed" /\ runs[r].status = st}
ReusesOf(k) == UNION {RunEvents(r, "reused") : r \in RunsOf(k)}

\* The statistics are sizes of sets of Runs, and of reuses.
ExecutionsCounted ==
    \A k \in Key :
        /\ counts[k].executions = Cardinality(Executed(k))
        /\ counts[k].unfinished = Cardinality(Executing(k))
        /\ \A st \in Status : counts[k][st] = Cardinality(Completed(k, st))
ReusesCounted == \A k \in Key : counts[k].reuses = Cardinality(ReusesOf(k))

\* The replayed Runs are those of the log.
Projected(r) ==
    /\ runs[r] = NoRun <=> RunStart(r) = {}
    /\ \A i \in RunStart(r) : log[i].key = runs[r].key
    /\ RunEvents(r, "finished") # {} <=> runs[r] # NoRun /\ runs[r].state = "completed"
    /\ \A i \in RunEvents(r, "finished") : log[i].status = runs[r].status
RunsProjected == \A r \in Run : Projected(r)

ReplayInv ==
    /\ TypeOK /\ RunsProjected /\ OrderIsCompletionOrder
    /\ ExecutionsCounted /\ ReusesCounted /\ StatisticsAddUp

\* Nothing is replayed: nothing is counted.
LEMMA InitReplay == Init => ReplayInv
<1> SUFFICES ASSUME Init PROVE ReplayInv
  OBVIOUS
<1>1. \A l \in Logs : Len(l) \in Nat /\ 1 \in 1..(Len(l) + 1)
  BY LogsAssumption
<1>2. TypeOK
  <2>1. log \in Logs /\ next \in 1..(Len(log) + 1) /\ failed \in BOOLEAN
    BY <1>1 DEF Init
  <2>2. runs \in [Run -> RunRecord \cup {NoRun}] /\ order \in Seq(Run)
    BY DEF Init
  <2>3. Zero \in Counts
    BY DEF Counts, Zero
  <2>4. counts \in [Key -> Counts]
    BY <2>3 DEF Init
  <2> QED BY <2>1, <2>2, <2>4 DEF TypeOK
<1>3. \A r, type : RunStart(r) = {} /\ RunEvents(r, type) = {}
  BY LogsAssumption DEF Init, RunStart, StartAt, RunEvents
<1>4. RunsProjected
  BY <1>3 DEF Init, RunsProjected, Projected, NoRun
<1>5. OrderIsCompletionOrder
  BY <1>3 DEF Init, OrderIsCompletionOrder
<1>6. \A k : Executed(k) = {} /\ Executing(k) = {} /\ ReusesOf(k) = {}
  BY <1>3 DEF Init, Executed, Executing, ReusesOf
<1>7. \A k, st : Completed(k, st) = {}
  BY <1>6 DEF Completed
<1>8. \A k \in Key : /\ counts[k].executions = 0 /\ counts[k].unfinished = 0
                      /\ counts[k].reuses = 0 /\ \A st \in Status : counts[k][st] = 0
  BY DEF Init, Zero, Status
<1>9. ExecutionsCounted /\ ReusesCounted
  BY <1>6, <1>7, <1>8, FS_EmptySet DEF ExecutionsCounted, ReusesCounted
<1>10. StatisticsAddUp
  BY DEF Init, StatisticsAddUp, Zero
<1> QED BY <1>2, <1>4, <1>5, <1>9, <1>10 DEF ReplayInv

\* While Runs and counters stay, so does what is said of them.
LEMMA SameCounts ==
    ASSUME ReplayInv, runs' = runs, counts' = counts
    PROVE  ExecutionsCounted' /\ StatisticsAddUp'
<1>1. \A k : Executed(k)' = Executed(k) /\ Executing(k)' = Executing(k)
  BY DEF Executed, Executing
<1>2. \A k, st : Completed(k, st)' = Completed(k, st)
  BY DEF Executed, Completed
<1> QED BY <1>1, <1>2 DEF ReplayInv, ExecutionsCounted, StatisticsAddUp

-----------------------------------------------------------------------------
(* The replay: what the log says of a Run, one entry further.              *)

Further == /\ log \in Seq(Event) /\ next \in 1..Len(log)
           /\ log' = log /\ next' = next + 1

\* An entry is the start of its Run, or something after its start, or nothing.
LEMMA EventsStep ==
    ASSUME Further, NEW r
    PROVE  /\ RunStart(r)' = RunStart(r) \cup
                  (IF log[next].type = "started" /\ log[next].run = r THEN {next} ELSE {})
           /\ \A type \in {"finished", "reused"} : RunEvents(r, type)' = RunEvents(r, type) \cup
                  (IF log[next].type = type /\ log[next].run = r /\ RunStart(r) # {}
                   THEN {next} ELSE {})
<1>1. /\ DOMAIN log = 1..Len(log) /\ Len(log) \in Nat /\ next \in Nat
      /\ \A i \in 1..Len(log) : i < next + 1 <=> i < next \/ i = next
  BY DEF Further
<1>2. RunStart(r)' = RunStart(r) \cup
          (IF log[next].type = "started" /\ log[next].run = r THEN {next} ELSE {})
  BY <1>1 DEF Further, RunStart, StartAt
<1>3. ASSUME NEW i \in DOMAIN log, i <= next
      PROVE  (\E j \in RunStart(r)' : j < i) <=> \E j \in RunStart(r) : j < i
  BY <1>1, <1>2, <1>3
<1>4. (\E j \in RunStart(r) : j < next) <=> RunStart(r) # {}
  BY DEF RunStart, StartAt
<1>5. ASSUME NEW type \in {"finished", "reused"}
      PROVE  RunEvents(r, type)' = RunEvents(r, type) \cup
                 (IF log[next].type = type /\ log[next].run = r /\ RunStart(r) # {}
                  THEN {next} ELSE {})
  BY <1>1, <1>3, <1>4 DEF Further, RunEvents
<1> QED BY <1>2, <1>5

\* Its places in the log are finitely many, and before the next entry.
LEMMA ReusesFinite ==
    ASSUME Further, NEW k
    PROVE  IsFiniteSet(ReusesOf(k)) /\ next \notin ReusesOf(k)
<1>1. ReusesOf(k) \subseteq 1..Len(log)
  BY DEF Further, ReusesOf, RunEvents
<1>2. IsFiniteSet(1..Len(log))
  BY FS_Interval DEF Further
<1>3. IsFiniteSet(ReusesOf(k))
  BY <1>1, <1>2, FS_Subset
<1>4. next \notin ReusesOf(k)
  BY DEF Further, ReusesOf, RunEvents
<1> QED BY <1>3, <1>4

\* The log counts a Run for the task that it was started for.
LEMMA RunsOfTask ==
    ASSUME ReplayInv, NEW k
    PROVE  RunsOf(k) = Executed(k)
<1>1. \A r \in Run : Projected(r)
  BY DEF ReplayInv, RunsProjected
<1> QED BY <1>1 DEF RunsOf, Executed, Projected

\* A start says nothing yet of how its Run ends.
LEMMA StartedLog ==
    ASSUME ReplayInv, Further, Started(log[next]), runs[log[next].run] = NoRun,
           counts' = [counts EXCEPT ![log[next].key] = CountStart(counts[log[next].key])]
    PROVE  RunsProjected' /\ OrderIsCompletionOrder' /\ ReusesCounted'
<1> DEFINE e == log[next]
<1>1. /\ e \in Event /\ e.run \in Run /\ e.key \in Key /\ e.type = "started"
      /\ runs' = [runs EXCEPT ![e.run] =
             [state |-> "unfinished", key |-> e.key, checkout |-> e.checkout]]
      /\ order' = order /\ log' = log
  BY DEF Further, Started, Event
<1>2. runs \in [Run -> RunRecord \cup {NoRun}] /\ counts \in [Key -> Counts]
  BY DEF ReplayInv, TypeOK
<1>3. \A r : /\ RunStart(r)' = RunStart(r) \cup (IF e.run = r THEN {next} ELSE {})
             /\ RunEvents(r, "finished")' = RunEvents(r, "finished")
             /\ RunEvents(r, "reused")' = RunEvents(r, "reused")
  BY <1>1, EventsStep
<1>4. RunStart(e.run) = {}
  BY <1>1 DEF ReplayInv, RunsProjected, Projected
<1>5. \A type : RunEvents(e.run, type) = {}
  BY <1>4 DEF RunEvents
<1>6. RunsProjected'
  <2> SUFFICES ASSUME NEW r \in Run PROVE Projected(r)'
    BY DEF RunsProjected
  <2>1. CASE r = e.run
    <3>1. /\ RunStart(r)' = {next} /\ RunEvents(r, "finished")' = {}
          /\ runs'[r] = [state |-> "unfinished", key |-> e.key, checkout |-> e.checkout]
      BY <1>1, <1>2, <1>3, <1>4, <1>5, <2>1
    <3>2. runs'[r] # NoRun /\ runs'[r].state = "unfinished" /\ runs'[r].key = e.key
      BY <3>1 DEF NoRun
    <3> QED BY <1>1, <3>1, <3>2 DEF Projected
  <2>2. CASE r # e.run
    <3>1. runs'[r] = runs[r]
      BY <1>1, <1>2, <2>2
    <3>2. RunStart(r)' = RunStart(r) /\ RunEvents(r, "finished")' = RunEvents(r, "finished")
      BY <1>3, <2>2
    <3>3. Projected(r)
      BY DEF ReplayInv, RunsProjected
    <3> QED BY <1>1, <3>1, <3>2, <3>3 DEF Projected
  <2> QED BY <2>1, <2>2
<1>7. OrderIsCompletionOrder'
  BY <1>1, <1>3 DEF ReplayInv, OrderIsCompletionOrder
<1>8. ReusesCounted'
  <2> SUFFICES ASSUME NEW k \in Key PROVE counts'[k].reuses = Cardinality(ReusesOf(k)')
    BY DEF ReusesCounted
  <2>1. \A r \in Run : r # e.run => (r \in RunsOf(k)' <=> r \in RunsOf(k))
    BY <1>1, <1>3 DEF RunsOf
  <2>2. RunsOf(k) \subseteq Run /\ RunsOf(k)' \subseteq Run
    BY DEF RunsOf
  <2>3. ReusesOf(k)' = ReusesOf(k)
    BY <1>3, <1>5, <2>1, <2>2 DEF ReusesOf
  <2>4. counts'[k].reuses = counts[k].reuses
    BY <1>1, <1>2 DEF CountStart, Counts
  <2> QED BY <2>3, <2>4 DEF ReplayInv, ReusesCounted
<1> QED BY <1>6, <1>7, <1>8

\* A completion comes behind all the others.
LEMMA FinishedLog ==
    ASSUME ReplayInv, Further, Finished(log[next]), Valid(runs, log[next])
    PROVE  RunsProjected' /\ OrderIsCompletionOrder' /\ ReusesCounted'
<1> DEFINE e == log[next]
<1>1. /\ e \in Event /\ e.run \in Run /\ e.key \in Key /\ e.type = "finished"
      /\ runs' = [runs EXCEPT ![e.run] =
             [state |-> "completed", key |-> e.key, checkout |-> e.checkout,
              status |-> e.status, consistent |-> e.consistent]]
      /\ order' = Append(order, e.run) /\ log' = log /\ e.status \in Status
      /\ counts' = [counts EXCEPT ![e.key] = CountFinish(counts[e.key], e.status)]
  BY DEF Further, Finished, Event
<1>2. /\ runs \in [Run -> RunRecord \cup {NoRun}] /\ counts \in [Key -> Counts]
      /\ order \in Seq(Run)
  BY DEF ReplayInv, TypeOK
<1>3. /\ runs[e.run] # NoRun /\ runs[e.run].state = "unfinished"
      /\ runs[e.run].key = e.key
  BY DEF Finished, Valid, SameTask
<1>4. Projected(e.run)
  BY <1>1 DEF ReplayInv, RunsProjected
<1>5. RunStart(e.run) # {} /\ RunEvents(e.run, "finished") = {}
  BY <1>3, <1>4 DEF Projected
<1>6. \A r : /\ RunStart(r)' = RunStart(r)
             /\ RunEvents(r, "finished")' =
                    RunEvents(r, "finished") \cup (IF e.run = r THEN {next} ELSE {})
             /\ RunEvents(r, "reused")' = RunEvents(r, "reused")
  BY <1>1, <1>5, EventsStep
<1>7. RunsProjected'
  <2> SUFFICES ASSUME NEW r \in Run PROVE Projected(r)'
    BY DEF RunsProjected
  <2>1. CASE r = e.run
    <3>1. /\ RunStart(r)' = RunStart(r) /\ RunEvents(r, "finished")' = {next}
          /\ runs'[r] = [state |-> "completed", key |-> e.key, checkout |-> e.checkout,
                         status |-> e.status, consistent |-> e.consistent]
      BY <1>1, <1>2, <1>5, <1>6, <2>1
    <3>2. /\ runs'[r] # NoRun /\ runs'[r].state = "completed"
          /\ runs'[r].key = runs[r].key /\ runs'[r].status = e.status
      BY <1>3, <2>1, <3>1 DEF NoRun
    <3> QED BY <1>1, <1>4, <1>5, <2>1, <3>1, <3>2 DEF Projected
  <2>2. CASE r # e.run
    <3>1. runs'[r] = runs[r]
      BY <1>1, <1>2, <2>2
    <3>2. RunStart(r)' = RunStart(r) /\ RunEvents(r, "finished")' = RunEvents(r, "finished")
      BY <1>6, <2>2
    <3>3. Projected(r)
      BY DEF ReplayInv, RunsProjected
    <3> QED BY <1>1, <3>1, <3>2, <3>3 DEF Projected
  <2> QED BY <2>1, <2>2
<1>8. OrderIsCompletionOrder'
  <2>1. /\ Len(order) \in Nat /\ DOMAIN order = 1..Len(order)
        /\ DOMAIN order' = 1..(Len(order) + 1) /\ order'[Len(order) + 1] = e.run
        /\ \A i \in 1..Len(order) : order'[i] = order[i]
    BY <1>1, <1>2
  <2>2. {order[i] : i \in DOMAIN order} = {r \in Run : RunEvents(r, "finished") # {}}
    BY DEF ReplayInv, OrderIsCompletionOrder
  <2>3. {order'[i] : i \in DOMAIN order'} = {order[i] : i \in DOMAIN order} \cup {e.run}
    BY <2>1
  <2>4. {r \in Run : RunEvents(r, "finished")' # {}}
            = {r \in Run : RunEvents(r, "finished") # {}} \cup {e.run}
    BY <1>1, <1>6
  <2>5. ASSUME NEW i \in 1..Len(order) PROVE order[i] # e.run /\ order'[i] # e.run
    BY <1>5, <2>1, <2>2
  <2>6. ASSUME NEW i \in DOMAIN order', NEW j \in DOMAIN order', i < j,
               NEW m \in RunEvents(order[i], "finished")',
               NEW n \in RunEvents(order[j], "finished")'
        PROVE  m < n
    <3>1. i \in 1..Len(order)
      BY <2>1, <2>6
    <3>2. m \in RunEvents(order[i], "finished")
      BY <1>6, <2>1, <2>5, <2>6, <3>1
    <3>3. CASE j = Len(order) + 1
      <4>1. n = next
        BY <1>5, <1>6, <2>1, <2>6, <3>3
      <4> QED BY <3>2, <4>1 DEF RunEvents
    <3>4. CASE j \in 1..Len(order)
      <4>1. n \in RunEvents(order[j], "finished")
        BY <1>6, <2>1, <2>5, <2>6, <3>4
      <4> QED BY <2>1, <2>6, <3>1, <3>2, <3>4, <4>1 DEF ReplayInv, OrderIsCompletionOrder
    <3> QED BY <2>1, <3>3, <3>4
  <2> QED BY <2>2, <2>3, <2>4, <2>6 DEF OrderIsCompletionOrder
<1>9. ReusesCounted'
  <2> SUFFICES ASSUME NEW k \in Key PROVE counts'[k].reuses = Cardinality(ReusesOf(k)')
    BY DEF ReusesCounted
  <2>1. ReusesOf(k)' = ReusesOf(k)
    BY <1>1, <1>6 DEF ReusesOf, RunsOf
  <2>2. counts'[k].reuses = counts[k].reuses
    BY <1>1, <1>2 DEF CountFinish, Counts, Status
  <2> QED BY <2>1, <2>2 DEF ReplayInv, ReusesCounted
<1> QED BY <1>7, <1>8, <1>9

\* A reuse is one more for the task of its Run, and moves nothing.
LEMMA ReusedLog ==
    ASSUME ReplayInv, Further, Reused(log[next]), Valid(runs, log[next])
    PROVE  RunsProjected' /\ OrderIsCompletionOrder' /\ ReusesCounted'
<1> DEFINE e == log[next]
<1>1. /\ e \in Event /\ e.run \in Run /\ e.key \in Key /\ e.type = "reused"
      /\ runs' = runs /\ order' = order /\ log' = log
      /\ counts' = [counts EXCEPT ![e.key].reuses = counts[e.key].reuses + 1]
  BY DEF Further, Reused, ReuseKeepsOrder, Event
<1>2. counts \in [Key -> Counts]
  BY DEF ReplayInv, TypeOK
<1>3. runs[e.run] # NoRun /\ runs[e.run].key = e.key
  BY DEF Reused, Valid, SameTask
<1>4. RunStart(e.run) # {}
  BY <1>1, <1>3 DEF ReplayInv, RunsProjected, Projected
<1>5. \A r : /\ RunStart(r)' = RunStart(r)
             /\ RunEvents(r, "finished")' = RunEvents(r, "finished")
             /\ RunEvents(r, "reused")' =
                    RunEvents(r, "reused") \cup (IF e.run = r THEN {next} ELSE {})
  BY <1>1, <1>4, EventsStep
<1>6. RunsProjected'
  BY <1>1, <1>5 DEF ReplayInv, RunsProjected, Projected
<1>7. OrderIsCompletionOrder'
  BY <1>1, <1>5 DEF ReplayInv, OrderIsCompletionOrder
<1>8. ReusesCounted'
  <2> SUFFICES ASSUME NEW k \in Key PROVE counts'[k].reuses = Cardinality(ReusesOf(k)')
    BY DEF ReusesCounted
  <2>1. RunsOf(k)' = RunsOf(k)
    BY <1>1, <1>5 DEF RunsOf
  <2>2. e.run \in RunsOf(k) <=> k = e.key
    BY <1>1, <1>3, RunsOfTask DEF Executed
  <2>3. counts[k].reuses = Cardinality(ReusesOf(k)) /\ counts[k] \in Counts
    BY <1>2 DEF ReplayInv, ReusesCounted
  <2>4. CASE k = e.key
    <3>1. ReusesOf(k)' = ReusesOf(k) \cup {next}
      BY <1>5, <2>1, <2>2, <2>4 DEF ReusesOf
    <3>2. Cardinality(ReusesOf(k)') = Cardinality(ReusesOf(k)) + 1
      BY <3>1, ReusesFinite, FS_AddElement
    <3>3. counts'[k].reuses = counts[k].reuses + 1
      BY <1>1, <1>2, <2>3, <2>4 DEF Counts
    <3> QED BY <2>3, <3>2, <3>3
  <2>5. CASE k # e.key
    <3>1. ReusesOf(k)' = ReusesOf(k)
      BY <1>5, <2>1, <2>2, <2>5 DEF ReusesOf
    <3>2. counts'[k] = counts[k]
      BY <1>1, <1>2, <2>5
    <3> QED BY <2>3, <3>1, <3>2
  <2> QED BY <2>4, <2>5
<1> QED BY <1>6, <1>7, <1>8

\* What comes before its start, or without it, changes nothing.
LEMMA OrphanedLog ==
    ASSUME ReplayInv, Further, Orphaned(log[next])
    PROVE  RunsProjected' /\ OrderIsCompletionOrder' /\ ReusesCounted'
<1> DEFINE e == log[next]
<1>1. /\ e.run \in Run /\ e.type # "started" /\ runs[e.run] = NoRun
      /\ runs' = runs /\ order' = order /\ log' = log /\ counts' = counts
  BY DEF Further, Orphaned, Event
<1>2. RunStart(e.run) = {}
  BY <1>1 DEF ReplayInv, RunsProjected, Projected
<1>3. \A r : /\ RunStart(r)' = RunStart(r)
             /\ RunEvents(r, "finished")' = RunEvents(r, "finished")
             /\ RunEvents(r, "reused")' = RunEvents(r, "reused")
  BY <1>1, <1>2, EventsStep
<1>4. RunsProjected' /\ OrderIsCompletionOrder'
  BY <1>1, <1>3 DEF ReplayInv, RunsProjected, Projected, OrderIsCompletionOrder
<1>5. ReusesCounted'
  BY <1>1, <1>3 DEF ReplayInv, ReusesCounted, ReusesOf, RunsOf
<1> QED BY <1>4, <1>5

-----------------------------------------------------------------------------
(* The replay: the counters.                                               *)

\* The counters stay natural numbers.
LEMMA CountsStep ==
    ASSUME NEW n \in Counts
    PROVE  /\ CountStart(n) \in Counts
           /\ \A st \in Status : n.unfinished # 0 => CountFinish(n, st) \in Counts
<1>1. CountStart(n) \in Counts
  <2>1. /\ n.executions + 1 \in Nat /\ n.unfinished + 1 \in Nat
    BY DEF Counts
  <2> QED BY <2>1 DEF CountStart, Counts
<1>2. ASSUME NEW st \in Status, n.unfinished # 0 PROVE CountFinish(n, st) \in Counts
  <2>1. /\ n.unfinished - 1 \in Nat /\ n.passed + 1 \in Nat
        /\ n.failed + 1 \in Nat /\ n.other + 1 \in Nat
    BY <1>2 DEF Counts
  <2>2. CASE st = "passed"
    BY <2>1, <2>2 DEF CountFinish, Counts
  <2>3. CASE st = "failed"
    BY <2>1, <2>3 DEF CountFinish, Counts
  <2>4. CASE st = "other"
    BY <2>1, <2>4 DEF CountFinish, Counts
  <2> QED BY <2>2, <2>3, <2>4 DEF Status
<1> QED BY <1>1, <1>2

\* A started event: one more execution, one more unfinished.
LEMMA StartedInv ==
    ASSUME ReplayInv, NEW e \in Event, Started(e), runs[e.run] = NoRun
    PROVE  /\ runs' \in [Run -> RunRecord \cup {NoRun}] /\ order' \in Seq(Run)
           /\ counts' \in [Key -> Counts]
           /\ ExecutionsCounted' /\ StatisticsAddUp'
<1>1. e.run \in Run /\ e.key \in Key /\ e.checkout \in Checkout
  BY DEF Event
<1>2. counts[e.key] \in Counts /\ counts \in [Key -> Counts]
  BY <1>1 DEF ReplayInv, TypeOK
<1>3. CountStart(counts[e.key]) \in Counts
  BY <1>2, CountsStep DEF CountStart
<1>4. /\ counts' = [counts EXCEPT ![e.key] = CountStart(counts[e.key])]
      /\ runs' = [runs EXCEPT ![e.run] =
            [state |-> "unfinished", key |-> e.key, checkout |-> e.checkout]]
      /\ order' = order
  BY DEF Started
<1>5. /\ runs' \in [Run -> RunRecord \cup {NoRun}] /\ order' \in Seq(Run)
      /\ counts' \in [Key -> Counts]
  BY <1>1, <1>2, <1>3, <1>4 DEF ReplayInv, TypeOK, RunRecord
<1>6. ExecutionsCounted'
  <2> SUFFICES ASSUME NEW k \in Key
               PROVE  /\ counts'[k].executions = Cardinality(Executed(k)')
                      /\ counts'[k].unfinished = Cardinality(Executing(k)')
                      /\ \A st \in Status : counts'[k][st] = Cardinality(Completed(k, st)')
    BY DEF ExecutionsCounted
  <2>1. /\ counts[k].executions = Cardinality(Executed(k))
        /\ counts[k].unfinished = Cardinality(Executing(k))
        /\ \A st \in Status : counts[k][st] = Cardinality(Completed(k, st))
    BY DEF ReplayInv, ExecutionsCounted
  <2>2. runs \in [Run -> RunRecord \cup {NoRun}]
    BY DEF ReplayInv, TypeOK
  <2>3. CASE k = e.key
    <3>1. Executed(k)' = Executed(k) \cup {e.run} /\ e.run \notin Executed(k)
      BY <1>1, <1>4, <2>2, <2>3 DEF Executed, NoRun
    <3>2. Executing(k)' = Executing(k) \cup {e.run} /\ e.run \notin Executing(k)
      BY <1>1, <1>4, <2>2, <2>3, <3>1 DEF Executing
    <3>3. \A st : Completed(k, st)' = Completed(k, st)
      BY <1>1, <1>4, <2>2, <2>3, <3>1 DEF Completed
    <3>4. IsFiniteSet(Executed(k)) /\ IsFiniteSet(Executing(k))
      BY RunAssumption, FS_Subset DEF Executed, Executing
    <3>5. /\ Cardinality(Executed(k)') = Cardinality(Executed(k)) + 1
          /\ Cardinality(Executing(k)') = Cardinality(Executing(k)) + 1
      BY <3>1, <3>2, <3>4, FS_AddElement
    <3>6. /\ counts'[k].executions = counts[k].executions + 1
          /\ counts'[k].unfinished = counts[k].unfinished + 1
          /\ \A st \in Status : counts'[k][st] = counts[k][st]
      BY <1>2, <1>4, <2>3 DEF CountStart, Counts, Status
    <3> QED BY <2>1, <3>3, <3>5, <3>6
  <2>4. CASE k # e.key
    <3>1. Executed(k)' = Executed(k)
      BY <1>1, <1>4, <2>2, <2>4 DEF Executed, NoRun
    <3>2. \A r \in Executed(k) : runs'[r] = runs[r]
      BY <1>1, <1>4, <2>2 DEF Executed
    <3>3. Executing(k)' = Executing(k) /\ \A st : Completed(k, st)' = Completed(k, st)
      BY <3>1, <3>2 DEF Executing, Completed
    <3>4. counts'[k] = counts[k]
      BY <1>2, <1>4, <2>4
    <3> QED BY <2>1, <3>1, <3>3, <3>4
  <2> QED BY <2>3, <2>4
<1>7. StatisticsAddUp'
  <2> SUFFICES ASSUME NEW k \in Key
               PROVE  counts'[k].executions = counts'[k].unfinished + counts'[k].passed
                                              + counts'[k].failed + counts'[k].other
    BY DEF StatisticsAddUp
  <2>1. counts[k].executions = counts[k].unfinished + counts[k].passed
                               + counts[k].failed + counts[k].other
    BY DEF ReplayInv, StatisticsAddUp
  <2>2. counts[k] \in Counts
    BY <1>2
  <2>3. CASE k = e.key
    BY <1>2, <1>4, <2>1, <2>2, <2>3 DEF CountStart, Counts
  <2>4. CASE k # e.key
    BY <1>2, <1>4, <2>1, <2>4
  <2> QED BY <2>3, <2>4
<1> QED BY <1>5, <1>6, <1>7

\* A completion: one execution moves from the unfinished to its outcome.
LEMMA FinishedInv ==
    ASSUME ReplayInv, NEW e \in Event, Finished(e), Valid(runs, e)
    PROVE  /\ runs' \in [Run -> RunRecord \cup {NoRun}] /\ order' \in Seq(Run)
           /\ counts' \in [Key -> Counts]
           /\ ExecutionsCounted' /\ StatisticsAddUp'
<1>1. /\ e.run \in Run /\ e.key \in Key /\ e.checkout \in Checkout
      /\ e.status \in Status /\ e.consistent \in BOOLEAN
  BY DEF Event, Finished
<1>2. /\ runs[e.run] # NoRun /\ runs[e.run].state = "unfinished"
      /\ runs[e.run].key = e.key
  BY DEF Finished, Valid, SameTask
<1>3. counts[e.key] \in Counts /\ counts \in [Key -> Counts]
      /\ runs \in [Run -> RunRecord \cup {NoRun}]
  BY <1>1 DEF ReplayInv, TypeOK
<1>4. /\ counts' = [counts EXCEPT ![e.key] = CountFinish(counts[e.key], e.status)]
      /\ runs' = [runs EXCEPT ![e.run] =
            [state |-> "completed", key |-> e.key, checkout |-> e.checkout,
             status |-> e.status, consistent |-> e.consistent]]
      /\ order' = Append(order, e.run)
  BY DEF Finished
<1>5. e.run \in Executing(e.key) /\ IsFiniteSet(Executing(e.key))
  BY <1>1, <1>2, RunAssumption, FS_Subset DEF Executing, Executed
<1>6. Cardinality(Executing(e.key)) \in Nat \ {0}
  BY <1>5, FS_CardinalityType, FS_EmptySet
<1>7. counts[e.key].unfinished \in Nat \ {0}
  BY <1>1, <1>6 DEF ReplayInv, ExecutionsCounted
<1>8. CountFinish(counts[e.key], e.status) \in Counts
  BY <1>1, <1>3, <1>7, CountsStep
<1>9. /\ runs' \in [Run -> RunRecord \cup {NoRun}] /\ order' \in Seq(Run)
      /\ counts' \in [Key -> Counts]
  BY <1>1, <1>3, <1>4, <1>8 DEF ReplayInv, TypeOK, RunRecord
<1>10. ExecutionsCounted'
  <2> SUFFICES ASSUME NEW k \in Key
               PROVE  /\ counts'[k].executions = Cardinality(Executed(k)')
                      /\ counts'[k].unfinished = Cardinality(Executing(k)')
                      /\ \A st \in Status : counts'[k][st] = Cardinality(Completed(k, st)')
    BY DEF ExecutionsCounted
  <2>1. /\ counts[k].executions = Cardinality(Executed(k))
        /\ counts[k].unfinished = Cardinality(Executing(k))
        /\ \A st \in Status : counts[k][st] = Cardinality(Completed(k, st))
    BY DEF ReplayInv, ExecutionsCounted
  <2>2. Executed(k)' = Executed(k)
    BY <1>1, <1>2, <1>3, <1>4 DEF Executed, NoRun
  <2>3. CASE k = e.key
    <3>1. Executing(k)' = Executing(k) \ {e.run}
      BY <1>1, <1>3, <1>4, <2>2, <2>3 DEF Executing, Executed
    <3>2. Cardinality(Executing(k)') = Cardinality(Executing(k)) - 1
      BY <1>5, <2>3, <3>1, FS_RemoveElement
    <3>3. /\ Completed(k, e.status)' = Completed(k, e.status) \cup {e.run}
          /\ e.run \notin Completed(k, e.status)
      BY <1>1, <1>2, <1>3, <1>4, <2>2, <2>3 DEF Completed, Executed
    <3>4. \A st : st # e.status => Completed(k, st)' = Completed(k, st)
      BY <1>1, <1>2, <1>3, <1>4, <2>2, <2>3 DEF Completed, Executed
    <3>5. IsFiniteSet(Completed(k, e.status))
      BY RunAssumption, FS_Subset DEF Completed, Executed
    <3>6. Cardinality(Completed(k, e.status)') = Cardinality(Completed(k, e.status)) + 1
      BY <3>3, <3>5, FS_AddElement
    <3>7. /\ counts'[k].executions = counts[k].executions
          /\ counts'[k].unfinished = counts[k].unfinished - 1
          /\ counts'[k][e.status] = counts[k][e.status] + 1
          /\ \A st \in Status : st # e.status => counts'[k][st] = counts[k][st]
      BY <1>1, <1>3, <1>4, <2>3 DEF CountFinish, Counts, Status
    <3> QED BY <2>1, <2>2, <3>2, <3>4, <3>6, <3>7
  <2>4. CASE k # e.key
    <3>1. \A r \in Executed(k) : runs'[r] = runs[r]
      BY <1>2, <1>3, <1>4, <2>4 DEF Executed
    <3>2. Executing(k)' = Executing(k) /\ \A st : Completed(k, st)' = Completed(k, st)
      BY <2>2, <3>1 DEF Executing, Completed
    <3>3. counts'[k] = counts[k]
      BY <1>3, <1>4, <2>4
    <3> QED BY <2>1, <2>2, <3>2, <3>3
  <2> QED BY <2>3, <2>4
<1>11. StatisticsAddUp'
  <2> SUFFICES ASSUME NEW k \in Key
               PROVE  counts'[k].executions = counts'[k].unfinished + counts'[k].passed
                                              + counts'[k].failed + counts'[k].other
    BY DEF StatisticsAddUp
  <2>1. counts[k].executions = counts[k].unfinished + counts[k].passed
                               + counts[k].failed + counts[k].other
    BY DEF ReplayInv, StatisticsAddUp
  <2>2. counts[k] \in Counts
    BY <1>3
  <2>3. CASE k = e.key
    <3>1. counts'[k] = CountFinish(counts[k], e.status)
      BY <1>3, <1>4, <2>3
    <3>2. CASE e.status = "passed"
      BY <2>1, <2>2, <3>1, <3>2 DEF CountFinish, Counts
    <3>3. CASE e.status = "failed"
      BY <2>1, <2>2, <3>1, <3>3 DEF CountFinish, Counts
    <3>4. CASE e.status = "other"
      BY <2>1, <2>2, <3>1, <3>4 DEF CountFinish, Counts
    <3> QED BY <1>1, <3>2, <3>3, <3>4 DEF Status
  <2>4. CASE k # e.key
    BY <1>3, <1>4, <2>1, <2>4
  <2> QED BY <2>3, <2>4
<1> QED BY <1>9, <1>10, <1>11

\* A reuse: no execution moves.
LEMMA ReusedInv ==
    ASSUME ReplayInv, NEW e \in Event, Reused(e)
    PROVE  /\ runs' \in [Run -> RunRecord \cup {NoRun}] /\ order' \in Seq(Run)
           /\ counts' \in [Key -> Counts]
           /\ ExecutionsCounted' /\ StatisticsAddUp'
<1>1. e.run \in Run /\ e.key \in Key
  BY DEF Event
<1>2. counts[e.key] \in Counts /\ counts \in [Key -> Counts]
  BY <1>1 DEF ReplayInv, TypeOK
<1>3. /\ counts' = [counts EXCEPT ![e.key].reuses = counts[e.key].reuses + 1]
      /\ runs' = runs /\ order' = order
  BY DEF Reused, ReuseKeepsOrder
<1>4. /\ runs' \in [Run -> RunRecord \cup {NoRun}] /\ order' \in Seq(Run)
      /\ counts' \in [Key -> Counts]
  <2>1. [counts[e.key] EXCEPT !.reuses = counts[e.key].reuses + 1] \in Counts
    BY <1>2 DEF Counts
  <2>2. counts' = [counts EXCEPT ![e.key] =
                      [counts[e.key] EXCEPT !.reuses = counts[e.key].reuses + 1]]
    BY <1>1, <1>2, <1>3
  <2>3. counts' \in [Key -> Counts]
    BY <1>1, <1>2, <2>1, <2>2
  <2> QED BY <1>3, <2>3 DEF ReplayInv, TypeOK
<1>5. \A k \in Key :
         /\ counts'[k].unfinished = counts[k].unfinished
         /\ counts'[k].executions = counts[k].executions
         /\ counts'[k].passed = counts[k].passed
         /\ counts'[k].failed = counts[k].failed
         /\ counts'[k].other = counts[k].other
  BY <1>1, <1>2, <1>3 DEF Counts
<1>6. ExecutionsCounted'
  <2>1. \A k : Executed(k)' = Executed(k) /\ Executing(k)' = Executing(k)
    BY <1>3 DEF Executed, Executing
  <2>2. \A k, st : Completed(k, st)' = Completed(k, st)
    BY <1>3 DEF Executed, Completed
  <2>3. \A k \in Key : \A st \in Status : counts'[k][st] = counts[k][st]
    BY <1>5 DEF Status
  <2> QED BY <1>5, <2>1, <2>2, <2>3 DEF ReplayInv, ExecutionsCounted
<1>7. StatisticsAddUp'
  BY <1>5 DEF ReplayInv, StatisticsAddUp
<1> QED BY <1>4, <1>6, <1>7

\* Every entry is replayed into what the log says up to it.
LEMMA StepReplay == ReplayInv /\ [Next]_vars => ReplayInv'
<1> SUFFICES ASSUME ReplayInv, [Next]_vars PROVE ReplayInv'
  OBVIOUS
<1>1. CASE Apply
  <2>0. log \in Logs /\ next \in 1..(Len(log) + 1) /\ failed \in BOOLEAN
    BY DEF ReplayInv, TypeOK
  <2>1. Further
    BY <1>1, <2>0, LogsAssumption DEF Apply, Further
  <2> DEFINE e == log[next]
  <2>2. e \in Event
    BY <2>1 DEF Further
  <2>3. next' \in 1..(Len(log') + 1) /\ log' \in Logs /\ failed' \in BOOLEAN
    BY <1>1, <2>0, <2>1 DEF Apply, Further
  <2>4. Valid(runs, e)
    BY <1>1 DEF Apply
  <2>5. /\ runs' \in [Run -> RunRecord \cup {NoRun}] /\ order' \in Seq(Run)
        /\ counts' \in [Key -> Counts]
        /\ ExecutionsCounted' /\ StatisticsAddUp'
        /\ RunsProjected' /\ OrderIsCompletionOrder' /\ ReusesCounted'
    <3>1. CASE Started(e)
      <4>1. runs[e.run] = NoRun
        BY <2>4, <3>1 DEF Valid, Started
      <4>2. counts' = [counts EXCEPT ![e.key] = CountStart(counts[e.key])]
        BY <3>1 DEF Started
      <4> QED BY <2>1, <2>2, <3>1, <4>1, <4>2, StartedInv, StartedLog
    <3>2. CASE Finished(e)
      BY <2>1, <2>2, <2>4, <3>2, FinishedInv, FinishedLog
    <3>3. CASE Reused(e)
      BY <2>1, <2>2, <2>4, <3>3, ReusedInv, ReusedLog
    <3>4. CASE Orphaned(e)
      <4>1. RunsProjected' /\ OrderIsCompletionOrder' /\ ReusesCounted'
        BY <2>1, <3>4, OrphanedLog
      <4>2. runs' = runs /\ order' = order /\ counts' = counts
        BY <3>4 DEF Orphaned
      <4>3. ExecutionsCounted' /\ StatisticsAddUp'
        BY <4>2, SameCounts
      <4> QED BY <4>1, <4>2, <4>3 DEF ReplayInv, TypeOK
    <3> QED BY <1>1, <3>1, <3>2, <3>3, <3>4 DEF Apply
  <2> QED BY <2>3, <2>5 DEF ReplayInv, TypeOK
<1>2. CASE Refuse \/ UNCHANGED vars
  <2>1. /\ log' = log /\ next' = next /\ runs' = runs /\ order' = order /\ counts' = counts
        /\ failed' \in BOOLEAN
    BY <1>2 DEF Refuse, vars, ReplayInv, TypeOK
  <2>2. TypeOK'
    BY <2>1 DEF ReplayInv, TypeOK
  <2>3. \A r, type : RunStart(r)' = RunStart(r) /\ RunEvents(r, type)' = RunEvents(r, type)
    BY <2>1 DEF RunStart, StartAt, RunEvents
  <2>4. RunsProjected' /\ OrderIsCompletionOrder' /\ ReusesCounted'
    BY <2>1, <2>3 DEF ReplayInv, RunsProjected, Projected, OrderIsCompletionOrder, ReusesCounted,
                     ReusesOf, RunsOf
  <2>5. ExecutionsCounted' /\ StatisticsAddUp'
    BY <2>1, SameCounts
  <2> QED BY <2>2, <2>4, <2>5 DEF ReplayInv
<1> QED BY <1>1, <1>2 DEF Next

\* The replay stays within the invariant.
LEMMA ReplayInvariant == Spec => []ReplayInv
BY InitReplay, StepReplay, PTL DEF Spec

\* Whatever log is replayed, no counter ever goes below zero, and the Runs that
\* ended, and no others, have a rank in the order, each one rank (record.go,
\* State.apply).
THEOREM EndedRunsRanked == Spec => [](TypeOK /\ EndedIsRanked)
<1>1. ReplayInv => TypeOK /\ EndedIsRanked
  <2> SUFFICES ASSUME ReplayInv PROVE EndedIsRanked
    BY DEF ReplayInv
  <2> DEFINE ended(r) == runs[r] # NoRun /\ runs[r].state = "completed"
             ends(r) == RunEvents(r, "finished")
  <2>1. order \in Seq(Run) /\ \A i \in DOMAIN order : order[i] \in Run
    BY DEF ReplayInv, TypeOK
  <2>2. \A r \in Run : ends(r) # {} <=> ended(r)
    BY DEF ReplayInv, RunsProjected, Projected
  <2>3. {order[i] : i \in DOMAIN order} = {r \in Run : ends(r) # {}}
    BY DEF ReplayInv, OrderIsCompletionOrder
  <2>4. \A r \in Run : ended(r) <=> \E i \in DOMAIN order : order[i] = r
    BY <2>2, <2>3
  <2>5. ASSUME NEW i \in DOMAIN order, NEW j \in DOMAIN order, order[i] = order[j]
        PROVE  ~(i < j)
    <3>1. PICK m \in ends(order[i]) : TRUE
      BY <2>1, <2>3
    <3>2. m \in Nat
      BY LogsAssumption DEF RunEvents, ReplayInv, TypeOK
    <3>3. i < j => m < m
      BY <2>5, <3>1 DEF ReplayInv, OrderIsCompletionOrder
    <3> QED BY <3>2, <3>3
  <2>6. \A i, j \in DOMAIN order : order[i] = order[j] => i = j
    BY <2>1, <2>5
  <2> QED BY <2>4, <2>6 DEF EndedIsRanked
<1> QED BY <1>1, ReplayInvariant, PTL

\* Whatever log is replayed, each execution is in one place of the statistics.
THEOREM StatisticsBalance == Spec => []StatisticsAddUp
<1>1. ReplayInv => StatisticsAddUp
  BY DEF ReplayInv
<1> QED BY <1>1, ReplayInvariant, PTL

\* What is projected from a log, whatever log, is what the log says by itself,
\* Run by Run and number by number (record.go:65-135).
THEOREM ProjectionHolds == Spec => []ProjectionMatchesLog
<1>1. ReplayInv => ProjectionMatchesLog
  <2> SUFFICES ASSUME ReplayInv PROVE ProjectionMatchesLog
    OBVIOUS
  <2>1. ASSUME NEW k \in Key
        PROVE  /\ counts[k].executions = Cardinality(RunsOf(k))
               /\ \A st \in Status : counts[k][st] = Cardinality(EndedWith(k, st))
               /\ counts[k].unfinished =
                      Cardinality({r \in RunsOf(k) : RunEvents(r, "finished") = {}})
               /\ counts[k].reuses =
                      Cardinality(UNION {RunEvents(r, "reused") : r \in RunsOf(k)})
    <3>1. RunsOf(k) = Executed(k)
      BY RunsOfTask
    <3>2. /\ \A r \in Executed(k) : Projected(r) /\ runs[r] \in RunRecord
          /\ \A r \in Executed(k) : runs[r].state \in {"unfinished", "completed"}
      BY DEF ReplayInv, RunsProjected, TypeOK, Executed, RunRecord
    <3>3. \A st \in Status : EndedWith(k, st) = Completed(k, st)
      BY <3>1, <3>2 DEF EndedWith, Completed, Executed, Projected
    <3>4. {r \in RunsOf(k) : RunEvents(r, "finished") = {}} = Executing(k)
      BY <3>1, <3>2 DEF Executing, Executed, Projected
    <3> QED BY <3>1, <3>3, <3>4 DEF ReplayInv, ExecutionsCounted, ReusesCounted, ReusesOf
  <2> QED BY <2>1 DEF ReplayInv, ProjectionMatchesLog, StatisticsMatchLog
<1> QED BY <1>1, ReplayInvariant, PTL

-----------------------------------------------------------------------------
(* The viewer.  The source on a page belongs to the graph on it, and what  *)
(* the server publishes never goes back to an earlier capture.  The first  *)
(* rests on the epoch of a page: a request that carries the present one    *)
(* was sent for the node and the graph that are there now.  The second     *)
(* rests on the lock: between a capture and its publication nothing else   *)
(* is published.                                                           *)

IsRequest(r) ==
    /\ DOMAIN r = {"page", "type", "snapshot", "path", "epoch", "reply"}
    /\ r.page \in Page /\ r.epoch \in Nat

IsPage(s) ==
    /\ DOMAIN s = {"model", "epoch", "selected", "shown", "refreshing"}
    /\ s.epoch \in Nat

PageTypes ==
    /\ \A r \in wire : IsRequest(r)
    /\ pages = [p \in Page |-> pages[p]] /\ \A p \in Page : IsPage(pages[p])

\* A source that is asked for under the present epoch is of what the page has.
RequestInv ==
    \A r \in wire : r.type = "source" =>
        /\ r.epoch <= pages[r.page].epoch
        /\ r.epoch = pages[r.page].epoch =>
               /\ r.snapshot = Data(pages[r.page].model).content
               /\ r.path = pages[r.page].selected
        /\ r.reply # Nothing /\ r.reply[1] = "ok" =>
               Data(r.reply) = [content |-> r.snapshot, path |-> r.path]

PageInv == PageTypes /\ RequestInv /\ SourceOfThePage

-----------------------------------------------------------------------------
\* No page shows anything yet, and nothing is on the wire.
LEMMA InitPageInv == ASSUME ViewerInit PROVE PageInv
  BY DEF ViewerInit, PageInv, PageTypes, IsPage, RequestInv, SourceOfThePage, Nothing

\* A request is answered without its page: what is sent is one of the sources.
LEMMA StepAnswer ==
    ASSUME PageInv, NEW r \in wire, NEW with, Answer(r, with), UNCHANGED pages,
           r.type = "source" /\ with # Nothing /\ with[1] = "ok" =>
               Data(with) = [content |-> r.snapshot, path |-> r.path]
    PROVE  PageInv'
<1> DEFINE answered == [r EXCEPT !.reply = with]
<1>1. IsRequest(r)
  BY DEF PageInv, PageTypes
<1>2. /\ answered.page = r.page /\ answered.type = r.type /\ answered.snapshot = r.snapshot
      /\ answered.path = r.path /\ answered.epoch = r.epoch /\ answered.reply = with
      /\ IsRequest(answered)
  BY <1>1 DEF IsRequest
<1> HIDE DEF answered
<1>3. \A q \in wire' : q \in wire \/ q = answered
  BY DEF Answer, answered
<1>4. PageTypes'
  BY <1>2, <1>3 DEF PageInv, PageTypes, IsPage
<1>5. RequestInv'
  BY <1>2, <1>3 DEF PageInv, RequestInv, Data
<1>6. SourceOfThePage'
  BY DEF PageInv, SourceOfThePage, Data
<1> QED BY <1>4, <1>5, <1>6 DEF PageInv

\* What the server does changes no page, and answers with what was asked for.
LEMMA StepServer ==
    ASSUME PageInv,
           \/ EditTree \/ Graph \/ Source \/ BeginRefresh \/ RefuseRefresh \/ CaptureTree
           \/ Publish \/ FailRefresh
    PROVE  PageInv'
<1>1. CASE EditTree \/ BeginRefresh \/ CaptureTree
  BY <1>1 DEF EditTree, BeginRefresh, CaptureTree, PageInv, PageTypes, IsPage, RequestInv,
              SourceOfThePage, Data
<1>2. CASE Source
  <2>1. PICK r \in Asked("source") :
            Answer(r, IF r.snapshot = current.content
                      THEN <<"ok", [content |-> current.content, path |-> r.path]>>
                      ELSE <<"conflict">>)
    BY <1>2 DEF Source
  <2>2. r \in wire /\ UNCHANGED pages
    BY <1>2 DEF Source, Asked
  <2> DEFINE with == IF r.snapshot = current.content
                     THEN <<"ok", [content |-> current.content, path |-> r.path]>>
                     ELSE <<"conflict">>
  <2>3. with # Nothing /\ with[1] = "ok" => Data(with) = [content |-> r.snapshot, path |-> r.path]
    BY DEF Data
  <2> QED BY <2>1, <2>2, <2>3, StepAnswer
<1>3. CASE Graph \/ RefuseRefresh \/ Publish \/ FailRefresh
  <2>1. PICK r \in wire :
            /\ r.type # "source" /\ UNCHANGED pages
            /\ \/ Answer(r, <<"ok", current>>) \/ Answer(r, <<"ok", current'>>)
               \/ Answer(r, <<"conflict">>) \/ Answer(r, <<"error">>)
    BY <1>3 DEF Graph, RefuseRefresh, Publish, FailRefresh, Asked
  <2> QED BY <2>1, StepAnswer
<1> QED BY <1>1, <1>2, <1>3

\* A page that is given other details outdates every request for a source.
LEMMA StepDetails ==
    ASSUME PageInv, NEW p \in Page, NEW s, IsPage(s), pages' = [pages EXCEPT ![p] = s],
           s.epoch = pages[p].epoch + 1, s.shown = Nothing,
           \A r \in wire' : \/ r \in wire
                            \/ /\ IsRequest(r) /\ r.page = p /\ r.epoch = s.epoch
                               /\ r.reply = Nothing
                               /\ r.snapshot = Data(s.model).content /\ r.path = s.selected
    PROVE  PageInv'
<1>1. /\ pages' = [q \in Page |-> pages'[q]] /\ pages'[p] = s
      /\ \A q \in Page \ {p} : pages'[q] = pages[q]
      /\ pages[p].epoch \in Nat
  BY DEF PageInv, PageTypes, IsPage
<1>2. PageTypes'
  BY <1>1 DEF PageInv, PageTypes, IsPage, IsRequest
<1>3. RequestInv'
  <2> SUFFICES ASSUME NEW r \in wire', r.type = "source"
               PROVE  /\ r.epoch <= pages'[r.page].epoch
                      /\ r.epoch = pages'[r.page].epoch =>
                            /\ r.snapshot = Data(pages'[r.page].model).content
                            /\ r.path = pages'[r.page].selected
                      /\ r.reply # Nothing /\ r.reply[1] = "ok" =>
                            Data(r.reply) = [content |-> r.snapshot, path |-> r.path]
    BY DEF RequestInv, Data, Nothing
  <2>1. CASE r \in wire /\ r.page = p
    <3>1. r.epoch \in Nat /\ r.epoch <= pages[p].epoch
      BY <2>1 DEF PageInv, PageTypes, IsRequest, RequestInv
    <3>2. r.epoch < s.epoch
      BY <3>1, <1>1
    <3> QED BY <2>1, <3>1, <3>2, <1>1 DEF PageInv, RequestInv
  <2>2. CASE r \in wire /\ r.page # p
    BY <2>2, <1>1 DEF PageInv, RequestInv, PageTypes, IsRequest
  <2>3. CASE r \notin wire
    BY <2>3, <1>1 DEF IsPage
  <2> QED BY <2>1, <2>2, <2>3
<1>4. SourceOfThePage'
  BY <1>1 DEF PageInv, SourceOfThePage, Data, Nothing
<1> QED BY <1>2, <1>3, <1>4 DEF PageInv

\* A page that changes neither its graph nor its selection nor its epoch.
LEMMA StepSame ==
    ASSUME PageInv, NEW p \in Page, NEW s, IsPage(s), pages' = [pages EXCEPT ![p] = s],
           s.epoch = pages[p].epoch, s.model = pages[p].model, s.selected = pages[p].selected,
           s.shown # Nothing /\ s.shown[1] = "ok" =>
               Data(s.shown) = [content |-> Data(s.model).content, path |-> s.selected],
           \A r \in wire' : r \in wire \/ (IsRequest(r) /\ r.type # "source")
    PROVE  PageInv'
<1>1. /\ pages' = [q \in Page |-> pages'[q]] /\ pages'[p] = s
      /\ \A q \in Page \ {p} : pages'[q] = pages[q]
  BY DEF PageInv, PageTypes
<1>2. PageTypes'
  BY <1>1 DEF PageInv, PageTypes, IsPage, IsRequest
<1>3. RequestInv'
  BY <1>1 DEF PageInv, RequestInv, PageTypes, IsRequest, Data
<1>4. SourceOfThePage'
  BY <1>1 DEF PageInv, SourceOfThePage, Data
<1> QED BY <1>2, <1>3, <1>4 DEF PageInv

\* What a page does: it sends, or takes what answers its present epoch.
LEMMA StepPage ==
    ASSUME PageInv,
           \/ ShowGraph \/ ShowSource \/ ShowRefresh
           \/ \E p \in Page : Open(p) \/ PressRefresh(p) \/ \E path \in Path : Select(p, path)
    PROVE  PageInv'
<1> USE DEF PageInv, PageTypes
<1>0. \A p \in Page : IsPage(pages[p]) /\ pages[p].epoch \in Nat
  BY DEF IsPage
<1>1. CASE ShowGraph
  <2>1. PICK r \in wire : /\ wire' = wire \ {r}
                          /\ pages' = [pages EXCEPT ![r.page] = WithModel(pages[r.page], r.reply)]
    BY <1>1 DEF ShowGraph, Answered
  <2>2. r.page \in Page /\ IsPage(pages[r.page])
    BY DEF IsRequest
  <2> DEFINE s == WithModel(pages[r.page], r.reply)
  <2>3. IsPage(s) /\ s.epoch = pages[r.page].epoch + 1 /\ s.shown = Nothing
    BY <2>2 DEF IsPage, WithModel
  <2> HIDE DEF PageInv, PageTypes, s
  <2>4. pages' = [pages EXCEPT ![r.page] = s] BY <2>1 DEF s
  <2> QED BY <2>1, <2>2, <2>3, <2>4, StepDetails
<1>2. CASE ShowSource
  <2>1. PICK r \in wire :
            /\ r.type = "source" /\ r.reply # Nothing
            /\ wire' = wire \ {r}
            /\ pages' = IF Late(r) THEN pages ELSE [pages EXCEPT ![r.page].shown = r.reply]
    BY <1>2 DEF ShowSource, Answered
  <2>2. r.page \in Page /\ IsPage(pages[r.page])
    BY DEF IsRequest
  <2> DEFINE s == [pages[r.page] EXCEPT !.shown = r.reply]
  <2>3. CASE Late(r)
    BY <2>1, <2>3 DEF RequestInv, SourceOfThePage, Data, IsPage
  <2>4. CASE ~Late(r)
    <3>1. /\ IsPage(s) /\ s.epoch = pages[r.page].epoch /\ s.model = pages[r.page].model
          /\ s.selected = pages[r.page].selected /\ s.shown = r.reply
      BY <2>2 DEF IsPage, WithModel
    <3>2. r.reply[1] = "ok" =>
              Data(r.reply) = [content |-> Data(s.model).content, path |-> s.selected]
      <4>1. r.epoch = pages[r.page].epoch
        BY <2>4 DEF Late
      <4>2. r.snapshot = Data(pages[r.page].model).content /\ r.path = pages[r.page].selected
        BY <2>1, <4>1 DEF RequestInv
      <4>3. r.reply[1] = "ok" => Data(r.reply) = [content |-> r.snapshot, path |-> r.path]
        BY <2>1 DEF RequestInv
      <4> HIDE DEF s
      <4> QED BY <3>1, <4>2, <4>3
    <3>3. pages' = [pages EXCEPT ![r.page] = s]
      BY <2>1, <2>4
    <3> HIDE DEF PageInv, PageTypes, s
    <3> QED BY <2>1, <2>2, <3>1, <3>2, <3>3, StepSame
  <2> QED BY <2>3, <2>4
<1>3. CASE ShowRefresh
  <2>1. PICK r \in wire :
            /\ wire' = wire \ {r}
            /\ pages' = [pages EXCEPT ![r.page] =
                            [(IF r.reply[1] # "ok" THEN @ ELSE WithModel(@, r.reply))
                                EXCEPT !.refreshing = FALSE]]
    BY <1>3 DEF ShowRefresh, Answered
  <2>2. r.page \in Page /\ IsPage(pages[r.page])
    BY DEF IsRequest
  <2>3. CASE r.reply[1] # "ok"
    <3> DEFINE s == [pages[r.page] EXCEPT !.refreshing = FALSE]
    <3>1. /\ IsPage(s) /\ s.epoch = pages[r.page].epoch /\ s.model = pages[r.page].model
          /\ s.selected = pages[r.page].selected /\ s.shown = pages[r.page].shown
      BY <2>2 DEF IsPage, WithModel
    <3>2. s.shown # Nothing /\ s.shown[1] = "ok" =>
              Data(s.shown) = [content |-> Data(s.model).content, path |-> s.selected]
      BY <2>2, <3>1 DEF SourceOfThePage, Data
    <3>3. pages' = [pages EXCEPT ![r.page] = s] BY <2>1, <2>3
    <3> HIDE DEF PageInv, PageTypes, s
    <3> QED BY <2>1, <2>2, <3>1, <3>2, <3>3, StepSame
  <2>4. CASE r.reply[1] = "ok"
    <3> DEFINE s == [WithModel(pages[r.page], r.reply) EXCEPT !.refreshing = FALSE]
    <3>1. IsPage(s) /\ s.epoch = pages[r.page].epoch + 1 /\ s.shown = Nothing
      BY <2>2 DEF IsPage, WithModel
    <3>2. pages' = [pages EXCEPT ![r.page] = s] BY <2>1, <2>4
    <3> HIDE DEF PageInv, PageTypes, s
    <3> QED BY <2>1, <2>2, <3>1, <3>2, StepDetails
  <2> QED BY <2>3, <2>4
<1>4. ASSUME NEW p \in Page, Open(p) PROVE PageInv'
  <2> DEFINE r == Request(p, "graph", Nothing, Nothing)
  <2>1. IsRequest(r) /\ r.type # "source"
    BY DEF Request, IsRequest, IsPage
  <2> HIDE DEF r
  <2>2. \A q \in wire' : q \in wire \/ q = r
    BY <1>4 DEF Open, Send, r
  <2> QED BY <1>4, <2>1, <2>2 DEF Open, RequestInv, SourceOfThePage, IsPage, Data
<1>5. ASSUME NEW p \in Page, PressRefresh(p) PROVE PageInv'
  <2> DEFINE r == Request(p, "refresh", Nothing, Nothing)
             s == [pages[p] EXCEPT !.refreshing = TRUE]
  <2>1. IsRequest(r) /\ r.type # "source"
    BY DEF Request, IsRequest, IsPage
  <2>2. /\ IsPage(s) /\ s.epoch = pages[p].epoch /\ s.model = pages[p].model
        /\ s.selected = pages[p].selected /\ s.shown = pages[p].shown
    BY DEF IsPage
  <2>3. s.shown # Nothing /\ s.shown[1] = "ok" =>
            Data(s.shown) = [content |-> Data(s.model).content, path |-> s.selected]
    BY <2>2 DEF SourceOfThePage, Data
  <2>4. \A q \in wire' : q \in wire \/ q = r
    BY <1>5 DEF PressRefresh, Send
  <2>5. pages' = [pages EXCEPT ![p] = s]
    BY <1>5 DEF PressRefresh
  <2> HIDE DEF PageInv, PageTypes, r, s
  <2> QED BY <2>1, <2>2, <2>3, <2>4, <2>5, StepSame
<1>6. ASSUME NEW p \in Page, NEW path \in Path, Select(p, path) PROVE PageInv'
  <2> DEFINE s == [pages[p] EXCEPT !.epoch = @ + 1, !.selected = path, !.shown = Nothing]
             r == [Request(p, "source", Data(pages[p].model).content, path) EXCEPT !.epoch = @ + 1]
  <2>1. /\ IsPage(s) /\ s.epoch = pages[p].epoch + 1 /\ s.model = pages[p].model
        /\ s.selected = path /\ s.shown = Nothing
    BY DEF IsPage
  <2>2. /\ IsRequest(r) /\ r.page = p /\ r.epoch = s.epoch /\ r.reply = Nothing
        /\ r.snapshot = Data(s.model).content /\ r.path = s.selected
    BY <2>1 DEF Request, IsRequest, IsPage
  <2>3. \A q \in wire' : q \in wire \/ q = r
    BY <1>6 DEF Select, Send
  <2>4. pages' = [pages EXCEPT ![p] = s]
    BY <1>6 DEF Select
  <2> HIDE DEF PageInv, PageTypes, r, s
  <2> QED BY <2>1, <2>2, <2>3, <2>4, StepDetails
<1> QED BY <1>1, <1>2, <1>3, <1>4, <1>5, <1>6

\* Every step of the server and of a page.
LEMMA StepPageInv == ASSUME PageInv, [ViewerNext]_viewerVars PROVE PageInv'
<1>1. CASE UNCHANGED viewerVars
  BY <1>1 DEF viewerVars, PageInv, PageTypes, IsPage, RequestInv, SourceOfThePage, Data
<1> QED BY <1>1, StepServer, StepPage DEF ViewerNext

\* "Graph nodes, relations and displayed source belong to one captured snapshot",
\* for any number of pages whose requests and answers overtake each other.
THEOREM SourceBelongs == ViewerSpec => []SourceOfThePage
<1>1. ViewerInit => PageInv BY InitPageInv
<1>2. PageInv /\ [ViewerNext]_viewerVars => PageInv' BY StepPageInv
<1>3. PageInv => SourceOfThePage BY DEF PageInv
<1> QED BY <1>1, <1>2, <1>3, PTL DEF ViewerSpec

-----------------------------------------------------------------------------
(* The published snapshot.                                                 *)

Captured(p) == builds[p] # Nothing /\ builds[p] # <<"begun">>

ServerInv ==
    /\ edits \in Nat /\ current.at \in Nat /\ current.at <= edits
    /\ builds = [p \in Page |-> builds[p]]
    /\ \A r \in wire : IsRequest(r)
    /\ \A p, q \in Page : builds[p] # Nothing /\ builds[q] # Nothing => p = q
    /\ \A p \in Page : Captured(p) =>
           /\ Data(builds[p]).at \in Nat
           /\ current.at <= Data(builds[p]).at /\ Data(builds[p]).at <= edits

\* What the server starts with is its first capture.
LEMMA InitServerInv == ASSUME ViewerInit PROVE ServerInv
  BY DEF ViewerInit, ServerInv, Captured, Capture

\* A request that is sent or answered is still one, and nothing else is captured.
LEMMA StepWire ==
    ASSUME ServerInv, PageTypes', UNCHANGED <<edits, current, builds>>
    PROVE  ServerInv'
  BY DEF ServerInv, PageTypes, Captured, Data

\* Only who holds the lock captures and publishes.
LEMMA StepServerInv ==
    ASSUME ServerInv, PageTypes', [ViewerNext]_viewerVars
    PROVE  ServerInv' /\ (current' # current => current'.at >= current.at)
<1>1. CASE EditTree
  BY <1>1 DEF EditTree, ServerInv, Captured, Data
<1>2. CASE BeginRefresh
  <2>1. PICK r \in wire : builds' = [builds EXCEPT ![r.page] = <<"begun">>]
    BY <1>2 DEF BeginRefresh, Asked
  <2>2. r.page \in Page /\ \A p \in Page : builds[p] = Nothing
    BY <1>2 DEF BeginRefresh, ServerInv, IsRequest
  <2> QED BY <1>2, <2>1, <2>2 DEF BeginRefresh, ServerInv, Captured, Data
<1>3. CASE CaptureTree
  <2>1. PICK p \in Page : /\ builds[p] = <<"begun">>
                          /\ builds' = [builds EXCEPT ![p] = <<"captured", Capture>>]
                          /\ UNCHANGED <<edits, current, wire>>
    BY <1>3 DEF CaptureTree
  <2>2. Data(<<"captured", Capture>>).at = edits
    BY DEF Data, Capture
  <2>0. <<"begun">> # Nothing
    BY DEF Nothing
  <2>3. /\ builds[p] # Nothing
        /\ \A q \in Page : builds'[q] # Nothing => builds[q] # Nothing
    BY <2>0, <2>1 DEF ServerInv
  <2>4. \A q \in Page : Captured(q)' => q = p
    BY <2>1, <2>3 DEF ServerInv, Captured
  <2> QED BY <2>1, <2>2, <2>3, <2>4 DEF ServerInv, Captured, Nothing, Data
<1>4. CASE Publish
  <2>1. PICK r \in wire : /\ Captured(r.page) /\ current' = Data(builds[r.page])
                          /\ builds' = [builds EXCEPT ![r.page] = Nothing]
                          /\ UNCHANGED edits
    BY <1>4 DEF Publish, Asked, Captured
  <2>2. r.page \in Page
    BY DEF ServerInv, IsRequest
  <2>3. \A p \in Page : builds'[p] = Nothing
    BY <2>1, <2>2 DEF ServerInv, Captured
  <2> QED BY <2>1, <2>2, <2>3 DEF ServerInv, Captured, PageTypes
<1>5. CASE FailRefresh
  <2>1. PICK r \in wire : /\ builds' = [builds EXCEPT ![r.page] = Nothing]
                          /\ UNCHANGED <<edits, current>>
    BY <1>5 DEF FailRefresh, Asked
  <2>2. \A p \in Page : builds'[p] = builds[p] \/ builds'[p] = Nothing
    BY <2>1 DEF ServerInv
  <2> QED BY <2>1, <2>2 DEF ServerInv, Captured, PageTypes
<1>6. CASE UNCHANGED <<edits, current, builds>>
  BY <1>6, StepWire
<1>7. CASE UNCHANGED viewerVars
  BY <1>7, <1>6 DEF viewerVars
<1>8. CASE \/ Graph \/ Source \/ RefuseRefresh \/ ShowGraph \/ ShowSource \/ ShowRefresh
           \/ \E p \in Page : Open(p) \/ PressRefresh(p) \/ \E path \in Path : Select(p, path)
  BY <1>8, <1>6 DEF Graph, Source, RefuseRefresh, ShowGraph, ShowSource, ShowRefresh, Open,
                    PressRefresh, Select
<1> QED BY <1>1, <1>2, <1>3, <1>4, <1>5, <1>7, <1>8 DEF ViewerNext

\* No refresh takes the server back to an earlier capture than the published one,
\* whichever of them is done first (viewer/server.go, reload).
THEOREM PublishedAdvances == ViewerSpec => RefreshAdvances
<1>1. ViewerInit => PageInv /\ ServerInv
  BY InitPageInv, InitServerInv
<1>2. PageInv /\ ServerInv /\ [ViewerNext]_viewerVars => PageInv' /\ ServerInv'
  BY StepPageInv, StepServerInv DEF PageInv
<1>3. PageInv /\ ServerInv /\ [ViewerNext]_viewerVars => [current' # current => current'.at >= current.at]_viewerVars
  BY StepPageInv, StepServerInv DEF PageInv
<1> QED BY <1>1, <1>2, <1>3, PTL DEF ViewerSpec, RefreshAdvances

-----------------------------------------------------------------------------
(* The installation.  Whatever is installed can run.  The invariant        *)
(* follows a staged binary from step to step: by the time it may be        *)
(* renamed it is whole, executable and written back, so that nothing that  *)
(* follows, a loss of power included, can harm it.                         *)

Staged == {"none", "some", "all", "other"}
StagedFile == [version : Nat, bytes : Staged, synced : BOOLEAN, mode : BOOLEAN]
UpgradeState == [pc : {"new", "over", "check", "stage", "download", "verify", "extract", "chmod",
                "sync", "rename"},
          running : Nat, release : Nat, archive : Staged, staged : StagedFile]

BinaryTypes ==
    /\ latest \in Nat
    /\ executable \in StagedFile /\ durable \in StagedFile
    /\ procs \in [Process -> UpgradeState]

\* What has been verified, and what has been done to the staged file by then.
StagedInv(state) ==
    /\ state.pc = "extract" => state.archive = "all"
    /\ state.pc \in {"chmod", "sync", "rename"} => state.staged.bytes = "all"
    /\ state.pc \in {"sync", "rename"} => state.staged.mode
    /\ state.pc = "rename" => state.staged.synced

Safe(file) == Runnable(file) /\ file.synced

BinaryInv ==
    /\ BinaryTypes
    /\ \A p \in Process : StagedInv(procs[p])
    /\ Safe(executable) /\ Safe(durable)

\* A process that has ended has staged nothing.
LEMMA EndedTyped == Ended \in UpgradeState /\ StagedInv(Ended)
  BY DEF Ended, NoFile, UpgradeState, StagedFile, Staged, StagedInv

\* What is installed at first is a whole release, written back.
LEMMA InitBinary == ASSUME LastVersion \in Nat, UpgradeInit PROVE BinaryInv
<1>1. latest \in Nat
  BY DEF UpgradeInit
<1>2. PICK v \in 1..latest :
          executable = [version |-> v, bytes |-> "all", synced |-> TRUE, mode |-> TRUE]
  BY DEF UpgradeInit
<1>3. v \in Nat
  BY <1>1
<1>4. executable \in StagedFile /\ Safe(executable) /\ durable = executable
  BY <1>2, <1>3 DEF UpgradeInit, StagedFile, Staged, Safe, Runnable
<1>5. [Ended EXCEPT !.pc = "new"] \in UpgradeState /\ StagedInv([Ended EXCEPT !.pc = "new"])
  BY DEF Ended, NoFile, UpgradeState, StagedFile, Staged, StagedInv
<1>6. procs = [p \in Process |-> [Ended EXCEPT !.pc = "new"]]
  BY DEF UpgradeInit
<1> QED BY <1>1, <1>4, <1>5, <1>6 DEF BinaryInv, BinaryTypes

\* What a process makes of its own state leaves the rest as it was.
LEMMA StepOf ==
    ASSUME BinaryInv, NEW p \in Process, NEW s \in UpgradeState, StagedInv(s),
           procs' = [procs EXCEPT ![p] = s], Rest
    PROVE  BinaryInv'
<1>1. procs' \in [Process -> UpgradeState]
  BY DEF BinaryInv, BinaryTypes
<1>2. \A q \in Process : StagedInv(procs'[q])
  BY DEF BinaryInv, BinaryTypes
<1> QED BY <1>1, <1>2 DEF BinaryInv, BinaryTypes, Rest, Safe, Runnable, StagedInv

\* What a process does but for the rename.
LEMMA StepStaging ==
    ASSUME BinaryInv, NEW p \in Process,
           \/ Start(p) \/ Check(p) \/ Stage(p) \/ Download(p) \/ Verify(p)
           \/ Extract(p) \/ Chmod(p) \/ Sync(p) \/ GiveUp(p)
    PROVE  BinaryInv'
<1> DEFINE old == procs[p]
<1>0. /\ old \in UpgradeState /\ StagedInv(old) /\ latest \in Nat
      /\ executable.version \in Nat /\ Rest
      /\ old.staged \in StagedFile
  BY DEF BinaryInv, BinaryTypes, StagedFile, UpgradeState, Start, Check, Stage, Download, Verify, Extract,
         Chmod, Sync, GiveUp, Step
<1> SUFFICES \E s \in UpgradeState : StagedInv(s) /\ procs' = [procs EXCEPT ![p] = s]
  BY <1>0, StepOf
<1>1. CASE Start(p)
  <2> DEFINE s == [old EXCEPT !.pc = "check", !.running = executable.version]
  <2>1. s \in UpgradeState /\ StagedInv(s) BY <1>0 DEF UpgradeState, StagedInv
  <2> QED BY <1>1, <2>1 DEF Start
<1>2. CASE Check(p)
  <2> DEFINE s == [old EXCEPT !.pc = "stage", !.release = latest]
  <2>1. s \in UpgradeState /\ StagedInv(s) BY <1>0 DEF UpgradeState, StagedInv
  <2> QED BY <1>2, <2>1 DEF Check
<1>3. CASE Stage(p)
  <2> DEFINE file == [NoFile EXCEPT !.version = old.release]
             s == [old EXCEPT !.pc = "download", !.staged = file]
  <2>1. file \in StagedFile BY <1>0 DEF UpgradeState, StagedFile, NoFile, Staged
  <2> HIDE DEF file
  <2>2. s \in UpgradeState /\ StagedInv(s) BY <1>0, <2>1 DEF UpgradeState, StagedInv
  <2> QED BY <1>3, <2>2 DEF Stage, file
<1>4. CASE Download(p)
  <2>1. PICK bytes \in {"some", "all", "other"} :
            procs' = [procs EXCEPT ![p] = [old EXCEPT !.pc = "verify", !.archive = bytes]]
    BY <1>4 DEF Download
  <2> DEFINE s == [old EXCEPT !.pc = "verify", !.archive = bytes]
  <2>2. s \in UpgradeState /\ StagedInv(s) BY <1>0 DEF UpgradeState, StagedInv, Staged
  <2> QED BY <2>1, <2>2
<1>5. CASE Verify(p)
  <2> DEFINE s == [old EXCEPT !.pc = "extract"]
  <2>1. s \in UpgradeState /\ StagedInv(s) BY <1>0, <1>5 DEF UpgradeState, StagedInv, Verify
  <2> QED BY <1>5, <2>1 DEF Verify, Step
<1>6. CASE Extract(p)
  <2> DEFINE file == [old.staged EXCEPT !.bytes = old.archive]
             s == [old EXCEPT !.pc = "chmod", !.staged = file]
  <2>1. old.archive = "all" BY <1>0, <1>6 DEF Extract, StagedInv
  <2>2. file \in StagedFile /\ file.bytes = "all"
    BY <1>0, <2>1 DEF StagedFile, Staged
  <2>3. s = [old EXCEPT !.pc = "chmod", !.staged.bytes = old.archive] OBVIOUS
  <2>4. procs' = [procs EXCEPT ![p] = s] BY <1>6, <2>3 DEF Extract
  <2> HIDE DEF file
  <2>5. s \in UpgradeState /\ StagedInv(s) BY <1>0, <2>2 DEF UpgradeState, StagedInv
  <2> QED BY <2>4, <2>5
<1>7. CASE Chmod(p)
  <2> DEFINE file == [old.staged EXCEPT !.mode = TRUE]
             s == [old EXCEPT !.pc = "sync", !.staged = file]
  <2>1. old.staged.bytes = "all" BY <1>0, <1>7 DEF Chmod, StagedInv
  <2>2. file \in StagedFile /\ file.bytes = "all" /\ file.mode
    BY <1>0, <2>1 DEF StagedFile, Staged
  <2>3. s = [old EXCEPT !.pc = "sync", !.staged.mode = TRUE] OBVIOUS
  <2>4. procs' = [procs EXCEPT ![p] = s] BY <1>7, <2>3 DEF Chmod
  <2> HIDE DEF file
  <2>5. s \in UpgradeState /\ StagedInv(s) BY <1>0, <2>2 DEF UpgradeState, StagedInv
  <2> QED BY <2>4, <2>5
<1>8. CASE Sync(p)
  <2> DEFINE file == [old.staged EXCEPT !.synced = TRUE]
             s == [old EXCEPT !.pc = "rename", !.staged = file]
  <2>1. old.staged.bytes = "all" /\ old.staged.mode BY <1>0, <1>8 DEF Sync, StagedInv
  <2>2. file \in StagedFile /\ file.bytes = "all" /\ file.mode /\ file.synced
    BY <1>0, <2>1 DEF StagedFile, Staged
  <2>3. s = [old EXCEPT !.pc = "rename", !.staged.synced = TRUE] OBVIOUS
  <2>4. procs' = [procs EXCEPT ![p] = s] BY <1>8, <2>3 DEF Sync
  <2> HIDE DEF file
  <2>5. s \in UpgradeState /\ StagedInv(s) BY <1>0, <2>2 DEF UpgradeState, StagedInv
  <2> QED BY <2>4, <2>5
<1>9. CASE GiveUp(p)
  BY <1>9, EndedTyped DEF GiveUp
<1> QED BY <1>1, <1>2, <1>3, <1>4, <1>5, <1>6, <1>7, <1>8, <1>9

\* What is renamed is whole, executable and written back.
LEMMA StepRename == ASSUME BinaryInv, NEW p \in Process, Rename(p) PROVE BinaryInv'
<1>1. executable' \in StagedFile /\ Safe(executable')
  BY DEF BinaryInv, BinaryTypes, StagedInv, Rename, Safe, Runnable, UpgradeState
<1>2. procs' \in [Process -> UpgradeState] /\ \A q \in Process : StagedInv(procs'[q])
  BY EndedTyped DEF Rename, BinaryInv, BinaryTypes
<1> QED BY <1>1, <1>2 DEF Rename, BinaryInv, BinaryTypes, Safe, Runnable, StagedInv

\* What has been synchronised loses nothing.
LEMMA StepPowerLoss == ASSUME BinaryInv, PowerLoss PROVE BinaryInv'
<1>1. durable \in StagedFile /\ durable.synced /\ durable.bytes = "all" /\ durable.mode
  BY DEF BinaryInv, BinaryTypes, Safe, Runnable
<1>2. executable' = [durable EXCEPT !.bytes = "all", !.synced = TRUE] /\ durable' = executable'
  BY <1>1 DEF PowerLoss
<1>3. executable' \in StagedFile /\ Safe(executable')
  BY <1>1, <1>2 DEF StagedFile, Staged, Safe, Runnable
<1>4. procs' \in [Process -> UpgradeState] /\ \A p \in Process : StagedInv(procs'[p])
  BY EndedTyped DEF PowerLoss, BinaryInv, BinaryTypes
<1> QED BY <1>2, <1>3, <1>4 DEF PowerLoss, BinaryInv, BinaryTypes, StagedInv, Safe, Runnable

\* Every step of a process, of the system and of the project.
LEMMA StepBinary == ASSUME BinaryInv, [UpgradeNext]_upgradeVars PROVE BinaryInv'
<1>1. CASE \E p \in Process :
               \/ Start(p) \/ Check(p) \/ Stage(p) \/ Download(p) \/ Verify(p)
               \/ Extract(p) \/ Chmod(p) \/ Sync(p) \/ GiveUp(p)
  BY <1>1, StepStaging
<1>2. CASE \E p \in Process : Rename(p)
  BY <1>2, StepRename
<1>3. CASE Release
  BY <1>3 DEF Release, BinaryInv, BinaryTypes, StagedInv, Safe, Runnable
<1>4. CASE WriteBack
  BY <1>4 DEF WriteBack, BinaryInv, BinaryTypes, StagedInv, Safe, Runnable
<1>5. CASE PowerLoss
  BY <1>5, StepPowerLoss
<1>6. CASE UNCHANGED upgradeVars
  BY <1>6 DEF upgradeVars, BinaryInv, BinaryTypes, StagedInv, Safe, Runnable
<1> QED BY <1>1, <1>2, <1>3, <1>4, <1>5, <1>6 DEF UpgradeNext

\* What is installed, now or after a loss of power, is all of a release and may
\* be executed (upgrade/install.go, Install), whatever processes overlap or die.
THEOREM InstalledRuns == ASSUME LastVersion \in Nat PROVE UpgradeSpec => []AlwaysRunnable
<1>1. UpgradeInit => BinaryInv BY InitBinary
<1>2. BinaryInv /\ [UpgradeNext]_upgradeVars => BinaryInv' BY StepBinary
<1>3. BinaryInv => AlwaysRunnable BY DEF BinaryInv, Safe, AlwaysRunnable
<1> QED BY <1>1, <1>2, <1>3, PTL DEF UpgradeSpec

-----------------------------------------------------------------------------
(* The capture: what a complete one says of a tree that is edited while it *)
(* is read.                                                                *)
(*                                                                         *)
(* Nothing is put back, so a file that has left what the first reading saw *)
(* of it never comes back to it.  StillFirst(f) says that f is, or has been*)
(* found by a later reading, as the first one saw it; it can only turn     *)
(* false.  What was true of such files when the first reading was done is  *)
(* therefore true, in the end, of all files that two equal readings agree  *)
(* on: there is one moment for all of them, and the patch that was made in *)
(* between saw the same.                                                   *)

Texts == Content \cup {Absent}
Results == {<<"unread">>, <<"absent">>, <<"over">>, <<"error">>, <<"file?">>, <<"large?">>}
               \cup ({"file", "large"} \X Texts)
Moments == [tree : Contents, index : Contents]
Readings == [files : [File -> Results], others : SUBSET File]
Last == IF job.kind = "snapshot" THEN 2 ELSE 3

TypeInv ==
    /\ job \in [kind : {"snapshot", "comparison"}, staged : BOOLEAN]
    /\ base \in Contents /\ tree \in Contents /\ index \in Contents
    /\ past \subseteq Moments
    /\ DOMAIN reading = {"tracked", "others", "budget", "results", "tree", "index"}
    /\ reading.tracked \subseteq File /\ reading.others \subseteq File
    /\ reading.results \in [File -> Results]
    /\ patch \in [index : SUBSET File, left : SUBSET File, changed : SUBSET File]
    /\ seen \in Seq(Readings)
    /\ pc \in {"base", "list", "others", "read", "patch", "diff", "done", "failed", "cancelled"}

PlaceInv ==
    /\ pc = "base" => Len(seen) = 0
    /\ pc \in {"list", "others", "read"} => Len(seen) < Last
    /\ pc \in {"patch", "diff"} => Len(seen) = 1 /\ job.kind = "comparison"
    /\ pc = "done" => Len(seen) = Last
    /\ pc \in {"failed", "cancelled"} => Len(seen) = 0
    /\ pc \in {"others", "read", "diff"} => ~job.staged

PastInv == Moment(tree, index) \in past

\* What is read, and what it has been since the job began.
Held(m) == IF job.staged THEN m.index ELSE m.tree
Holds == Held(Moment(tree, index))
Was(f) == {Held(m)[f] : m \in past}

Got(n) == ContentOf(seen[n].files)
Now(f) == ContentOf(reading.results)[f]
Settled(f) == f \notin Listed \/ reading.results[f][1] \in {"absent", "file", "large"}

ReadInv ==
    /\ pc = "others" => \A f \in File : reading.results[f] = Unread
    /\ pc = "read" => \A f \in File \ Listed : reading.results[f] = Unread
    /\ \A f \in File : EntryKept(f) =>
          /\ pc \in {"others", "read"} => (f \in reading.tracked <=> f \in Known(index))
          /\ pc = "read" => /\ f \notin reading.others \cap Known(index)
                            /\ Settled(f) => Now(f) \in Was(f)

\* What the first reading saw of f has not been lost since.
StillFirst(f) ==
    \/ Holds[f] = Got(1)[f]
    \/ pc = "read" /\ Settled(f) /\ Now(f) = Got(1)[f]
    \/ \E n \in 2..Len(seen) : Got(n)[f] = Got(1)[f]

FirstInv ==
    Len(seen) >= 1 =>
        /\ \A f \in File : EntryKept(f) => Got(1)[f] \in Was(f)
        /\ \E m \in past : \A f \in File :
              EntryKept(f) /\ StillFirst(f) => Held(m)[f] = Got(1)[f]

\* What the patch should say of f.
Differs(f) == IF job.staged \/ f \in Known(index) THEN Got(1)[f] # base[f] ELSE base[f] # Absent

PatchInv ==
    Len(seen) >= 1 /\ job.kind = "comparison" /\ pc # "patch" =>
        \A f \in File : EntryKept(f) =>
            /\ pc = "diff" => /\ f \in patch.index <=> f \in Known(index)
                              /\ f \notin patch.left \cap patch.changed
            /\ StillFirst(f) =>
                  (pc = "diff" /\ f \in patch.left) \/ (f \in patch.changed <=> Differs(f))

\* What the second reading should list.
Fresh(f, others) == f \in others => f \notin Known(index) /\ (StillFirst(f) => Got(1)[f] # Absent)
Found(f, content, others) == content # Absent => f \in Known(index) \/ f \in others

ListedInv ==
    pc = "read" => \A f \in File : EntryKept(f) =>
        /\ Found(f, Now(f), reading.others)
        /\ Len(seen) = 1 => Fresh(f, reading.others)

OthersInv ==
    Len(seen) >= 2 => \A f \in File : EntryKept(f) =>
        IF job.staged THEN seen[2].others = {}
        ELSE Found(f, Got(2)[f], seen[2].others) /\ Fresh(f, seen[2].others)

\* A file of which a reading has seen what it never was had been added to the
\* index between the two listings, and is tracked from then on.
WasTree(f) == {m.tree[f] : m \in past}
WasIndex(f) == {m.index[f] : m \in past}
Missed(f) == Absent \in WasIndex(f) /\ index[f] # Absent

TrackedInv ==
    ~job.staged => \A f \in File :
        /\ pc = "others" /\ f \notin reading.tracked => Absent \in WasIndex(f)
        /\ pc = "read" /\ Settled(f) =>
              Now(f) \in WasTree(f) \/ (f \notin reading.tracked /\ Missed(f))
        /\ pc \in {"others", "read"} /\ Len(seen) >= 1 =>
              Got(1)[f] \in WasTree(f) \/ f \in reading.tracked

EachInv ==
    ~job.staged => \A f \in File :
        /\ Len(seen) >= 1 => Got(1)[f] \in WasTree(f) \/ Missed(f)
        /\ Len(seen) >= 2 => Got(1)[f] \in WasTree(f) \/ Got(2)[f] \in WasTree(f)

CaptureInv ==
    /\ TypeInv /\ PlaceInv /\ PastInv
    /\ ReadInv /\ ListedInv /\ TrackedInv
    /\ FirstInv /\ PatchInv /\ OthersInv /\ EachInv

-----------------------------------------------------------------------------
(* Facts about readings.                                                   *)

LEMMA KeptContent ==
    ASSUME NEW results PROVE ContentOf(Kept(results)) = ContentOf(results)
  BY DEF ContentOf, Kept

LEMMA ContentAt ==
    ASSUME NEW results, NEW f \in File
    PROVE  ContentOf(results)[f] = IF results[f][1] \in {"file", "large"} THEN results[f][2]
                                   ELSE Absent
  BY DEF ContentOf

LEMMA Tags ==
    ASSUME NEW r \in Results
    PROVE  r[1] \in {"unread", "absent", "over", "error", "file?", "large?", "file", "large"}
  BY DEF Results

LEMMA ReadOfTyped ==
    ASSUME NEW c \in Texts
    PROVE  /\ ReadOf(c) \in Results
           /\ (IF ReadOf(c)[1] \in {"file", "large"} THEN ReadOf(c)[2] ELSE Absent) = c
  BY DEF ReadOf, Results, Texts

LEMMA ReadOfContents ==
    ASSUME NEW contents \in Contents
    PROVE  /\ [f \in File |-> ReadOf(contents[f])] \in [File -> Results]
           /\ ContentOf([f \in File |-> ReadOf(contents[f])]) = contents
<1>1. \A f \in File : contents[f] \in Texts
  BY DEF Contents, Texts
<1>2. [f \in File |-> ReadOf(contents[f])] \in [File -> Results]
  BY <1>1, ReadOfTyped
<1> DEFINE results == [f \in File |-> ReadOf(contents[f])]
<1>3. ASSUME NEW f \in File PROVE ContentOf(results)[f] = contents[f]
  <2>1. results[f] = ReadOf(contents[f])
    OBVIOUS
  <2> HIDE DEF results
  <2> QED BY <2>1, <1>1, ContentAt, ReadOfTyped
<1>4. ContentOf(results) = [f \in File |-> ContentOf(results)[f]]
  BY DEF ContentOf
<1>5. contents = [f \in File |-> contents[f]]
  BY DEF Contents
<1> QED BY <1>2, <1>3, <1>4, <1>5

LEMMA KeptTyped ==
    ASSUME NEW results \in [File -> Results] PROVE Kept(results) \in [File -> Results]
<1>1. <<"absent">> \in Results
  BY DEF Results
<1> QED BY <1>1 DEF Kept

LEMMA Lengths ==
    ASSUME TypeInv PROVE Len(seen) = 0 \/ Len(seen) = 1 \/ Len(seen) >= 2
<1>1. \A n \in Nat : n = 0 \/ n = 1 \/ n >= 2
  OBVIOUS
<1>2. Len(seen) \in Nat
  BY DEF TypeInv
<1> QED BY <1>1, <1>2

LEMMA Appended ==
    ASSUME seen \in Seq(Readings), NEW r \in Readings
    PROVE  /\ Append(seen, r) \in Seq(Readings)
           /\ Len(Append(seen, r)) = Len(seen) + 1 /\ Len(seen) \in Nat
           /\ Append(seen, r)[Len(seen) + 1] = r
           /\ \A n \in 1..Len(seen) : Append(seen, r)[n] = seen[n]
  OBVIOUS

-----------------------------------------------------------------------------
(* The world moves.                                                        *)

World == \E f \in File : Restage(f) \/ \E c \in Content \cup {Absent} : Edit(f, c)

\* What has been stays; what is read (the tree, or the index) changes to what it
\* has not been, and while nobody touches the index it stays as it is.
LEMMA Forward ==
    ASSUME TypeInv, PastInv, World
    PROVE  /\ UNCHANGED <<job, base, reading, patch, seen, pc>>
           /\ past \subseteq past' /\ past' \subseteq Moments
           /\ tree' \in Contents /\ index' \in Contents
           /\ Moment(tree, index)' \in past'
           /\ \A g \in File : EntryKept(g)' => EntryKept(g) /\ (~job.staged => index'[g] = index[g])
           /\ \A g \in File : EntryKept(g)' => Holds'[g] = Holds[g] \/ Holds'[g] \notin Was(g)
           /\ \A g \in File : index'[g] = index[g] \/ index'[g] \notin WasIndex(g)
<1>1. Moment(tree, index) \in past /\ Moment(tree, index).index = index
  BY DEF PastInv, Moment
<1>2. tree \in Contents /\ index \in Contents /\ past \subseteq Moments
  BY DEF TypeInv
<1>3. ASSUME past \subseteq past', Moment(tree, index)' \in past', job' = job, NEW g \in File, EntryKept(g)'
      PROVE  EntryKept(g) /\ (~job.staged => index'[g] = index[g])
  <2>1. job.staged \/ (\A m \in past : m.index[g] = index'[g])
    BY <1>3 DEF EntryKept
  <2> QED BY <1>1, <2>1 DEF EntryKept
<1>4. CASE \E f \in File : Restage(f)
  <2>1. PICK f \in File : Restage(f)
    BY <1>4
  <2>2. PICK c \in {tree[f], base[f], Absent} :
            index' = [index EXCEPT ![f] = c] /\ \A m \in past : m.index[f] # c
    BY <2>1 DEF Restage
  <2>3. /\ UNCHANGED <<job, base, reading, patch, seen, pc>> /\ tree' = tree
        /\ past' = past \cup {Moment(tree, index')}
    BY <2>1 DEF Restage
  <2>4. index' \in Contents /\ tree' \in Contents
    <3>1. c \in Content \cup {Absent}
      BY DEF TypeInv, Contents
    <3> QED BY <1>2, <2>2, <2>3, <3>1 DEF Contents
  <2>5. Moment(tree, index)' = Moment(tree, index') /\ Moment(tree, index') \in Moments
    BY <1>2, <2>3, <2>4 DEF Moment, Moments
  <2>6. index'[f] = c /\ \A g \in File \ {f} : index'[g] = index[g]
    BY <1>2, <2>2 DEF Contents
  <2>7. c \notin WasIndex(f)
    BY <2>2 DEF WasIndex
  <2>8. \A g \in File : index'[g] = index[g] \/ index'[g] \notin WasIndex(g)
    BY <2>6, <2>7
  <2>9. job.staged => Holds' = index' /\ Holds = index /\ \A g \in File : Was(g) = WasIndex(g)
    BY <2>3 DEF Holds, Held, Moment, Was, WasIndex
  <2>10. ~job.staged => Holds' = Holds
    BY <2>3 DEF Holds, Held, Moment
  <2>11. \A g \in File : Holds'[g] = Holds[g] \/ Holds'[g] \notin Was(g)
    BY <2>8, <2>9, <2>10
  <2>12. past \subseteq past' /\ past' \subseteq Moments /\ Moment(tree, index)' \in past'
    BY <1>2, <2>3, <2>5
  <2> QED BY <1>3, <2>3, <2>4, <2>8, <2>11, <2>12
<1>5. CASE \E f \in File : \E c \in Content \cup {Absent} : Edit(f, c)
  <2>1. PICK f \in File, c \in Content \cup {Absent} : Edit(f, c)
    BY <1>5
  <2>2. tree' = [tree EXCEPT ![f] = c] /\ index' = index
    BY <2>1 DEF Edit
  <2>3. /\ UNCHANGED <<job, base, reading, patch, seen, pc>>
        /\ past' = past \cup {Moment(tree', index)}
        /\ \A m \in past : m.tree[f] # c
    BY <2>1 DEF Edit
  <2>4. tree' \in Contents
    BY <1>2, <2>2 DEF Contents
  <2>5. Moment(tree, index)' = Moment(tree', index) /\ Moment(tree', index) \in Moments
    BY <1>2, <2>2, <2>4 DEF Moment, Moments
  <2>6. past \subseteq past' /\ past' \subseteq Moments /\ Moment(tree, index)' \in past'
    BY <1>2, <2>3, <2>5
  <2>7. tree'[f] = c /\ \A g \in File \ {f} : tree'[g] = tree[g]
    BY <1>2, <2>2 DEF Contents
  <2>8. ~job.staged => Holds' = tree' /\ Holds = tree /\ c \notin Was(f)
    BY <2>3 DEF Holds, Held, Moment, Was
  <2>9. job.staged => Holds' = Holds
    BY <2>2, <2>3 DEF Holds, Held, Moment
  <2>10. \A g \in File : Holds'[g] = Holds[g] \/ Holds'[g] \notin Was(g)
    BY <2>7, <2>8, <2>9
  <2> QED BY <1>2, <1>3, <2>2, <2>3, <2>4, <2>6, <2>10
<1> QED BY <1>4, <1>5 DEF World

\* What a reading has seen, and what the patch has, is as true as it was.
LEMMA WorldKeepsFirst ==
    ASSUME CaptureInv, World, Len(seen) >= 1
    PROVE  /\ \A f \in File : Was(f) \subseteq Was(f)'
           /\ \A f \in File : EntryKept(f)' /\ StillFirst(f)' => StillFirst(f)
           /\ Got(1)' = Got(1)
<1>1. /\ UNCHANGED <<job, base, reading, patch, seen, pc>> /\ past \subseteq past'
      /\ \A g \in File : EntryKept(g)' =>
            EntryKept(g) /\ (Holds'[g] = Holds[g] \/ Holds'[g] \notin Was(g))
  BY Forward DEF CaptureInv
<1>2. \A f \in File : EntryKept(f)' => Got(1)[f] \in Was(f)
  BY <1>1 DEF CaptureInv, FirstInv
<1>3. \A f \in File : Was(f) \subseteq Was(f)'
  BY <1>1 DEF Was, Held
<1>4. \A n \in 1..Len(seen) : Got(n)' = Got(n)
  BY <1>1 DEF Got
<1>5. \A f \in File : Settled(f)' = Settled(f) /\ Now(f)' = Now(f)
  BY <1>1 DEF Settled, Listed, Now
<1>6. Len(seen) \in Nat
  BY DEF CaptureInv, TypeInv
<1>7. ASSUME NEW f \in File, EntryKept(f)', StillFirst(f)' PROVE StillFirst(f)
  <2>1. Got(1)' = Got(1)
    BY <1>4, <1>6
  <2>2. CASE Holds'[f] = Got(1)'[f]
    <3>1. Holds'[f] \in Was(f)
      BY <1>7, <2>1, <2>2, <1>2
    <3> QED BY <1>7, <3>1, <2>1, <2>2, <1>1 DEF StillFirst
  <2>3. CASE pc' = "read" /\ Settled(f)' /\ Now(f)' = Got(1)'[f]
    BY <2>1, <2>3, <1>1, <1>5 DEF StillFirst
  <2>4. CASE \E n \in 2..Len(seen') : Got(n)'[f] = Got(1)'[f]
    <3>1. PICK n \in 2..Len(seen) : Got(n)'[f] = Got(1)'[f]
      BY <2>4, <1>1
    <3>2. Got(n)' = Got(n)
      BY <1>4, <1>6
    <3> QED BY <2>1, <3>1, <3>2 DEF StillFirst
  <2> QED BY <1>7, <2>2, <2>3, <2>4 DEF StillFirst
<1> QED BY <1>3, <1>4, <1>6, <1>7

LEMMA StepWorld == ASSUME CaptureInv, World PROVE CaptureInv'
<1>1. /\ UNCHANGED <<job, base, reading, patch, seen, pc>>
      /\ past \subseteq past' /\ past' \subseteq Moments
      /\ tree' \in Contents /\ index' \in Contents
      /\ Moment(tree, index)' \in past'
      /\ \A g \in File : index'[g] = index[g] \/ index'[g] \notin WasIndex(g)
  BY Forward DEF CaptureInv
<1>2. TypeInv'
  BY <1>1 DEF CaptureInv, TypeInv
<1>3. PlaceInv'
  BY <1>1 DEF CaptureInv, PlaceInv, Last
<1>4. PastInv'
  BY <1>1 DEF PastInv
<1>5. Listed' = Listed /\ \A f \in File : Settled(f)' = Settled(f) /\ Now(f)' = Now(f)
  BY <1>1 DEF Settled, Listed, Now
<1>6. \A n : Got(n)' = Got(n)
  BY <1>1 DEF Got
<1>7. \A f \in File : Was(f) \subseteq Was(f)'
  BY <1>1 DEF Was, Held
<1>8. ASSUME NEW f \in File, EntryKept(f)'
      PROVE  EntryKept(f) /\ (~job.staged => (f \in Known(index)' <=> f \in Known(index)))
  <2>1. EntryKept(f) /\ (~job.staged => index'[f] = index[f])
    BY <1>8, Forward DEF CaptureInv
  <2> QED BY <2>1 DEF Known
<1>9. ReadInv'
  <2>1. pc \in {"others", "read"} => ~job.staged
    BY DEF CaptureInv, PlaceInv
  <2> QED BY <1>1, <1>5, <1>7, <1>8, <2>1 DEF CaptureInv, ReadInv
<1>10. FirstInv'
  <2> SUFFICES ASSUME Len(seen) >= 1
               PROVE  /\ \A f \in File : EntryKept(f)' => Got(1)'[f] \in Was(f)'
                      /\ \E m \in past' : \A f \in File :
                            EntryKept(f)' /\ StillFirst(f)' => Held(m)'[f] = Got(1)'[f]
    BY <1>1 DEF FirstInv
  <2>1. \A f \in File : EntryKept(f)' /\ StillFirst(f)' => StillFirst(f)
    BY WorldKeepsFirst
  <2>2. PICK m \in past : \A f \in File : EntryKept(f) /\ StillFirst(f) => Held(m)[f] = Got(1)[f]
    BY DEF CaptureInv, FirstInv
  <2>3. Held(m)' = Held(m)
    BY <1>1 DEF Held
  <2>4. \A f \in File : EntryKept(f) => Got(1)[f] \in Was(f)
    BY DEF CaptureInv, FirstInv
  <2>5. Got(1)' = Got(1) /\ m \in past'
    BY <1>1, <1>6
  <2>6. \A f \in File : EntryKept(f)' /\ StillFirst(f)' => Held(m)'[f] = Got(1)'[f]
    BY <1>8, <2>1, <2>2, <2>3, <2>5
  <2>7. \A f \in File : EntryKept(f)' => Got(1)'[f] \in Was(f)'
    BY <2>4, <2>5, <1>7, <1>8
  <2> QED BY <2>5, <2>6, <2>7
<1>11. PatchInv'
  <2> SUFFICES ASSUME Len(seen) >= 1, job.kind = "comparison", pc # "patch", NEW f \in File, EntryKept(f)'
               PROVE  /\ pc = "diff" => /\ f \in patch.index <=> f \in Known(index)'
                                        /\ f \notin patch.left \cap patch.changed
                      /\ StillFirst(f)' =>
                           (pc = "diff" /\ f \in patch.left) \/ (f \in patch.changed <=> Differs(f)')
    BY <1>1 DEF PatchInv
  <2>1. StillFirst(f)' => StillFirst(f)
    BY WorldKeepsFirst
  <2>2. Differs(f)' <=> Differs(f)
    BY <1>1, <1>6, <1>8 DEF Differs
  <2>3. pc = "diff" => ~job.staged
    BY DEF CaptureInv, PlaceInv
  <2>4. /\ pc = "diff" => /\ f \in patch.index <=> f \in Known(index)
                          /\ f \notin patch.left \cap patch.changed
        /\ StillFirst(f) => (pc = "diff" /\ f \in patch.left) \/ (f \in patch.changed <=> Differs(f))
    BY <1>8 DEF CaptureInv, PatchInv
  <2> QED BY <2>1, <2>2, <2>3, <2>4, <1>8
<1>12. ListedInv' /\ OthersInv'
  <2>1. \A f \in File : Len(seen) >= 1 /\ EntryKept(f)' /\ StillFirst(f)' => StillFirst(f)
    BY WorldKeepsFirst
  <2>2. pc = "read" => ~job.staged
    BY DEF CaptureInv, PlaceInv
  <2>3. Len(seen) \in Nat
    BY DEF CaptureInv, TypeInv
  <2>4. ASSUME ~job.staged, NEW f \in File, EntryKept(f)', NEW content, NEW others
        PROVE Found(f, content, others) <=> Found(f, content, others)'
    BY <1>1, <1>8, <2>4 DEF Found
  <2>5. ASSUME ~job.staged, NEW f \in File, EntryKept(f)', NEW others, Len(seen) >= 1, Fresh(f, others)
        PROVE Fresh(f, others)'
    BY <1>1, <1>6, <1>8, <2>1, <2>5 DEF Fresh
  <2>6. ListedInv'
    <3> SUFFICES ASSUME pc = "read", NEW f \in File, EntryKept(f)'
                 PROVE  /\ Found(f, Now(f), reading.others)'
                        /\ Len(seen) = 1 => Fresh(f, reading.others)'
      BY <1>1 DEF ListedInv
    <3>1. Found(f, Now(f), reading.others) /\ (Len(seen) = 1 => Fresh(f, reading.others))
      BY <1>8 DEF CaptureInv, ListedInv
    <3>2. Found(f, Now(f), reading.others)'
      BY <1>1, <1>5, <1>8, <2>2, <3>1 DEF Found
    <3>3. Len(seen) = 1 => Fresh(f, reading.others)'
      BY <1>1, <2>2, <2>5, <3>1
    <3> QED BY <3>2, <3>3
  <2>7. OthersInv'
    <3> SUFFICES ASSUME Len(seen) >= 2, NEW f \in File, EntryKept(f)'
                 PROVE  IF job.staged THEN seen[2].others = {}
                        ELSE Found(f, Got(2)[f], seen[2].others)' /\ Fresh(f, seen[2].others)'
      BY <1>1 DEF OthersInv
    <3>1. IF job.staged THEN seen[2].others = {}
          ELSE Found(f, Got(2)[f], seen[2].others) /\ Fresh(f, seen[2].others)
      BY <1>8 DEF CaptureInv, OthersInv
    <3>2. ~job.staged => Found(f, Got(2)[f], seen[2].others)'
      BY <1>1, <1>6, <1>8, <3>1 DEF Found
    <3>3. ~job.staged => Fresh(f, seen[2].others)'
      BY <1>1, <2>3, <2>5, <3>1
    <3> QED BY <3>1, <3>2, <3>3
  <2> QED BY <2>6, <2>7
<1>13. TrackedInv' /\ EachInv'
  <2>1. \A f \in File : WasTree(f) \subseteq WasTree(f)' /\ WasIndex(f) \subseteq WasIndex(f)'
    BY <1>1 DEF WasTree, WasIndex
  <2>2. \A f \in File : Missed(f) => Missed(f)'
    BY <1>1, <2>1 DEF Missed
  <2>3. TrackedInv'
    BY <1>1, <1>5, <1>6, <2>1, <2>2 DEF CaptureInv, TrackedInv
  <2>4. EachInv'
    BY <1>1, <1>6, <2>1, <2>2 DEF CaptureInv, EachInv
  <2> QED BY <2>3, <2>4
<1> QED BY <1>2, <1>3, <1>4, <1>9, <1>10, <1>11, <1>12, <1>13 DEF CaptureInv

-----------------------------------------------------------------------------
(* The world stands still.                                                 *)

Unchanging == UNCHANGED <<job, base, tree, index, past>>

LEMMA Unmoved ==
    ASSUME Unchanging
    PROVE  /\ Holds' = Holds /\ Known(index)' = Known(index)
           /\ \A f \in File : /\ EntryKept(f)' <=> EntryKept(f)
                              /\ Was(f)' = Was(f) /\ WasTree(f)' = WasTree(f)
                              /\ WasIndex(f)' = WasIndex(f) /\ (Missed(f)' <=> Missed(f))
  BY DEF Unchanging, EntryKept, Holds, Held, Moment, Known, Was, WasTree, WasIndex, Missed

\* What has been read stays true unless a file comes back to what it was first.
LEMMA KeepSeen ==
    ASSUME CaptureInv, Unchanging, UNCHANGED seen,
           ASSUME NEW f \in File, EntryKept(f), Len(seen) >= 1, StillFirst(f)' PROVE StillFirst(f)
    PROVE  PastInv' /\ FirstInv' /\ OthersInv' /\ EachInv'
<1>1. \A n : Got(n)' = Got(n)
  BY DEF Got
<1>2. Len(seen) \in Nat
  BY DEF CaptureInv, TypeInv
<1>3. PastInv'
  BY DEF CaptureInv, PastInv, Unchanging
<1>4. FirstInv'
  <2> SUFFICES ASSUME Len(seen) >= 1
               PROVE  /\ \A f \in File : EntryKept(f) => Got(1)'[f] \in Was(f)'
                      /\ \E m \in past' : \A f \in File :
                            EntryKept(f) /\ StillFirst(f)' => Held(m)'[f] = Got(1)'[f]
    BY Unmoved DEF FirstInv
  <2>1. \A f \in File : EntryKept(f) => Got(1)[f] \in Was(f)
    BY DEF CaptureInv, FirstInv
  <2>2. PICK m \in past : \A f \in File : EntryKept(f) /\ StillFirst(f) => Held(m)[f] = Got(1)[f]
    BY DEF CaptureInv, FirstInv
  <2>3. Held(m)' = Held(m) /\ m \in past'
    BY DEF Held, Unchanging
  <2>4. Got(1)' = Got(1)
    BY <1>1
  <2>5. \A f \in File : EntryKept(f) => Got(1)'[f] \in Was(f)'
    BY <2>1, <2>4, Unmoved
  <2>6. \A f \in File : EntryKept(f) /\ StillFirst(f)' => Held(m)'[f] = Got(1)'[f]
    BY <2>2, <2>3, <2>4
  <2> QED BY <2>3, <2>5, <2>6
<1>5. OthersInv'
  <2> SUFFICES ASSUME Len(seen) >= 2, NEW f \in File, EntryKept(f)
               PROVE  IF job.staged THEN seen[2].others = {}
                      ELSE Found(f, Got(2)[f], seen[2].others)' /\ Fresh(f, seen[2].others)'
    BY Unmoved DEF OthersInv, Unchanging
  <2>1. IF job.staged THEN seen[2].others = {}
        ELSE Found(f, Got(2)[f], seen[2].others) /\ Fresh(f, seen[2].others)
    BY DEF CaptureInv, OthersInv
  <2>2. Got(1)' = Got(1) /\ Got(2)' = Got(2)
    BY <1>1
  <2>3. StillFirst(f)' => StillFirst(f)
    BY <1>2
  <2> QED BY <2>1, <2>2, <2>3, Unmoved DEF Found, Fresh
<1>6. EachInv'
  <2>1. Got(1)' = Got(1) /\ Got(2)' = Got(2)
    BY <1>1
  <2> QED BY <2>1, Unmoved DEF CaptureInv, EachInv, Unchanging
<1> QED BY <1>3, <1>4, <1>5, <1>6

LEMMA KeepPatch ==
    ASSUME CaptureInv, Unchanging, UNCHANGED <<patch, seen>>, pc \notin {"patch", "diff"}, pc' # "diff",
           ASSUME NEW f \in File, EntryKept(f), Len(seen) >= 1, StillFirst(f)' PROVE StillFirst(f)
    PROVE  PatchInv'
<1> SUFFICES ASSUME Len(seen) >= 1, job.kind = "comparison", NEW f \in File, EntryKept(f), StillFirst(f)'
             PROVE  f \in patch.changed <=> Differs(f)'
  BY Unmoved DEF PatchInv, Unchanging
<1>1. f \in patch.changed <=> Differs(f)
  BY DEF CaptureInv, PatchInv
<1>2. Got(1)' = Got(1)
  BY DEF Got
<1> QED BY <1>1, <1>2, Unmoved DEF Differs, Unchanging

LEMMA StepLeave ==
    ASSUME CaptureInv, Unchanging, Leave("failed") \/ Leave("cancelled")
    PROVE  CaptureInv'
<1>1. /\ pc' \in {"failed", "cancelled"}
      /\ reading' = NoReading /\ patch' = NoPatch /\ seen' = <<>> /\ Len(seen') = 0
  BY DEF Leave
<1>2. TypeInv'
  BY <1>1 DEF CaptureInv, TypeInv, Unchanging, NoReading, NoPatch, Results, Unread
<1>3. PastInv'
  BY DEF CaptureInv, PastInv, Unchanging
<1>4. PlaceInv'
  BY <1>1 DEF PlaceInv
<1>5. ReadInv' /\ ListedInv' /\ TrackedInv'
  BY <1>1 DEF ReadInv, ListedInv, TrackedInv
<1>6. FirstInv' /\ PatchInv' /\ OthersInv' /\ EachInv'
  BY <1>1 DEF FirstInv, PatchInv, OthersInv, EachInv
<1> QED BY <1>2, <1>3, <1>4, <1>5, <1>6 DEF CaptureInv

LEMMA StepReadBase == ASSUME CaptureInv, ReadBase PROVE CaptureInv'
<1>1. Unchanging
  BY DEF ReadBase, Unchanging
<1>2. CASE Leave("failed")
  BY <1>1, <1>2, StepLeave
<1>3. CASE pc' = "list" /\ UNCHANGED <<reading, patch, seen>>
  <2>1. pc = "base" /\ Len(seen) = 0
    BY DEF ReadBase, CaptureInv, PlaceInv
  <2>2. TypeInv'
    BY <1>1, <1>3 DEF CaptureInv, TypeInv, Unchanging
  <2>3. PlaceInv'
    BY <1>1, <1>3, <2>1 DEF PlaceInv, Last, Unchanging
  <2>4. ReadInv' /\ ListedInv' /\ TrackedInv'
    BY <1>3 DEF ReadInv, ListedInv, TrackedInv
  <2>5. PatchInv'
    BY <1>3, <2>1 DEF PatchInv
  <2>6. ASSUME NEW f \in File, EntryKept(f), Len(seen) >= 1, StillFirst(f)' PROVE StillFirst(f)
    BY <2>1, <2>6
  <2>7. PastInv' /\ FirstInv' /\ OthersInv' /\ EachInv'
    BY <1>1, <1>3, <2>6, KeepSeen
  <2> QED BY <2>2, <2>3, <2>4, <2>5, <2>7 DEF CaptureInv
<1> QED BY <1>2, <1>3 DEF ReadBase

LEMMA StepListTracked == ASSUME CaptureInv, ListTracked PROVE CaptureInv'
<1>1. Unchanging /\ UNCHANGED <<patch, seen>> /\ pc = "list" /\ pc' = "others" /\ ~job.staged
  BY DEF ListTracked, Unchanging
<1> DEFINE listed == [NoReading EXCEPT !.tracked = Known(index), !.tree = tree, !.index = index]
<1>2. /\ DOMAIN listed = {"tracked", "others", "budget", "results", "tree", "index"}
      /\ listed.tracked = Known(index) /\ listed.others = {}
      /\ listed.results = [f \in File |-> Unread]
  BY DEF NoReading
<1>3. reading' = listed
  BY DEF ListTracked
<1> HIDE DEF listed
<1>4. TypeInv'
  <2>1. Unread \in Results
    BY DEF Unread, Results
  <2> QED BY <1>1, <1>2, <1>3, <2>1 DEF CaptureInv, TypeInv, Unchanging, Known
<1>5. PlaceInv'
  BY <1>1 DEF CaptureInv, PlaceInv, Unchanging, Last
<1>6. ReadInv' /\ ListedInv'
  BY <1>1, <1>2, <1>3, Unmoved DEF ReadInv, ListedInv
<1>7. TrackedInv'
  <2> SUFFICES ASSUME NEW f \in File
               PROVE  /\ f \notin reading'.tracked => Absent \in WasIndex(f)'
                      /\ Len(seen) >= 1 => Got(1)'[f] \in WasTree(f)' \/ f \in reading'.tracked
    BY <1>1 DEF TrackedInv
  <2>1. f \in reading'.tracked <=> index[f] # Absent
    BY <1>2, <1>3 DEF Known
  <2>2. index[f] \in WasIndex(f)
    BY DEF CaptureInv, PastInv, WasIndex, Moment
  <2>3. Len(seen) >= 1 => Got(1)[f] \in WasTree(f) \/ Missed(f)
    BY <1>1 DEF CaptureInv, EachInv
  <2>4. Got(1)' = Got(1)
    BY <1>1 DEF Got
  <2> QED BY <1>1, <2>1, <2>2, <2>3, <2>4, Unmoved DEF Missed
<1>8. ASSUME NEW f \in File, EntryKept(f), Len(seen) >= 1, StillFirst(f)' PROVE StillFirst(f)
  BY <1>1, <1>8, Unmoved DEF StillFirst, Got
<1> QED BY <1>1, <1>4, <1>5, <1>6, <1>7, <1>8, KeepSeen, KeepPatch DEF CaptureInv

LEMMA StepListOthers == ASSUME CaptureInv, ListOthers PROVE CaptureInv'
<1>1. Unchanging /\ UNCHANGED <<patch, seen>> /\ pc = "others" /\ pc' = "read" /\ ~job.staged
  BY DEF ListOthers, Unchanging, CaptureInv, PlaceInv
<1> DEFINE listed == [reading EXCEPT !.others = Known(tree) \ Known(index)]
<1>2. /\ DOMAIN listed = {"tracked", "others", "budget", "results", "tree", "index"}
      /\ listed.tracked = reading.tracked /\ listed.others = Known(tree) \ Known(index)
      /\ listed.results = reading.results
  BY DEF CaptureInv, TypeInv
<1>3. reading' = listed
  BY DEF ListOthers
<1> HIDE DEF listed
<1>4. TypeInv'
  BY <1>1, <1>2, <1>3 DEF CaptureInv, TypeInv, Unchanging, Known
<1>5. PlaceInv'
  BY <1>1 DEF CaptureInv, PlaceInv, Unchanging, Last
<1>6. ASSUME NEW f \in File
      PROVE  /\ reading'.results[f] = Unread /\ Now(f)' = Absent
             /\ Settled(f)' <=> f \notin reading.tracked \cup (Known(tree) \ Known(index))
  <2>1. reading'.results[f] = Unread
    BY <1>1, <1>2, <1>3 DEF CaptureInv, ReadInv
  <2>2. Unread[1] = "unread"
    BY DEF Unread
  <2>3. Now(f)' = Absent
    BY <2>1, <2>2, ContentAt DEF Now
  <2> QED BY <1>2, <1>3, <2>1, <2>2, <2>3 DEF Settled, Listed
<1>7. \A f \in File : EntryKept(f) => (f \in reading.tracked <=> f \in Known(index))
  BY <1>1 DEF CaptureInv, ReadInv
<1>8. ASSUME NEW f \in File, EntryKept(f), Settled(f)'
      PROVE  Holds[f] = Absent
  BY <1>1, <1>6, <1>7, <1>8 DEF Holds, Held, Moment, Known
<1>9. ASSUME NEW f \in File, EntryKept(f), Len(seen) >= 1, StillFirst(f)' PROVE StillFirst(f)
  BY <1>1, <1>6, <1>8, <1>9, Unmoved DEF StillFirst, Got
<1>10. ASSUME NEW f \in File PROVE Holds[f] \in Was(f) /\ tree[f] \in WasTree(f)
  BY DEF CaptureInv, PastInv, Holds, Was, WasTree, Moment
<1>11. ReadInv'
  <2>1. \A f \in File \ Listed' : reading'.results[f] = Unread
    BY <1>6
  <2>2. \A f \in File : EntryKept(f) => /\ f \in reading'.tracked <=> f \in Known(index)
                                        /\ f \notin reading'.others \cap Known(index)
    BY <1>2, <1>3, <1>7
  <2>3. \A f \in File : EntryKept(f) /\ Settled(f)' => Now(f)' \in Was(f)
    BY <1>6, <1>8, <1>10
  <2>4. \A f \in File : EntryKept(f) =>
            /\ pc' \in {"others", "read"} => (f \in reading'.tracked <=> f \in Known(index)')
            /\ pc' = "read" => /\ f \notin reading'.others \cap Known(index)'
                               /\ Settled(f)' => Now(f)' \in Was(f)'
    <3> SUFFICES ASSUME NEW f \in File, EntryKept(f)
                 PROVE  /\ f \in reading'.tracked <=> f \in Known(index)'
                        /\ f \notin reading'.others \cap Known(index)'
                        /\ Settled(f)' => Now(f)' \in Was(f)'
      OBVIOUS
    <3>1. Known(index)' = Known(index) /\ Was(f)' = Was(f)
      BY <1>1, Unmoved
    <3>2. f \in reading'.tracked <=> f \in Known(index)
      BY <2>2
    <3>3. f \notin reading'.others \cap Known(index)
      BY <2>2
    <3>4. Settled(f)' => Now(f)' \in Was(f)
      BY <2>3
    <3> QED BY <3>1, <3>2, <3>3, <3>4
  <2>5. \A f \in File : EntryKept(f)' <=> EntryKept(f)
    BY <1>1, Unmoved
  <2>6. pc' # "others" /\ (pc' = "read" => \A f \in File \ Listed' : reading'.results[f] = Unread)
    BY <1>1, <2>1
  <2> QED BY <2>4, <2>5, <2>6 DEF ReadInv
<1>12. ListedInv'
  <2> SUFFICES ASSUME NEW f \in File, EntryKept(f)
               PROVE  /\ Found(f, Now(f), reading.others)'
                      /\ Len(seen) = 1 => Fresh(f, reading.others)'
    BY <1>1, Unmoved DEF ListedInv
  <2>1. Found(f, Now(f), reading.others)'
    BY <1>6 DEF Found
  <2>2. ASSUME Len(seen) = 1, f \in reading'.others, StillFirst(f)'
        PROVE  Got(1)'[f] # Absent
    <3>1. f \in Known(tree) \ Known(index)
      BY <1>2, <1>3, <2>2
    <3>2. Holds'[f] # Absent
      BY <1>1, <3>1, Unmoved DEF Holds, Held, Moment, Known
    <3>3. ~Settled(f)'
      BY <1>6, <3>1
    <3>4. ~\E n \in 2..Len(seen') : Got(n)'[f] = Got(1)'[f]
      BY <1>1, <2>2
    <3> QED BY <2>2, <3>2, <3>3, <3>4 DEF StillFirst
  <2>3. f \in reading'.others => f \notin Known(index)'
    BY <1>1, <1>2, <1>3, Unmoved
  <2>4. Len(seen) = 1 => Fresh(f, reading.others)'
    BY <2>2, <2>3 DEF Fresh
  <2> QED BY <2>1, <2>4
<1>13. TrackedInv'
  <2> SUFFICES ASSUME NEW f \in File
               PROVE  /\ Settled(f)' => Now(f)' \in WasTree(f)' \/ (f \notin reading'.tracked /\ Missed(f)')
                      /\ Len(seen) >= 1 => Got(1)'[f] \in WasTree(f)' \/ f \in reading'.tracked
    BY <1>1 DEF TrackedInv
  <2>1. /\ f \notin reading.tracked => Absent \in WasIndex(f)
        /\ Len(seen) >= 1 => Got(1)[f] \in WasTree(f) \/ f \in reading.tracked
    BY <1>1 DEF CaptureInv, TrackedInv
  <2>2. Got(1)' = Got(1) /\ reading'.tracked = reading.tracked
    BY <1>1, <1>2, <1>3 DEF Got
  <2>3. Settled(f)' => f \notin reading.tracked /\ (tree[f] = Absent \/ index[f] # Absent)
    BY <1>6 DEF Known
  <2>4. Settled(f)' => Now(f)' \in WasTree(f) \/ (f \notin reading.tracked /\ Missed(f))
    BY <1>6, <1>10, <2>1, <2>3 DEF Missed
  <2>5. WasTree(f)' = WasTree(f) /\ (Missed(f)' <=> Missed(f))
    BY <1>1, Unmoved
  <2> QED BY <2>1, <2>2, <2>4, <2>5
<1>14. PastInv' /\ FirstInv' /\ OthersInv' /\ EachInv'
  BY <1>1, <1>9, KeepSeen
<1>15. PatchInv'
  BY <1>1, <1>9, KeepPatch
<1> QED BY <1>4, <1>5, <1>11, <1>12, <1>13, <1>14, <1>15 DEF CaptureInv

\* One file is looked at or read: it is absent, or what it is now, or not settled.
LEMMA StepOneFile ==
    ASSUME CaptureInv, Unchanging, UNCHANGED <<patch, seen, pc>>, pc = "read", NEW f \in Listed,
           NEW r \in Results,
           reading'.results = [reading.results EXCEPT ![f] = r],
           DOMAIN reading' = DOMAIN reading,
           reading'.tracked = reading.tracked, reading'.others = reading.others,
           r[1] \in {"absent", "file", "large"} =>
               (IF r[1] \in {"file", "large"} THEN r[2] ELSE Absent) = tree[f]
    PROVE  CaptureInv'
<1>1. ~job.staged /\ f \in File /\ Listed' = Listed
  BY DEF CaptureInv, PlaceInv, TypeInv, Listed
<1>2. reading.results \in [File -> Results]
  BY DEF CaptureInv, TypeInv
<1>3. /\ reading'.results[f] = r
      /\ \A g \in File \ {f} : reading'.results[g] = reading.results[g]
      /\ reading'.results \in [File -> Results]
  BY <1>1, <1>2
<1>4. ASSUME NEW g \in File \ {f} PROVE Now(g)' = Now(g) /\ (Settled(g)' <=> Settled(g))
  BY <1>1, <1>3, ContentAt DEF Now, Settled
<1>5. Settled(f)' => Now(f)' = tree[f]
  BY <1>1, <1>3, ContentAt DEF Now, Settled
<1>6. Now(f)' # Absent => Settled(f)'
  BY <1>1, <1>3, ContentAt DEF Now, Settled
<1>7. tree[f] = Holds[f] /\ tree[f] \in WasTree(f) /\ Holds[f] \in Was(f)
  BY <1>1 DEF CaptureInv, PastInv, WasTree, Was, Holds, Held, Moment
<1>8. TypeInv'
  BY <1>3 DEF CaptureInv, TypeInv, Unchanging
<1>9. PlaceInv'
  BY DEF CaptureInv, PlaceInv, Unchanging, Last
<1>10. ASSUME NEW g \in File, EntryKept(g), Len(seen) >= 1, StillFirst(g)' PROVE StillFirst(g)
  <2>1. Got(1)' = Got(1) /\ \A n : Got(n)' = Got(n)
    BY DEF Got
  <2>2. CASE Holds'[g] = Got(1)'[g]
    BY <2>1, <2>2, Unmoved DEF StillFirst
  <2>3. CASE \E n \in 2..Len(seen') : Got(n)'[g] = Got(1)'[g]
    BY <2>1, <2>3 DEF StillFirst
  <2>4. CASE Settled(g)' /\ Now(g)' = Got(1)'[g]
    BY <1>4, <1>5, <1>7, <2>1, <2>4 DEF StillFirst
  <2> QED BY <1>10, <2>2, <2>3, <2>4 DEF StillFirst
<1>11. ReadInv'
  <2>1. \A g \in File \ Listed' : reading'.results[g] = Unread
    BY <1>1, <1>3 DEF CaptureInv, ReadInv
  <2>2. ASSUME NEW g \in File, EntryKept(g), Settled(g)' PROVE Now(g)' \in Was(g)
    BY <1>4, <1>5, <1>7, <2>2 DEF CaptureInv, ReadInv
  <2> QED BY <2>1, <2>2, Unmoved DEF CaptureInv, ReadInv
<1>12. ListedInv'
  <2> SUFFICES ASSUME NEW g \in File, EntryKept(g)
               PROVE  /\ Found(g, Now(g), reading.others)'
                      /\ Len(seen) = 1 => Fresh(g, reading.others)'
    BY Unmoved DEF ListedInv
  <2>1. Found(g, Now(g), reading.others) /\ (Len(seen) = 1 => Fresh(g, reading.others))
    BY DEF CaptureInv, ListedInv
  <2>2. g = f => g \in Known(index) \/ g \in reading.others
    BY DEF CaptureInv, ReadInv, Listed
  <2>3. Found(g, Now(g), reading.others)'
    <3>1. CASE g = f
      BY <2>2, <3>1, Unmoved DEF Found
    <3>2. CASE g # f
      BY <1>4, <2>1, <3>2, Unmoved DEF Found
    <3> QED BY <3>1, <3>2
  <2>4. Got(1)' = Got(1)
    BY DEF Got
  <2>5. Len(seen) = 1 => Fresh(g, reading.others)'
    BY <1>10, <2>1, <2>4, Unmoved DEF Fresh
  <2> QED BY <2>3, <2>5
<1>13. TrackedInv'
  <2> SUFFICES ASSUME NEW g \in File
               PROVE  /\ Settled(g)' => Now(g)' \in WasTree(g) \/ (g \notin reading.tracked /\ Missed(g))
                      /\ Len(seen) >= 1 => Got(1)'[g] \in WasTree(g) \/ g \in reading.tracked
    BY Unmoved DEF TrackedInv
  <2>1. Got(1)' = Got(1)
    BY DEF Got
  <2>2. Settled(g)' => Now(g)' \in WasTree(g) \/ (g \notin reading.tracked /\ Missed(g))
    BY <1>1, <1>4, <1>5, <1>7 DEF CaptureInv, TrackedInv
  <2> QED BY <1>1, <2>1, <2>2 DEF CaptureInv, TrackedInv
<1>14. PastInv' /\ FirstInv' /\ OthersInv' /\ EachInv'
  BY <1>10, KeepSeen
<1>15. PatchInv'
  BY <1>10, KeepPatch
<1> QED BY <1>8, <1>9, <1>11, <1>12, <1>13, <1>14, <1>15 DEF CaptureInv

LEMMA StepLook == ASSUME CaptureInv, NEW f \in File, Look(f) PROVE CaptureInv'
<1>1. /\ Unchanging /\ UNCHANGED <<patch, seen, pc>> /\ pc = "read" /\ f \in Listed
      /\ reading' = IF tree[f] = Absent THEN [reading EXCEPT !.results[f] = <<"absent">>]
                    ELSE [reading EXCEPT !.budget = reading.budget + Claim(tree[f]),
                                         !.results[f] = Looked(tree[f], reading.budget + Claim(tree[f]))]
  BY DEF Look, Unchanging
<1>2. DOMAIN reading = {"tracked", "others", "budget", "results", "tree", "index"}
  BY DEF CaptureInv, TypeInv
<1>3. CASE tree[f] = Absent
  <2>1. reading' = [reading EXCEPT !.results[f] = <<"absent">>]
    BY <1>1, <1>3
  <2>2. <<"absent">> \in Results /\ <<"absent">>[1] = "absent"
    BY DEF Results
  <2>3. /\ reading'.results = [reading.results EXCEPT ![f] = <<"absent">>]
        /\ DOMAIN reading' = DOMAIN reading
        /\ reading'.tracked = reading.tracked /\ reading'.others = reading.others
    BY <1>2, <2>1
  <2> QED BY <1>1, <1>3, <2>2, <2>3, StepOneFile
<1>4. CASE tree[f] # Absent
  <2> DEFINE r == Looked(tree[f], reading.budget + Claim(tree[f]))
  <2>1. r \in Results /\ r[1] \notin {"absent", "file", "large"}
    BY DEF Looked, Results
  <2>2. /\ reading'.results = [reading.results EXCEPT ![f] = r]
        /\ DOMAIN reading' = DOMAIN reading
        /\ reading'.tracked = reading.tracked /\ reading'.others = reading.others
    BY <1>1, <1>2, <1>4
  <2> HIDE DEF r
  <2> QED BY <1>1, <2>1, <2>2, StepOneFile
<1> QED BY <1>3, <1>4

LEMMA StepReadFile == ASSUME CaptureInv, NEW f \in File, ReadFile(f) PROVE CaptureInv'
<1> DEFINE r == IF tree[f] = Absent THEN <<"error">>
                ELSE IF reading.results[f] = <<"file?">> THEN <<"file", tree[f]>>
                     ELSE <<"large", tree[f]>>
<1>1. /\ Unchanging /\ UNCHANGED <<patch, seen, pc>> /\ pc = "read" /\ f \in Listed
      /\ reading' = [reading EXCEPT !.results[f] = r]
  <2>1. reading.results \in [File -> Results]
    BY DEF CaptureInv, TypeInv
  <2> QED BY <2>1 DEF ReadFile, Unchanging
<1>2. DOMAIN reading = {"tracked", "others", "budget", "results", "tree", "index"}
  BY DEF CaptureInv, TypeInv
<1>3. /\ reading'.results = [reading.results EXCEPT ![f] = r]
      /\ DOMAIN reading' = DOMAIN reading
      /\ reading'.tracked = reading.tracked /\ reading'.others = reading.others
  BY <1>1, <1>2
<1>4. tree[f] \in Texts
  BY DEF CaptureInv, TypeInv, Contents, Texts
<1>5. /\ r \in Results
      /\ r[1] \in {"absent", "file", "large"} =>
             (IF r[1] \in {"file", "large"} THEN r[2] ELSE Absent) = tree[f]
  BY <1>4 DEF Results
<1> HIDE DEF r
<1> QED BY <1>1, <1>3, <1>5, StepOneFile

-----------------------------------------------------------------------------
(* A reading is done.                                                      *)

LEMMA StepFinish ==
    ASSUME CaptureInv, Unchanging, pc \in {"list", "read"},
           NEW results \in [File -> Results], NEW others \in SUBSET File,
           Finish(results, others),
           ASSUME NEW f \in File, EntryKept(f)
           PROVE  ContentOf(results)[f] \in Was(f),
           ASSUME NEW f \in File, EntryKept(f), Len(seen) >= 1, ContentOf(results)[f] = Got(1)[f]
           PROVE  StillFirst(f),
           ASSUME NEW f \in File, EntryKept(f), Len(seen) = 1
           PROVE  IF job.staged THEN others = {}
                  ELSE Found(f, ContentOf(results)[f], others) /\ Fresh(f, others),
           ASSUME NEW f \in File, ~job.staged, Len(seen) = 0
           PROVE  ContentOf(results)[f] \in WasTree(f) \/ Missed(f),
           ASSUME NEW f \in File, ~job.staged, Len(seen) = 1
           PROVE  Got(1)[f] \in WasTree(f) \/ ContentOf(results)[f] \in WasTree(f)
    PROVE  CaptureInv'
<1> DEFINE got == [files |-> Kept(results), others |-> others]
<1>1. CASE Leave("failed")
  BY <1>1, StepLeave
<1>2. CASE /\ seen' = Append(seen, got) /\ pc' = After(Len(seen'))
           /\ reading' = NoReading /\ UNCHANGED patch
  <2>1. got \in Readings /\ got.others = others /\ ContentOf(got.files) = ContentOf(results)
    BY KeptTyped, KeptContent DEF Readings
  <2> HIDE DEF got
  <2>2. /\ seen' \in Seq(Readings) /\ Len(seen') = Len(seen) + 1 /\ Len(seen) \in Nat
        /\ seen'[Len(seen) + 1] = got /\ \A n \in 1..Len(seen) : seen'[n] = seen[n]
    BY <1>2, <2>1, Appended DEF CaptureInv, TypeInv
  <2>3. /\ \A n : n = Len(seen) + 1 => Got(n)' = ContentOf(results)
        /\ \A n \in 1..Len(seen) : Got(n)' = Got(n)
    BY <2>1, <2>2 DEF Got
  <2>4. Len(seen) < Last /\ Last \in {2, 3} /\ job' = job
    BY DEF CaptureInv, PlaceInv, Last, Unchanging
  <2>5. /\ pc' \in {"list", "patch", "done"}
        /\ pc' = "done" <=> Len(seen') = Last
        /\ pc' = "patch" <=> job.kind = "comparison" /\ Len(seen') = 1
    BY <1>2, <2>2, <2>4 DEF After, Last, Unchanging, CaptureInv, TypeInv
  <2>6. TypeInv'
    <3>1. reading'.results \in [File -> Results] /\ reading'.tracked = {} /\ reading'.others = {}
          /\ DOMAIN reading' = {"tracked", "others", "budget", "results", "tree", "index"}
      BY <1>2 DEF NoReading, Unread, Results
    <3> QED BY <1>2, <2>2, <2>5, <3>1 DEF CaptureInv, TypeInv, Unchanging
  <2>7. PlaceInv'
    BY <2>2, <2>4, <2>5 DEF PlaceInv, Last
  <2>8. PastInv'
    BY DEF CaptureInv, PastInv, Unchanging
  <2>9. ReadInv' /\ ListedInv' /\ TrackedInv'
    BY <2>5 DEF ReadInv, ListedInv, TrackedInv
  <2>10. ASSUME NEW f \in File, EntryKept(f), Len(seen) >= 1, StillFirst(f)' PROVE StillFirst(f)
    <3>1. Got(1)' = Got(1)
      BY <2>2, <2>3, <2>10
    <3>2. CASE Holds'[f] = Got(1)'[f]
      BY <3>1, <3>2, Unmoved DEF StillFirst
    <3>3. CASE \E n \in 2..Len(seen') : Got(n)'[f] = Got(1)'[f]
      <4>1. PICK n \in 2..Len(seen') : Got(n)'[f] = Got(1)[f]
        BY <3>1, <3>3
      <4>2. CASE n = Len(seen) + 1
        BY <2>3, <2>10, <4>1, <4>2
      <4>3. CASE n \in 2..Len(seen)
        BY <2>3, <4>1, <4>3 DEF StillFirst
      <4> QED BY <2>2, <4>2, <4>3
    <3> QED BY <2>5, <2>10, <3>2, <3>3 DEF StillFirst
  <2>11. FirstInv'
    <3> SUFFICES /\ \A f \in File : EntryKept(f) => Got(1)'[f] \in Was(f)
                 /\ \E m \in past : \A f \in File :
                       EntryKept(f) /\ StillFirst(f)' => Held(m)[f] = Got(1)'[f]
      BY Unmoved DEF FirstInv, Unchanging, Held
    <3>1. CASE Len(seen) = 0
      <4>1. Got(1)' = ContentOf(results)
        BY <2>3, <3>1
      <4>2. \A f \in File : EntryKept(f) => Got(1)'[f] \in Was(f)
        BY <4>1
      <4>3. ASSUME NEW f \in File, StillFirst(f)' PROVE Holds[f] = Got(1)'[f]
        <5>1. ~\E n \in 2..Len(seen') : TRUE
          BY <2>2, <3>1
        <5> QED BY <2>5, <4>3, <5>1, Unmoved DEF StillFirst
      <4>4. Moment(tree, index) \in past
        BY DEF CaptureInv, PastInv
      <4>5. \A f \in File : StillFirst(f)' => Held(Moment(tree, index))[f] = Got(1)'[f]
        BY <4>3 DEF Holds
      <4> QED BY <4>2, <4>4, <4>5
    <3>2. CASE Len(seen) >= 1
      <4>1. Got(1)' = Got(1)
        BY <2>2, <2>3, <3>2
      <4>2. PICK m \in past : \A f \in File : EntryKept(f) /\ StillFirst(f) => Held(m)[f] = Got(1)[f]
        BY <3>2 DEF CaptureInv, FirstInv
      <4>3. \A f \in File : EntryKept(f) /\ StillFirst(f)' => Held(m)[f] = Got(1)'[f]
        BY <2>10, <3>2, <4>1, <4>2
      <4>4. \A f \in File : EntryKept(f) => Got(1)'[f] \in Was(f)
        BY <3>2, <4>1 DEF CaptureInv, FirstInv
      <4> QED BY <4>3, <4>4
    <3> QED BY <2>2, <3>1, <3>2
  <2>12. PatchInv'
    <3> SUFFICES ASSUME Len(seen) >= 1, job.kind = "comparison", NEW f \in File, EntryKept(f), StillFirst(f)'
                 PROVE  f \in patch.changed <=> Differs(f)'
      <4>1. job.kind = "comparison" /\ pc' # "patch" => Len(seen) >= 1
        BY <2>2, <2>5
      <4> QED BY <1>2, <2>5, <4>1, Unmoved DEF PatchInv, Unchanging
    <3>1. StillFirst(f)
      BY <2>10
    <3>2. f \in patch.changed <=> Differs(f)
      BY <3>1 DEF CaptureInv, PatchInv
    <3>3. Got(1)' = Got(1)
      BY <2>2, <2>3
    <3> QED BY <3>2, <3>3, Unmoved DEF Differs, Unchanging
  <2>13. OthersInv'
    <3> SUFFICES ASSUME Len(seen) >= 1, NEW f \in File, EntryKept(f)
                 PROVE  IF job.staged THEN seen'[2].others = {}
                        ELSE Found(f, Got(2)[f], seen[2].others)' /\ Fresh(f, seen[2].others)'
      BY <2>2, Unmoved DEF OthersInv, Unchanging
    <3>1. Got(1)' = Got(1) /\ (StillFirst(f)' => StillFirst(f))
      BY <2>2, <2>3, <2>10
    <3>2. CASE Len(seen) = 1
      <4>1. Got(2)' = ContentOf(results) /\ seen'[2].others = others
        BY <2>1, <2>2, <2>3, <3>2
      <4> QED BY <3>1, <3>2, <4>1, Unmoved DEF Found, Fresh
    <3>3. CASE Len(seen) >= 2
      <4>1. Got(2)' = Got(2) /\ seen'[2] = seen[2]
        BY <2>2, <2>3, <3>3
      <4>2. IF job.staged THEN seen[2].others = {}
            ELSE Found(f, Got(2)[f], seen[2].others) /\ Fresh(f, seen[2].others)
        BY <3>3 DEF CaptureInv, OthersInv
      <4> QED BY <3>1, <4>1, <4>2, Unmoved DEF Found, Fresh
    <3>4. Len(seen) = 0 \/ Len(seen) = 1 \/ Len(seen) >= 2
      BY Lengths DEF CaptureInv
    <3> QED BY <2>2, <3>2, <3>3, <3>4
  <2>14. EachInv'
    <3> SUFFICES ASSUME ~job.staged, NEW f \in File
                 PROVE  /\ Got(1)'[f] \in WasTree(f) \/ Missed(f)
                        /\ Len(seen) >= 1 => Got(1)'[f] \in WasTree(f) \/ Got(2)'[f] \in WasTree(f)
      BY <2>2, Unmoved DEF EachInv, Unchanging
    <3>1. CASE Len(seen) = 0
      BY <2>3, <3>1
    <3>2. CASE Len(seen) = 1
      <4>1. Got(1)' = Got(1) /\ Got(2)' = ContentOf(results)
        BY <2>3, <3>2
      <4> QED BY <3>2, <4>1 DEF CaptureInv, EachInv
    <3>3. CASE Len(seen) >= 2
      <4>1. Got(1)' = Got(1) /\ Got(2)' = Got(2)
        BY <2>2, <2>3, <3>3
      <4> QED BY <3>3, <4>1 DEF CaptureInv, EachInv
    <3>4. Len(seen) = 0 \/ Len(seen) = 1 \/ Len(seen) >= 2
      BY Lengths DEF CaptureInv
    <3> QED BY <3>1, <3>2, <3>3, <3>4
  <2> QED BY <2>6, <2>7, <2>8, <2>9, <2>11, <2>12, <2>13, <2>14 DEF CaptureInv
<1> QED BY <1>1, <1>2 DEF Finish

LEMMA StepReadIndex == ASSUME CaptureInv, ReadIndex PROVE CaptureInv'
<1> DEFINE results == [f \in File |-> ReadOf(index[f])]
<1>1. Unchanging /\ pc = "list" /\ job.staged /\ Finish(results, {})
  BY DEF ReadIndex, Unchanging
<1>2. results \in [File -> Results] /\ ContentOf(results) = index
  BY ReadOfContents DEF CaptureInv, TypeInv
<1> HIDE DEF results
<1>3. ASSUME NEW f \in File PROVE index[f] \in Was(f) /\ Holds[f] = index[f]
  BY <1>1 DEF CaptureInv, PastInv, Was, Holds, Held, Moment
<1>4. ASSUME NEW f \in File, index[f] = Got(1)[f] PROVE StillFirst(f)
  BY <1>3, <1>4 DEF StillFirst
<1> QED BY <1>1, <1>2, <1>3, <1>4, StepFinish

LEMMA StepMerge == ASSUME CaptureInv, Merge PROVE CaptureInv'
<1>1. Unchanging /\ pc = "read" /\ Unfinished = {} /\ ~job.staged
  BY DEF Merge, Unchanging, CaptureInv, PlaceInv
<1>2. CASE Failed
  BY <1>1, <1>2, StepLeave DEF Merge
<1>3. CASE ~Failed
  <2>1. /\ Finish(reading.results, reading.others)
        /\ reading.results \in [File -> Results] /\ reading.others \in SUBSET File
    BY <1>3 DEF Merge, CaptureInv, TypeInv
  <2>2. ASSUME NEW f \in File PROVE Settled(f)
    <3>1. reading.results[f] \in Results
      BY <2>1
    <3>2. f \in Listed => reading.results[f][1] \notin {"unread", "file?", "large?", "over", "error"}
      BY <1>1, <1>3 DEF Unfinished, Failed
    <3> QED BY <3>1, <3>2, Tags DEF Settled
  <2>3. ASSUME NEW f \in File, EntryKept(f) PROVE Now(f) \in Was(f)
    BY <1>1, <2>2, <2>3 DEF CaptureInv, ReadInv
  <2>4. ASSUME NEW f \in File, Now(f) = Got(1)[f] PROVE StillFirst(f)
    BY <1>1, <2>2, <2>4 DEF StillFirst
  <2>5. ASSUME NEW f \in File, EntryKept(f), Len(seen) = 1
        PROVE  Found(f, Now(f), reading.others) /\ Fresh(f, reading.others)
    BY <1>1, <2>5 DEF CaptureInv, ListedInv
  <2>6. ASSUME NEW f \in File
        PROVE  /\ Now(f) \in WasTree(f) \/ (f \notin reading.tracked /\ Missed(f))
               /\ Len(seen) = 1 => Got(1)[f] \in WasTree(f) \/ f \in reading.tracked
    BY <1>1, <2>2 DEF CaptureInv, TrackedInv
  <2>7. \A f \in File : Now(f) = ContentOf(reading.results)[f]
    BY DEF Now
  <2> QED BY <1>1, <2>1, <2>3, <2>4, <2>5, <2>6, <2>7, StepFinish
<1> QED BY <1>2, <1>3

-----------------------------------------------------------------------------
(* The patch.                                                              *)

\* A step of the patch is right if what it makes of it is.
LEMMA StepPatch ==
    ASSUME CaptureInv, Unchanging, UNCHANGED <<reading, seen>>, pc \in {"patch", "diff"},
           pc' \in {"list", "diff"}, pc' = "diff" => ~job.staged,
           patch' \in [index : SUBSET File, left : SUBSET File, changed : SUBSET File],
           PatchInv'
    PROVE  CaptureInv'
<1>1. Len(seen) = 1 /\ job.kind = "comparison"
  BY DEF CaptureInv, PlaceInv
<1>2. TypeInv'
  BY DEF CaptureInv, TypeInv, Unchanging
<1>3. PlaceInv'
  BY <1>1 DEF PlaceInv, Last, Unchanging
<1>4. ReadInv' /\ ListedInv' /\ TrackedInv'
  BY DEF ReadInv, ListedInv, TrackedInv
<1>6. ASSUME NEW f \in File, EntryKept(f), Len(seen) >= 1, StillFirst(f)' PROVE StillFirst(f)
  BY <1>1, <1>6, Unmoved DEF StillFirst, Got
<1>7. PastInv' /\ FirstInv' /\ OthersInv' /\ EachInv'
  BY <1>6, KeepSeen
<1> QED BY <1>2, <1>3, <1>4, <1>7 DEF CaptureInv

\* Between the first two readings a file is as the first one saw it if it is so now.
LEMMA BeforeTheSecond ==
    ASSUME Unchanging, UNCHANGED seen, Len(seen) = 1, pc' # "read", NEW f \in File, StillFirst(f)'
    PROVE  Holds[f] = Got(1)[f]
<1>1. Got(1)' = Got(1)
  BY DEF Got
<1> QED BY <1>1, Unmoved DEF StillFirst

LEMMA StepBeginPatch == ASSUME CaptureInv, BeginPatch PROVE CaptureInv'
<1>1. /\ Unchanging /\ UNCHANGED <<reading, seen>> /\ pc = "patch"
      /\ pc' = IF patch'.left = {} THEN "list" ELSE "diff"
      /\ Len(seen) = 1
  BY DEF BeginPatch, Unchanging, CaptureInv, PlaceInv
<1>2. ASSUME NEW f \in File, StillFirst(f)' PROVE Holds[f] = Got(1)[f]
  BY <1>1, <1>2, BeforeTheSecond
<1>3. Got(1)' = Got(1)
  BY <1>1 DEF Got
<1>4. CASE job.staged
  <2> DEFINE p == [index |-> {}, left |-> {}, changed |-> {f \in File : index[f] # base[f]}]
  <2>1. patch' = p
    BY <1>4 DEF BeginPatch, NoPatch
  <2>2. pc' = "list"
    BY <1>1, <2>1
  <2>3. PatchInv'
    <3>1. ASSUME NEW f \in File, StillFirst(f)' PROVE f \in patch'.changed <=> Differs(f)'
      <4>1. Got(1)[f] = index[f]
        BY <1>2, <1>4, <3>1 DEF Holds, Held, Moment
      <4> QED BY <1>1, <1>3, <1>4, <2>1, <4>1 DEF Differs, Unchanging
    <3> QED BY <2>2, <3>1 DEF PatchInv
  <2>4. patch' \in [index : SUBSET File, left : SUBSET File, changed : SUBSET File]
    BY <2>1
  <2> QED BY <1>1, <2>2, <2>3, <2>4, StepPatch
<1>5. CASE ~job.staged
  <2>1. patch' = [index |-> Known(index), left |-> Known(index) \cup Known(base), changed |-> {}]
    BY <1>5 DEF BeginPatch
  <2>2. PatchInv'
    <3>1. ASSUME NEW f \in File, f \notin patch'.left PROVE ~Differs(f)'
      BY <1>1, <1>5, <2>1, <3>1, Unmoved DEF Differs, Unchanging, Known
    <3>2. pc' = "diff" => \A f \in File : /\ f \in patch'.index <=> f \in Known(index)'
                                          /\ f \notin patch'.left \cap patch'.changed
      BY <1>1, <2>1, Unmoved
    <3>3. ASSUME NEW f \in File
          PROVE  (pc' = "diff" /\ f \in patch'.left) \/ (f \in patch'.changed <=> Differs(f)')
      BY <1>1, <2>1, <3>1
    <3> QED BY <3>2, <3>3 DEF PatchInv
  <2>3. patch' \in [index : SUBSET File, left : SUBSET File, changed : SUBSET File]
    BY <2>1 DEF Known
  <2> QED BY <1>1, <1>5, <2>2, <2>3, StepPatch
<1> QED BY <1>4, <1>5

LEMMA StepDiffFile == ASSUME CaptureInv, DiffFile PROVE CaptureInv'
<1>1. /\ Unchanging /\ UNCHANGED <<reading, seen>> /\ pc = "diff" /\ ~job.staged
      /\ pc' = IF patch'.left = {} THEN "list" ELSE "diff"
      /\ Len(seen) = 1 /\ job.kind = "comparison"
  BY DEF DiffFile, Unchanging, CaptureInv, PlaceInv
<1>2. PICK f \in patch.left :
          patch' = [patch EXCEPT !.left = @ \ {f},
                       !.changed = IF (IF f \in patch.index THEN tree[f] ELSE Absent) = base[f]
                                   THEN @ ELSE @ \cup {f}]
  BY DEF DiffFile
<1>3. patch \in [index : SUBSET File, left : SUBSET File, changed : SUBSET File]
  BY DEF CaptureInv, TypeInv
<1>4. /\ patch' \in [index : SUBSET File, left : SUBSET File, changed : SUBSET File]
      /\ patch'.index = patch.index /\ patch'.left = patch.left \ {f} /\ f \in File
      /\ patch'.changed = IF (IF f \in patch.index THEN tree[f] ELSE Absent) = base[f]
                          THEN patch.changed ELSE patch.changed \cup {f}
  BY <1>2, <1>3
<1>5. PatchInv'
  <2>1. ASSUME NEW g \in File, EntryKept(g)
        PROVE  /\ g \in patch.index <=> g \in Known(index)
               /\ g \notin patch.left \cap patch.changed
               /\ StillFirst(g) => g \in patch.left \/ (g \in patch.changed <=> Differs(g))
    BY <1>1, <2>1 DEF CaptureInv, PatchInv
  <2>2. Got(1)' = Got(1)
    BY <1>1 DEF Got
  <2>3. ASSUME NEW g \in File, StillFirst(g)' PROVE StillFirst(g) /\ tree[g] = Got(1)[g]
    <3>1. Holds[g] = Got(1)[g]
      BY <1>1, <2>3, BeforeTheSecond
    <3> QED BY <1>1, <3>1 DEF StillFirst, Holds, Held, Moment
  <2>4. \A g \in File : Differs(g)' <=> Differs(g)
    BY <1>1, <2>2, Unmoved DEF Differs, Unchanging
  <2>5. EntryKept(f) /\ StillFirst(f)' => (f \in patch'.changed <=> Differs(f))
    <3>1. CASE f \in Known(index)
      BY <1>1, <1>4, <2>1, <2>3, <3>1 DEF Differs
    <3>2. CASE f \notin Known(index)
      BY <1>1, <1>4, <2>1, <2>3, <3>2 DEF Differs
    <3> QED BY <3>1, <3>2
  <2>6. ASSUME NEW g \in File, EntryKept(g), StillFirst(g)'
        PROVE  g \in patch'.left \/ (g \in patch'.changed <=> Differs(g)')
    <3>1. CASE g = f
      BY <2>4, <2>5, <2>6, <3>1
    <3>2. CASE g # f
      BY <1>4, <2>1, <2>3, <2>4, <2>6, <3>2
    <3> QED BY <3>1, <3>2
  <2>7. ASSUME NEW g \in File, EntryKept(g)
        PROVE  /\ g \in patch'.index <=> g \in Known(index)'
               /\ g \notin patch'.left \cap patch'.changed
    <3>1. Known(index)' = Known(index)
      BY <1>1, Unmoved
    <3>2. g \in patch.index <=> g \in Known(index)
      BY <2>1, <2>7
    <3>3. g \notin patch'.left \cap patch'.changed
      <4>1. g \notin patch.left \cap patch.changed
        BY <2>1, <2>7
      <4>2. CASE g = f
        BY <1>4, <4>2
      <4>3. CASE g # f
        BY <1>4, <4>1, <4>3
      <4> QED BY <4>2, <4>3
    <3> QED BY <1>4, <3>1, <3>2, <3>3
  <2>8. patch'.left # {} => pc' = "diff"
    BY <1>1
  <2> QED BY <1>1, <2>6, <2>7, <2>8, Unmoved DEF PatchInv
<1> QED BY <1>1, <1>4, <1>5, StepPatch

-----------------------------------------------------------------------------
(* The theorems.                                                           *)

LEMMA InitCapture == ASSUME CaptureInit PROVE CaptureInv
<1>1. /\ job \in [kind : {"snapshot", "comparison"}, staged : BOOLEAN]
      /\ base \in Contents /\ tree \in Contents /\ index \in Contents
      /\ past = {Moment(tree, index)} /\ reading = NoReading /\ patch = NoPatch
      /\ seen = <<>> /\ Len(seen) = 0
      /\ pc = IF job.kind = "snapshot" THEN "list" ELSE "base"
  BY DEF CaptureInit
<1>2. TypeInv
  BY <1>1 DEF TypeInv, Moment, Moments, NoReading, NoPatch, Results, Unread
<1>3. PlaceInv
  BY <1>1 DEF PlaceInv, Last
<1>4. PastInv
  BY <1>1 DEF PastInv, Moment
<1>5. ReadInv /\ ListedInv /\ TrackedInv
  BY <1>1 DEF ReadInv, ListedInv, TrackedInv
<1>6. FirstInv /\ PatchInv /\ OthersInv /\ EachInv
  BY <1>1 DEF FirstInv, PatchInv, OthersInv, EachInv
<1> QED BY <1>2, <1>3, <1>4, <1>5, <1>6 DEF CaptureInv

LEMMA StepCapture == ASSUME CaptureInv, [CaptureNext]_captureVars PROVE CaptureInv'
<1>1. CASE CaptureNext
  <2>1. CASE Cancel
    BY <2>1, StepLeave DEF Cancel, Unchanging
  <2>2. CASE ReadBase \/ ReadIndex \/ Merge
    BY <2>2, StepReadBase, StepReadIndex, StepMerge
  <2>3. CASE ListTracked \/ ListOthers
    BY <2>3, StepListTracked, StepListOthers
  <2>4. CASE BeginPatch \/ DiffFile
    BY <2>4, StepBeginPatch, StepDiffFile
  <2>5. CASE \E f \in File : Look(f) \/ ReadFile(f)
    BY <2>5, StepLook, StepReadFile
  <2>6. CASE World
    BY <2>6, StepWorld
  <2> QED BY <1>1, <2>1, <2>2, <2>3, <2>4, <2>5, <2>6 DEF CaptureNext, World
<1>2. CASE UNCHANGED captureVars
  <2>1. Unchanging /\ UNCHANGED <<reading, patch, seen, pc>>
    BY <1>2 DEF captureVars, Unchanging
  <2>2. TypeInv' /\ PlaceInv'
    BY <2>1 DEF CaptureInv, TypeInv, PlaceInv, Last, Unchanging
  <2>3. ASSUME NEW f \in File PROVE StillFirst(f)' <=> StillFirst(f)
    BY <2>1, Unmoved DEF StillFirst, Got, Settled, Listed, Now
  <2>4. PastInv' /\ FirstInv' /\ OthersInv' /\ EachInv'
    BY <2>1, <2>3, KeepSeen
  <2>5. ReadInv' /\ TrackedInv'
    BY <2>1, Unmoved DEF CaptureInv, ReadInv, TrackedInv, Settled, Listed, Now, Got, Unchanging
  <2>6. ListedInv'
    BY <2>1, <2>3, Unmoved DEF CaptureInv, ListedInv, Found, Fresh, Now, Got
  <2>7. PatchInv'
    BY <2>1, <2>3, Unmoved DEF CaptureInv, PatchInv, Differs, Got, Unchanging
  <2> QED BY <2>2, <2>4, <2>5, <2>6, <2>7 DEF CaptureInv
<1> QED BY <1>1, <1>2

\* In a complete capture every file is as the first reading saw it.
LEMMA CompleteAgrees ==
    ASSUME CaptureInv, Complete
    PROVE  /\ Len(seen) >= 2 /\ pc = "done" /\ Got(2) = Got(1)
           /\ ContentOf(Report.files) = Got(1)
           /\ \A f \in File : StillFirst(f)
<1>1. pc = "done" /\ Len(seen) = Last /\ Last \in {2, 3}
  BY DEF Complete, CaptureInv, PlaceInv, Last
<1>2. 2 \in 2..Len(seen)
  BY <1>1
<1>3. seen[2].files = seen[1].files
  BY <1>2 DEF Complete, SameDigests
<1>4. Got(2) = Got(1)
  BY <1>3 DEF Got
<1>5. \A f \in File : StillFirst(f)
  BY <1>2, <1>4 DEF StillFirst
<1>6. ContentOf(Report.files) = Got(1)
  BY <1>3 DEF Report, Got
<1> QED BY <1>1, <1>4, <1>5, <1>6

LEMMA CompleteIsTrue == ASSUME CaptureInv PROVE CaptureIsTrue
<1>1. CompleteIsOneMoment
  <2> SUFFICES ASSUME Complete
               PROVE  \E m \in past : \A f \in File : EntryKept(f) => Got(1)[f] = Held(m)[f]
    BY CompleteAgrees DEF CompleteIsOneMoment, Held
  <2>1. PICK m \in past : \A f \in File : EntryKept(f) /\ StillFirst(f) => Held(m)[f] = Got(1)[f]
    BY CompleteAgrees DEF CaptureInv, FirstInv
  <2>2. \A f \in File : EntryKept(f) => Got(1)[f] = Held(m)[f]
    BY <2>1, CompleteAgrees
  <2> QED BY <2>2
<1>3. CompleteIsOfEachFile
  <2> SUFFICES ASSUME Complete, ~job.staged, NEW f \in File
               PROVE  \E m \in past : Got(1)[f] = m.tree[f]
    BY CompleteAgrees DEF CompleteIsOfEachFile
  <2>1. Got(1)[f] \in WasTree(f)
    BY CompleteAgrees DEF CaptureInv, EachInv
  <2> QED BY <2>1 DEF WasTree
<1>4. ChangesAreTheDifference
  <2> SUFFICES ASSUME Complete, job.kind = "comparison", NEW f \in File, EntryKept(f)
               PROVE  f \in Changes <=> Got(1)[f] # base[f] \/ Unlisted(f)
    BY CompleteAgrees DEF ChangesAreTheDifference
  <2>1. Changes = patch.changed \cup seen[2].others
    BY DEF Changes, Report
  <2>2. f \in patch.changed <=> Differs(f)
    BY CompleteAgrees DEF CaptureInv, PatchInv
  <2>3. CASE job.staged
    <3>1. f \notin seen[2].others
      BY <2>3, CompleteAgrees DEF CaptureInv, OthersInv
    <3> QED BY <2>1, <2>2, <2>3, <3>1 DEF Differs, Unlisted
  <2>4. CASE ~job.staged
    <3>1. Found(f, Got(1)[f], seen[2].others) /\ Fresh(f, seen[2].others) /\ StillFirst(f)
      BY <2>4, CompleteAgrees DEF CaptureInv, OthersInv
    <3>2. CASE f \in Known(index)
      BY <2>1, <2>2, <2>4, <3>1, <3>2 DEF Differs, Fresh, Unlisted, Known
    <3>3. CASE f \notin Known(index)
      BY <2>1, <2>2, <2>4, <3>1, <3>3 DEF Differs, Fresh, Found, Unlisted, Known
    <3> QED BY <3>2, <3>3
  <2> QED BY <2>3, <2>4
<1> QED BY <1>1, <1>3, <1>4 DEF CaptureIsTrue

\* What a capture that calls itself complete says of the tree, of each of its files
\* and of the changes is true, whoever edits them while they are read.
THEOREM CaptureHolds == CaptureSpec => []CaptureIsTrue
<1>1. CaptureInit => CaptureInv
  BY InitCapture
<1>2. CaptureInv /\ [CaptureNext]_captureVars => CaptureInv'
  BY StepCapture
<1>3. CaptureInv => CaptureIsTrue
  BY CompleteIsTrue
<1> QED BY <1>1, <1>2, <1>3, PTL DEF CaptureSpec

-----------------------------------------------------------------------------
(* The serial contract.  A reading claims the sizes of the files it looks  *)
(* at; while nothing moves, what it has claimed is the sum of them, and    *)
(* what it has accepted never crosses the limit.                           *)

\* Induction up to a bound, for a set of numbers.
LEMMA Climb ==
    ASSUME NEW N \in Nat, NEW S, 0 \in S, \A n \in 0..N : n # 0 /\ n - 1 \in S => n \in S
    PROVE  0..N \subseteq S
<1> DEFINE T == {n \in 0..N : n \notin S}
<1>1. SUFFICES ASSUME T # {} PROVE FALSE
  OBVIOUS
<1>2. T \subseteq Nat
  OBVIOUS
<1>3. PICK x \in T : \A y \in T : ~(<<y, x>> \in OpToRel(<, Nat))
  BY <1>1, <1>2, NatLessThanWellFounded, WFMin
<1>4. x \in 0..N /\ x \notin S /\ x # 0 /\ x - 1 \in Nat /\ x - 1 < x
  OBVIOUS
<1>5. <<x - 1, x>> \in OpToRel(<, Nat)
  BY <1>4 DEF OpToRel
<1>6. x - 1 \in S
  BY <1>3, <1>4, <1>5 DEF OpToRel
<1> QED BY <1>4, <1>6

\* The sums over the first files: there is such a function, and Total is its last
\* value.
IsSum(sum, sizes, m) == sum = [n \in 0..m |-> IF n = 0 THEN 0 ELSE sum[n - 1] + sizes[n]]

LEMMA SumExists ==
    ASSUME NEW sizes
    PROVE  \E sum : IsSum(sum, sizes, NFile) /\ Total(sizes) = sum[NFile]
<1> NFile \in Nat
  BY CaptureAssumption
<1> DEFINE S == {m \in 0..NFile : \E sum : IsSum(sum, sizes, m)}
<1>1. 0 \in S
  <2>1. IsSum([n \in 0..0 |-> 0], sizes, 0)
    BY DEF IsSum
  <2> QED BY <2>1
<1>2. ASSUME NEW m \in 0..NFile, m # 0, m - 1 \in S PROVE m \in S
  <2>1. PICK sum : IsSum(sum, sizes, m - 1)
    BY <1>2
  <2> DEFINE more == [n \in 0..m |-> IF n = m THEN sum[m - 1] + sizes[m] ELSE sum[n]]
  <2>2. IsSum(more, sizes, m)
    <3>1. \A n \in 0..m : more[n] = IF n = 0 THEN 0 ELSE more[n - 1] + sizes[n]
      BY <1>2, <2>1 DEF IsSum
    <3> QED BY <3>1 DEF IsSum
  <2> QED BY <2>2
<1>3. NFile \in S
  <2> HIDE DEF S
  <2> QED BY <1>1, <1>2, Climb
<1> DEFINE first == CHOOSE sum : IsSum(sum, sizes, NFile)
<1>4. Total(sizes) = first[NFile]
  BY DEF Total, IsSum
<1>5. IsSum(first, sizes, NFile)
  BY <1>3
<1> QED BY <1>4, <1>5

\* A sum of sizes is a number, and no greater than one of greater sizes; what one
\* size grows by, the sum grows by.
LEMMA TotalGrows ==
    ASSUME NEW small \in [File -> Nat], NEW large \in [File -> Nat],
           \A f \in File : small[f] <= large[f]
    PROVE  Total(small) \in Nat /\ Total(large) \in Nat /\ Total(small) <= Total(large)
<1> NFile \in Nat
  BY CaptureAssumption
<1>1. PICK a : IsSum(a, small, NFile) /\ Total(small) = a[NFile]
  BY SumExists
<1>2. PICK b : IsSum(b, large, NFile) /\ Total(large) = b[NFile]
  BY SumExists
<1> DEFINE S == {n \in 0..NFile : a[n] \in Nat /\ b[n] \in Nat /\ a[n] <= b[n]}
<1>3. 0 \in S
  BY <1>1, <1>2 DEF IsSum
<1>4. ASSUME NEW n \in 0..NFile, n # 0, n - 1 \in S PROVE n \in S
  <2>1. n \in File /\ a[n] = a[n - 1] + small[n] /\ b[n] = b[n - 1] + large[n]
    BY <1>1, <1>2, <1>4 DEF IsSum, File
  <2>2. small[n] \in Nat /\ large[n] \in Nat /\ small[n] <= large[n]
    BY <2>1
  <2> QED BY <1>4, <2>1, <2>2
<1>5. NFile \in S
  <2> HIDE DEF S
  <2> QED BY <1>3, <1>4, Climb
<1> QED BY <1>1, <1>2, <1>5

LEMMA TotalOfOneMore ==
    ASSUME NEW sizes \in [File -> Nat], NEW f \in File, NEW d \in Nat
    PROVE  Total([sizes EXCEPT ![f] = sizes[f] + d]) = Total(sizes) + d
<1> NFile \in Nat
  BY CaptureAssumption
<1> DEFINE more == [sizes EXCEPT ![f] = sizes[f] + d]
<1>1. PICK a : IsSum(a, sizes, NFile) /\ Total(sizes) = a[NFile]
  BY SumExists
<1>2. PICK b : IsSum(b, more, NFile) /\ Total(more) = b[NFile]
  BY SumExists
<1>3. more \in [File -> Nat] /\ f \in 1..NFile
  BY DEF File
<1> DEFINE S == {n \in 0..NFile : a[n] \in Nat /\ b[n] = IF n < f THEN a[n] ELSE a[n] + d}
<1>4. 0 \in S
  BY <1>1, <1>2, <1>3 DEF IsSum
<1>5. ASSUME NEW n \in 0..NFile, n # 0, n - 1 \in S PROVE n \in S
  <2>1. n \in File /\ a[n] = a[n - 1] + sizes[n] /\ b[n] = b[n - 1] + more[n]
    BY <1>1, <1>2, <1>5 DEF IsSum, File
  <2>2. sizes[n] \in Nat /\ more[n] = IF n = f THEN sizes[n] + d ELSE sizes[n]
    BY <2>1
  <2> HIDE DEF more
  <2> QED BY <1>3, <1>5, <2>1, <2>2
<1>6. NFile \in S
  <2> HIDE DEF S
  <2> QED BY <1>4, <1>5, Climb
<1> QED BY <1>1, <1>2, <1>3, <1>6

LEMMA TotalOfNothing == Total([f \in File |-> 0]) = 0
<1> NFile \in Nat
  BY CaptureAssumption
<1>1. PICK a : IsSum(a, [f \in File |-> 0], NFile) /\ Total([f \in File |-> 0]) = a[NFile]
  BY SumExists
<1> DEFINE S == {n \in 0..NFile : a[n] = 0}
<1>2. 0 \in S
  BY <1>1 DEF IsSum
<1>3. ASSUME NEW n \in 0..NFile, n # 0, n - 1 \in S PROVE n \in S
  BY <1>1, <1>3 DEF IsSum, File
<1>4. NFile \in S
  <2> HIDE DEF S
  <2> QED BY <1>2, <1>3, Climb
<1> QED BY <1>1, <1>4

\* What a reading of a tree that holds still has of a file that holds c.
AsFound(r, c) ==
    \/ r = Unread
    \/ c = Absent /\ r = <<"absent">>
    \/ c \in Oversized /\ r \in {<<"large?">>, <<"large", c>>}
    \/ c \in Content \ Oversized /\ r \in {<<"over">>, <<"file?">>, <<"file", c>>}

Looks == {"over", "file?", "file"}
Accepts == {"file?", "file"}
Claims(results, contents, tags) ==
    [f \in File |-> IF results[f][1] \in tags THEN Size[contents[f]] ELSE 0]

Serial(results, contents, budget) ==
    /\ \A f \in File : AsFound(results[f], contents[f])
    /\ budget = Total(Claims(results, contents, Looks))
    /\ Total(Claims(results, contents, Accepts)) <= MaxBytes
    /\ (\E f \in File : results[f] = <<"over">>) => budget > MaxBytes

Unmoving == tree = reading.tree /\ index = reading.index

SerialInv ==
    /\ pc \in {"others", "read"} => Moment(reading.tree, reading.index) \in past
    /\ pc = "others" => reading.budget = 0
    /\ pc = "others" /\ Unmoving => reading.tracked = Known(index)
    /\ Still => /\ reading.tracked = Known(index)
                /\ reading.others = Known(tree) \ Known(index)
                /\ Serial(reading.results, tree, reading.budget)

\* A file that has a size is one that holds something.
LEMMA SizeOfFound ==
    ASSUME NEW r, NEW c, AsFound(r, c)
    PROVE  /\ r[1] \in Looks => c \in Content \ Oversized /\ Size[c] \in Nat
           /\ r[1] = "file" => r[2] = c
           /\ r[1] # "error"
           /\ r[1] = "over" => r = <<"over">>
  BY CaptureAssumption DEF AsFound, Looks, Unread

LEMMA ClaimsTyped ==
    ASSUME NEW results, NEW contents, \A f \in File : AsFound(results[f], contents[f])
    PROVE  /\ Claims(results, contents, Looks) \in [File -> Nat]
           /\ Claims(results, contents, Accepts) \in [File -> Nat]
           /\ \A f \in File : Claims(results, contents, Accepts)[f]
                                 <= Claims(results, contents, Looks)[f]
<1>1. ASSUME NEW f \in File
      PROVE  LET looks == IF results[f][1] \in Looks THEN Size[contents[f]] ELSE 0
                 accepts == IF results[f][1] \in Accepts THEN Size[contents[f]] ELSE 0
             IN  looks \in Nat /\ accepts \in Nat /\ accepts <= looks
  <2>1. results[f][1] \in Accepts => results[f][1] \in Looks
    BY DEF Accepts, Looks
  <2>2. results[f][1] \in Looks => Size[contents[f]] \in Nat
    BY SizeOfFound
  <2> QED BY <2>1, <2>2
<1> QED BY <1>1 DEF Claims

\* A file that is looked at claims its size.
LEMMA SerialLook ==
    ASSUME NEW results \in [File -> Results], NEW contents \in Contents, NEW budget,
           Serial(results, contents, budget),
           NEW f \in File, results[f] = Unread
    PROVE  IF contents[f] = Absent
           THEN Serial([results EXCEPT ![f] = <<"absent">>], contents, budget)
           ELSE LET claimed == budget + Claim(contents[f])
                IN  Serial([results EXCEPT ![f] = Looked(contents[f], claimed)], contents, claimed)
<1> DEFINE c == contents[f]
           looks == Claims(results, contents, Looks)
           accepts == Claims(results, contents, Accepts)
<1>1. c \in Content \cup {Absent}
  BY DEF Contents
<1>2. /\ looks \in [File -> Nat] /\ accepts \in [File -> Nat]
      /\ Total(looks) \in Nat /\ Total(accepts) \in Nat /\ Total(accepts) <= Total(looks)
  <2>1. \A g \in File : AsFound(results[g], contents[g])
    BY DEF Serial
  <2>2. /\ looks \in [File -> Nat] /\ accepts \in [File -> Nat]
        /\ \A g \in File : accepts[g] <= looks[g]
    BY <2>1, ClaimsTyped
  <2> HIDE DEF looks, accepts
  <2> QED BY <2>2, TotalGrows
<1>3. results[f][1] \notin Looks /\ results[f][1] \notin Accepts /\ results[f] # <<"over">>
  BY DEF Unread, Looks, Accepts
<1>4. looks[f] = 0 /\ accepts[f] = 0
  BY <1>3 DEF Claims
<1>5. ASSUME NEW r, r[1] \notin Looks
      PROVE  /\ Claims([results EXCEPT ![f] = r], contents, Looks) = looks
             /\ Claims([results EXCEPT ![f] = r], contents, Accepts) = accepts
  BY <1>3, <1>5 DEF Claims, Looks, Accepts
<1>6. ASSUME NEW r, AsFound(r, c)
      PROVE  \A g \in File : AsFound([results EXCEPT ![f] = r][g], contents[g])
  BY <1>6 DEF Serial
<1>7. budget = Total(looks) /\ budget \in Nat /\ Total(accepts) <= MaxBytes /\ MaxBytes \in Nat
  BY <1>2, CaptureAssumption DEF Serial
<1>8. ASSUME NEW r, r[1] \notin Looks, AsFound(r, c)
      PROVE  Serial([results EXCEPT ![f] = r], contents, budget)
  <2>1. r # <<"over">>
    BY <1>8 DEF Looks
  <2>2. (\E g \in File : [results EXCEPT ![f] = r][g] = <<"over">>)
           => \E g \in File : results[g] = <<"over">>
    BY <2>1
  <2>3. \A g \in File : AsFound([results EXCEPT ![f] = r][g], contents[g])
    BY <1>6, <1>8
  <2>4. /\ Claims([results EXCEPT ![f] = r], contents, Looks) = looks
        /\ Claims([results EXCEPT ![f] = r], contents, Accepts) = accepts
    BY <1>5, <1>8
  <2> HIDE DEF looks, accepts, c
  <2> QED BY <1>7, <2>2, <2>3, <2>4 DEF Serial
<1>9. CASE c = Absent
  <2>1. AsFound(<<"absent">>, c) /\ <<"absent">>[1] \notin Looks
    BY <1>9 DEF AsFound, Looks
  <2> QED BY <1>8, <1>9, <2>1
<1>10. CASE c \in Oversized
  <2>1. c # Absent /\ Claim(c) = 0 /\ Looked(c, budget + Claim(c)) = <<"large?">>
    BY <1>10, CaptureAssumption DEF Claim, Looked
  <2>2. AsFound(<<"large?">>, c) /\ <<"large?">>[1] \notin Looks
    BY <1>10 DEF AsFound, Looks
  <2>3. budget + Claim(c) = budget
    BY <1>7, <2>1
  <2> QED BY <1>8, <2>1, <2>2, <2>3
<1>11. CASE c \in Content \ Oversized
  <2> DEFINE claimed == budget + Size[c]
             r == Looked(c, claimed)
             after == [results EXCEPT ![f] = r]
  <2>1. c # Absent /\ Claim(c) = Size[c] /\ Size[c] \in Nat
    BY <1>11, CaptureAssumption DEF Claim
  <2>2. r = IF claimed > MaxBytes THEN <<"over">> ELSE <<"file?">>
    BY <1>11 DEF Looked
  <2>3. AsFound(r, c) /\ r[1] \in Looks
    BY <1>11, <2>2 DEF AsFound, Looks
  <2>4. r[1] \in Accepts <=> ~(claimed > MaxBytes)
    BY <2>2 DEF Accepts
  <2>5. Claims(after, contents, Looks) = [looks EXCEPT ![f] = looks[f] + Size[c]]
    <3>1. looks[f] + Size[c] = Size[c]
      BY <1>4, <2>1
    <3> HIDE DEF r
    <3> QED BY <2>3, <3>1 DEF Claims
  <2>6. Claims(after, contents, Accepts) =
            IF claimed > MaxBytes THEN accepts ELSE [accepts EXCEPT ![f] = accepts[f] + Size[c]]
    <3>1. accepts[f] + Size[c] = Size[c]
      BY <1>4, <2>1
    <3> HIDE DEF r, claimed
    <3>2. CASE claimed > MaxBytes
      BY <1>3, <2>4, <3>2 DEF Claims
    <3>3. CASE ~(claimed > MaxBytes)
      BY <2>4, <3>1, <3>3 DEF Claims
    <3> QED BY <3>2, <3>3
  <2>7. Total(Claims(after, contents, Looks)) = claimed
    <3>1. Total([looks EXCEPT ![f] = looks[f] + Size[c]]) = Total(looks) + Size[c]
      <4> HIDE DEF looks, c
      <4> QED BY ONLY <1>2, <2>1, f \in File, TotalOfOneMore
    <3> HIDE DEF looks, c
    <3> QED BY ONLY <1>7, <2>5, <3>1 DEF claimed
  <2>8. Total(Claims(after, contents, Accepts)) <= MaxBytes
    <3> HIDE DEF accepts, looks, r, after
    <3>1. CASE claimed > MaxBytes
      BY <1>7, <2>6, <3>1
    <3>2. CASE ~(claimed > MaxBytes)
      <4>1. Total([accepts EXCEPT ![f] = accepts[f] + Size[c]]) = Total(accepts) + Size[c]
        <5> HIDE DEF c
        <5> QED BY ONLY <1>2, <2>1, f \in File, TotalOfOneMore
      <4>2. Total(Claims(after, contents, Accepts)) = Total(accepts) + Size[c]
        BY <2>6, <3>2, <4>1
      <4> QED BY <1>2, <1>7, <2>1, <3>2, <4>2
    <3> QED BY <3>1, <3>2
  <2>9. ASSUME NEW g \in File, after[g] = <<"over">> PROVE claimed > MaxBytes
    <3>1. CASE g = f
      BY <2>2, <2>9, <3>1
    <3>2. CASE g # f
      <4>1. results[g] = <<"over">>
        BY <2>9, <3>2
      <4>2. budget > MaxBytes
        BY <4>1 DEF Serial
      <4> QED BY <1>7, <2>1, <4>2
    <3> QED BY <3>1, <3>2
  <2>10. \A g \in File : AsFound(after[g], contents[g])
    BY <1>6, <2>3
  <2>11. Serial(after, contents, claimed)
    <3> HIDE DEF after, claimed
    <3> QED BY <2>7, <2>8, <2>9, <2>10 DEF Serial
  <2> QED BY <2>1, <2>11
<1> QED BY <1>1, <1>9, <1>10, <1>11

\* Reading it changes no claim.
LEMMA SerialRead ==
    ASSUME NEW results \in [File -> Results], NEW contents \in Contents, NEW budget,
           Serial(results, contents, budget),
           NEW f \in File, results[f][1] \in {"file?", "large?"}
    PROVE  Serial([results EXCEPT ![f] = IF contents[f] = Absent THEN <<"error">>
                       ELSE IF results[f] = <<"file?">> THEN <<"file", contents[f]>>
                       ELSE <<"large", contents[f]>>], contents, budget)
<1> DEFINE c == contents[f]
           r == IF c = Absent THEN <<"error">>
                ELSE IF results[f] = <<"file?">> THEN <<"file", c>> ELSE <<"large", c>>
           after == [results EXCEPT ![f] = r]
<1>1. AsFound(results[f], c)
  BY DEF Serial
<1>2. \/ c \in Oversized /\ results[f] = <<"large?">> /\ c # Absent
      \/ c \in Content \ Oversized /\ results[f] = <<"file?">> /\ c # Absent
  BY <1>1, CaptureAssumption DEF AsFound, Unread
<1>3. /\ AsFound(r, c) /\ r # <<"over">>
      /\ r[1] \in Looks <=> results[f][1] \in Looks
      /\ r[1] \in Accepts <=> results[f][1] \in Accepts
  BY <1>2 DEF AsFound, Looks, Accepts
<1> HIDE DEF r
<1>4. /\ Claims(after, contents, Looks) = Claims(results, contents, Looks)
      /\ Claims(after, contents, Accepts) = Claims(results, contents, Accepts)
  BY <1>3 DEF Claims
<1>5. \A g \in File : AsFound(after[g], contents[g])
  BY <1>3 DEF Serial
<1>6. (\E g \in File : after[g] = <<"over">>) => \E g \in File : results[g] = <<"over">>
  BY <1>3
<1>7. Serial(after, contents, budget)
  <2> HIDE DEF after
  <2> QED BY <1>4, <1>5, <1>6 DEF Serial
<1> QED BY <1>7 DEF r

-----------------------------------------------------------------------------
LEMMA InitSerial == ASSUME CaptureInit PROVE SerialInv
<1>1. pc \notin {"others", "read"}
  BY DEF CaptureInit
<1> QED BY <1>1 DEF SerialInv, Still

\* What a file has been changed to it has never been, so a tree that has moved
\* since it was listed does not come back.
LEMMA SerialWorld == ASSUME CaptureInv, SerialInv, World PROVE SerialInv'
<1>1. /\ TypeInv /\ PastInv /\ tree \in Contents /\ index \in Contents
  BY DEF CaptureInv, TypeInv
<1>2. UNCHANGED <<reading, pc>> /\ past \subseteq past'
  BY <1>1, Forward
<1>3. CASE pc \in {"others", "read"}
  <2>1. Moment(reading.tree, reading.index) \in past
    BY <1>3 DEF SerialInv
  <2>2. tree' # reading.tree \/ index' # reading.index
    <3> DEFINE m == Moment(reading.tree, reading.index)
    <3>1. m \in past /\ m.tree = reading.tree /\ m.index = reading.index
      BY <2>1 DEF Moment
    <3> HIDE DEF m
    <3>2. ASSUME NEW f \in File, Restage(f) PROVE index' # reading.index
      <4>1. PICK c : index' = [index EXCEPT ![f] = c] /\ \A x \in past : x.index[f] # c
        BY <3>2 DEF Restage
      <4>2. index'[f] = c
        BY <1>1, <4>1 DEF TypeInv, Contents
      <4> QED BY <3>1, <4>1, <4>2
    <3>3. ASSUME NEW f \in File, NEW c \in Content \cup {Absent}, Edit(f, c)
          PROVE  tree' # reading.tree
      BY <1>1, <3>1, <3>3 DEF Edit, Contents
    <3> QED BY <3>2, <3>3 DEF World
  <2> QED BY <1>2, <2>1, <2>2 DEF SerialInv, Still, Unmoving
<1>4. CASE pc \notin {"others", "read"}
  BY <1>2, <1>4 DEF SerialInv, Still
<1> QED BY <1>3, <1>4

LEMMA SerialListTracked == ASSUME CaptureInv, ListTracked PROVE SerialInv'
<1>1. /\ UNCHANGED <<tree, index, past>> /\ pc' = "others"
      /\ reading' = [NoReading EXCEPT !.tracked = Known(index), !.tree = tree, !.index = index]
  BY DEF ListTracked
<1>2. /\ reading'.tracked = Known(index) /\ reading'.tree = tree /\ reading'.index = index
      /\ reading'.budget = 0
  BY <1>1 DEF NoReading
<1>3. Moment(tree, index) \in past
  BY DEF CaptureInv, PastInv
<1> QED BY <1>1, <1>2, <1>3 DEF SerialInv, Still, Unmoving, Known, Moment

LEMMA SerialListOthers == ASSUME CaptureInv, SerialInv, ListOthers PROVE SerialInv'
<1>1. /\ UNCHANGED <<tree, index, past>> /\ pc = "others" /\ pc' = "read"
      /\ reading' = [reading EXCEPT !.others = Known(tree) \ Known(index)]
      /\ DOMAIN reading = {"tracked", "others", "budget", "results", "tree", "index"}
  BY DEF ListOthers, CaptureInv, TypeInv
<1>2. /\ reading'.tracked = reading.tracked /\ reading'.tree = reading.tree
      /\ reading'.index = reading.index /\ reading'.budget = reading.budget
      /\ reading'.results = reading.results
      /\ reading'.others = Known(tree) \ Known(index)
  BY <1>1
<1>3. /\ Moment(reading.tree, reading.index) \in past /\ reading.budget = 0
      /\ Unmoving => reading.tracked = Known(index)
  BY <1>1 DEF SerialInv
<1>4. \A f \in File : reading.results[f] = Unread
  BY <1>1 DEF CaptureInv, ReadInv
<1>5. Serial(reading.results, tree, 0)
  <2>1. /\ Claims(reading.results, tree, Looks) = [f \in File |-> 0]
        /\ Claims(reading.results, tree, Accepts) = [f \in File |-> 0]
    BY <1>4 DEF Claims, Looks, Accepts, Unread
  <2>2. \A f \in File : AsFound(reading.results[f], tree[f]) /\ reading.results[f] # <<"over">>
    BY <1>4 DEF AsFound, Unread
  <2>3. 0 <= MaxBytes
    BY CaptureAssumption
  <2> QED BY <2>1, <2>2, <2>3, TotalOfNothing DEF Serial
<1>6. Still' <=> Unmoving
  BY <1>1, <1>2 DEF Still, Unmoving
<1> HIDE DEF Still
<1>7. pc' = "read" /\ Moment(reading.tree, reading.index)' \in past'
  BY <1>1, <1>2, <1>3 DEF Moment
<1>8. Still' => /\ (reading.tracked = Known(index))'
                /\ (reading.others = Known(tree) \ Known(index))'
                /\ Serial(reading.results, tree, reading.budget)'
  BY <1>1, <1>2, <1>3, <1>5, <1>6 DEF Serial, Claims, Known
<1> QED BY <1>7, <1>8 DEF SerialInv

\* A step of the reading of one file keeps what is claimed and accepted in order.
LEMMA SerialStep ==
    ASSUME CaptureInv, SerialInv, pc = "read", UNCHANGED <<tree, index, past, pc>>,
           reading'.tracked = reading.tracked, reading'.others = reading.others,
           reading'.tree = reading.tree, reading'.index = reading.index,
           Serial(reading.results, tree, reading.budget)
              => Serial(reading'.results, tree, reading'.budget)
    PROVE  SerialInv'
<1>1. Still' <=> Still
  BY DEF Still
<1> HIDE DEF Still
<1>2. Moment(reading.tree, reading.index)' \in past'
  BY DEF SerialInv, Moment
<1>3. Still' => /\ (reading.tracked = Known(index))'
                /\ (reading.others = Known(tree) \ Known(index))'
                /\ Serial(reading'.results, tree, reading'.budget)
  BY <1>1 DEF SerialInv, Known
<1>4. Serial(reading'.results, tree, reading'.budget)
         => Serial(reading.results, tree, reading.budget)'
  BY DEF Serial, Claims
<1> QED BY <1>2, <1>3, <1>4 DEF SerialInv

LEMMA SerialLooks == ASSUME CaptureInv, SerialInv, NEW f \in File, Look(f) PROVE SerialInv'
<1>1. /\ UNCHANGED <<tree, index, past, pc>> /\ pc = "read" /\ reading.results[f] = Unread
      /\ reading' = IF tree[f] = Absent THEN [reading EXCEPT !.results[f] = <<"absent">>]
                    ELSE [reading EXCEPT !.budget = reading.budget + Claim(tree[f]),
                                         !.results[f] = Looked(tree[f], reading.budget + Claim(tree[f]))]
  BY DEF Look
<1>2. DOMAIN reading = {"tracked", "others", "budget", "results", "tree", "index"}
  BY DEF CaptureInv, TypeInv
<1>3. /\ reading'.tracked = reading.tracked /\ reading'.others = reading.others
      /\ reading'.tree = reading.tree /\ reading'.index = reading.index
  BY <1>1, <1>2
<1>4. reading.results \in [File -> Results] /\ tree \in Contents
  BY DEF CaptureInv, TypeInv
<1>5. ASSUME Serial(reading.results, tree, reading.budget)
      PROVE  Serial(reading'.results, tree, reading'.budget)
  <2>1. CASE tree[f] = Absent
    <3>1. /\ reading'.results = [reading.results EXCEPT ![f] = <<"absent">>]
          /\ reading'.budget = reading.budget
      BY <1>1, <1>2, <2>1
    <3>2. Serial([reading.results EXCEPT ![f] = <<"absent">>], tree, reading.budget)
      BY <1>1, <1>4, <1>5, <2>1, SerialLook
    <3> QED BY <3>1, <3>2
  <2>2. CASE tree[f] # Absent
    <3> DEFINE claimed == reading.budget + Claim(tree[f])
    <3>1. /\ reading'.results = [reading.results EXCEPT ![f] = Looked(tree[f], claimed)]
          /\ reading'.budget = claimed
      BY <1>1, <1>2, <2>2
    <3>2. Serial([reading.results EXCEPT ![f] = Looked(tree[f], claimed)], tree, claimed)
      BY <1>1, <1>4, <1>5, <2>2, SerialLook
    <3> QED BY <3>1, <3>2
  <2> QED BY <2>1, <2>2
<1> QED BY <1>1, <1>3, <1>5, SerialStep

LEMMA SerialReads == ASSUME CaptureInv, SerialInv, NEW f \in File, ReadFile(f) PROVE SerialInv'
<1> DEFINE r == IF tree[f] = Absent THEN <<"error">>
                ELSE IF reading.results[f] = <<"file?">> THEN <<"file", tree[f]>>
                     ELSE <<"large", tree[f]>>
<1>1. reading.results \in [File -> Results] /\ tree \in Contents
  BY DEF CaptureInv, TypeInv
<1>2. /\ UNCHANGED <<tree, index, past, pc>> /\ pc = "read"
      /\ reading.results[f][1] \in {"file?", "large?"}
      /\ reading' = [reading EXCEPT !.results[f] = r]
  BY <1>1 DEF ReadFile
<1>3. DOMAIN reading = {"tracked", "others", "budget", "results", "tree", "index"}
  BY DEF CaptureInv, TypeInv
<1>4. /\ reading'.tracked = reading.tracked /\ reading'.others = reading.others
      /\ reading'.tree = reading.tree /\ reading'.index = reading.index
      /\ reading'.budget = reading.budget
      /\ reading'.results = [reading.results EXCEPT ![f] = r]
  BY <1>2, <1>3
<1>5. ASSUME Serial(reading.results, tree, reading.budget)
      PROVE  Serial(reading'.results, tree, reading'.budget)
  <2>1. Serial([reading.results EXCEPT ![f] = r], tree, reading.budget)
    BY <1>1, <1>2, <1>5, SerialRead
  <2> QED BY <1>4, <2>1
<1> QED BY <1>2, <1>4, <1>5, SerialStep

\* The other steps are not of a reading, or end it.
LEMMA SerialElse ==
    ASSUME CaptureInv,
           ReadBase \/ ReadIndex \/ Merge \/ Cancel \/ BeginPatch \/ DiffFile
    PROVE  SerialInv'
<1>1. pc' \notin {"others", "read"}
  <2>1. \A n : After(n) \in {"done", "list", "patch"}
    BY DEF After
  <2>2. ASSUME NEW results, NEW others, Finish(results, others) PROVE pc' \notin {"others", "read"}
    BY <2>1, <2>2 DEF Finish, Leave
  <2>3. CASE ReadBase \/ Cancel
    BY <2>3 DEF ReadBase, Cancel, Leave
  <2>4. CASE ReadIndex \/ Merge
    BY <2>2, <2>4 DEF ReadIndex, Merge, Leave
  <2>5. CASE BeginPatch \/ DiffFile
    BY <2>5 DEF BeginPatch, DiffFile
  <2> QED BY <2>3, <2>4, <2>5
<1> QED BY <1>1 DEF SerialInv, Still

LEMMA StepSerial ==
    ASSUME CaptureInv, SerialInv, [CaptureNext]_captureVars PROVE SerialInv'
<1>1. CASE CaptureNext
  <2>1. CASE ReadBase \/ ReadIndex \/ Merge \/ Cancel \/ BeginPatch \/ DiffFile
    BY <2>1, SerialElse
  <2>2. CASE ListTracked \/ ListOthers
    BY <2>2, SerialListTracked, SerialListOthers
  <2>3. CASE \E f \in File : Look(f) \/ ReadFile(f)
    BY <2>3, SerialLooks, SerialReads
  <2>4. CASE World
    BY <2>4, SerialWorld
  <2> QED BY <1>1, <2>1, <2>2, <2>3, <2>4 DEF CaptureNext, World
<1>2. CASE UNCHANGED captureVars
  BY <1>2 DEF captureVars, SerialInv, Still, Unmoving, Serial, Claims, Known, Moment
<1> QED BY <1>1, <1>2

-----------------------------------------------------------------------------
\* The bytes that results hold, file by file.
InMemory(results) == [f \in File |-> IF results[f][1] = "file" THEN Size[results[f][2]] ELSE 0]

\* What is in memory has been accepted, and what is accepted fits.
LEMMA SerialBytes ==
    ASSUME NEW results, NEW contents, NEW budget, Serial(results, contents, budget)
    PROVE  Bytes(results) <= MaxBytes
<1>1. ASSUME NEW f \in File
      PROVE  InMemory(results)[f] \in Nat
             /\ InMemory(results)[f] <= Claims(results, contents, Accepts)[f]
  <2>1. AsFound(results[f], contents[f])
    BY DEF Serial
  <2>2. results[f][1] = "file" => results[f][1] \in Looks /\ results[f][1] \in Accepts
    BY DEF Looks, Accepts
  <2>3. results[f][1] = "file" => Size[results[f][2]] \in Nat /\ results[f][2] = contents[f]
    BY <2>1, <2>2, SizeOfFound
  <2>4. Claims(results, contents, Accepts)[f] \in Nat
    BY ClaimsTyped DEF Serial
  <2>5. Claims(results, contents, Accepts)[f]
           = IF results[f][1] \in Accepts THEN Size[contents[f]] ELSE 0
    BY DEF Claims
  <2>6. InMemory(results)[f] = IF results[f][1] = "file" THEN Size[results[f][2]] ELSE 0
    BY DEF InMemory
  <2> QED BY <2>2, <2>3, <2>4, <2>5, <2>6
<1>2. InMemory(results) \in [File -> Nat]
  BY <1>1 DEF InMemory
<1>3. Claims(results, contents, Accepts) \in [File -> Nat]
  BY ClaimsTyped DEF Serial
<1>4. /\ Total(InMemory(results)) \in Nat /\ Total(Claims(results, contents, Accepts)) \in Nat
      /\ Total(InMemory(results)) <= Total(Claims(results, contents, Accepts))
  BY <1>1, <1>2, <1>3, TotalGrows
<1>5. Bytes(results) = Total(InMemory(results))
  BY DEF Bytes, InMemory
<1>6. Total(Claims(results, contents, Accepts)) <= MaxBytes /\ MaxBytes \in Nat
  BY CaptureAssumption DEF Serial
<1> QED BY <1>4, <1>5, <1>6

\* What is claimed is no more than a serial reading would hold.
LEMMA SerialClaims ==
    ASSUME NEW results, NEW contents \in Contents, NEW budget, Serial(results, contents, budget)
    PROVE  /\ budget \in Nat /\ Bytes([f \in File |-> ReadOf(contents[f])]) \in Nat
           /\ budget <= Bytes([f \in File |-> ReadOf(contents[f])])
<1> DEFINE all == [f \in File |-> ReadOf(contents[f])]
<1>1. ASSUME NEW f \in File
      PROVE  /\ InMemory(all)[f] \in Nat
             /\ Claims(results, contents, Looks)[f] <= InMemory(all)[f]
  <2>1. AsFound(results[f], contents[f])
    BY DEF Serial
  <2>2. InMemory(all)[f] = IF ReadOf(contents[f])[1] = "file" THEN Size[ReadOf(contents[f])[2]] ELSE 0
    BY DEF InMemory
  <2>3. contents[f] \in Content \cup {Absent}
    BY DEF Contents
  <2>4. CASE contents[f] \in Content \ Oversized
    <3>1. contents[f] # Absent /\ Size[contents[f]] \in Nat
      BY <2>4, CaptureAssumption
    <3>2. ReadOf(contents[f]) = <<"file", contents[f]>>
      BY <2>4, <3>1 DEF ReadOf
    <3>3. InMemory(all)[f] = Size[contents[f]]
      BY <2>2, <3>2
    <3>4. Claims(results, contents, Looks)[f] \in {0, Size[contents[f]]}
      BY DEF Claims
    <3> QED BY <3>1, <3>3, <3>4
  <2>5. CASE contents[f] \notin Content \ Oversized
    <3>1. results[f][1] \notin Looks
      BY <2>1, <2>5, SizeOfFound
    <3>2. Claims(results, contents, Looks)[f] = 0
      BY <3>1 DEF Claims
    <3>3. ReadOf(contents[f])[1] # "file"
      BY <2>3, <2>5 DEF ReadOf
    <3> QED BY <2>2, <3>2, <3>3
  <2> QED BY <2>4, <2>5
<1>2. InMemory(all) \in [File -> Nat]
  BY <1>1 DEF InMemory
<1>3. Claims(results, contents, Looks) \in [File -> Nat]
  BY ClaimsTyped DEF Serial
<1>4. Bytes(all) = Total(InMemory(all))
  BY DEF Bytes, InMemory
<1>5. /\ Total(Claims(results, contents, Looks)) \in Nat /\ Total(InMemory(all)) \in Nat
      /\ Total(Claims(results, contents, Looks)) <= Total(InMemory(all))
  <2> HIDE DEF all
  <2> QED BY <1>1, <1>2, <1>3, TotalGrows
<1>6. budget = Total(Claims(results, contents, Looks))
  BY DEF Serial
<1> QED BY <1>4, <1>5, <1>6

LEMMA AllAsSerial == ASSUME CaptureInv, SerialInv PROVE ReadsAsSerial
<1> SUFFICES ASSUME Still
             PROVE  /\ Bytes(reading.results) <= MaxBytes
                    /\ Unfinished = {} =>
                          IF TreeBytes > MaxBytes THEN Failed
                          ELSE ~Failed /\ ContentOf(reading.results) = tree
  BY DEF ReadsAsSerial
<1>1. /\ pc = "read" /\ tree \in Contents
      /\ reading.tracked = Known(index) /\ reading.others = Known(tree) \ Known(index)
      /\ Serial(reading.results, tree, reading.budget)
  BY DEF SerialInv, Still, CaptureInv, TypeInv
<1>2. Bytes(reading.results) <= MaxBytes
  BY <1>1, SerialBytes
<1>3. ASSUME Unfinished = {}
      PROVE  IF TreeBytes > MaxBytes THEN Failed
             ELSE ~Failed /\ ContentOf(reading.results) = tree
  <2>1. \A f \in File \ Listed : reading.results[f] = Unread
    BY <1>1 DEF CaptureInv, ReadInv
  <2>2. \A f \in File \ Listed : tree[f] = Absent
    BY <1>1 DEF Listed, Known
  <2>3. \A f \in File : AsFound(reading.results[f], tree[f])
    BY <1>1 DEF Serial
  <2>4. Listed \subseteq File
    BY <1>1 DEF Listed, Known
  <2>5. \A f \in Listed : reading.results[f][1] \notin {"unread", "file?", "large?"}
    BY <1>3 DEF Unfinished
  <2>6. Failed <=> \E f \in File : reading.results[f] = <<"over">>
    <3>1. \A f \in Listed : reading.results[f][1] \in {"over", "error"}
                               <=> reading.results[f] = <<"over">>
      BY <2>3, <2>4, SizeOfFound
    <3>2. \A f \in File \ Listed : reading.results[f] # <<"over">>
      BY <2>1 DEF Unread
    <3> QED BY <2>4, <3>1, <3>2 DEF Failed
  <2>7. CASE \E f \in File : reading.results[f] = <<"over">>
    <3>1. reading.budget > MaxBytes
      BY <1>1, <2>7 DEF Serial
    <3>2. TreeBytes > MaxBytes
      <4>1. /\ reading.budget \in Nat /\ TreeBytes \in Nat
            /\ reading.budget <= TreeBytes
        BY <1>1, SerialClaims DEF TreeBytes
      <4> HIDE DEF TreeBytes
      <4> QED BY ONLY <3>1, <4>1, CaptureAssumption
    <3> QED BY <2>6, <2>7, <3>2
  <2>8. CASE \A f \in File : reading.results[f] # <<"over">>
    <3>1. ASSUME NEW f \in File
          PROVE  \/ f \notin Listed /\ tree[f] = Absent /\ reading.results[f] = Unread
                 \/ tree[f] = Absent /\ reading.results[f] = <<"absent">>
                 \/ tree[f] \in Content /\ tree[f] \in Oversized
                       /\ reading.results[f] = <<"large", tree[f]>>
                 \/ tree[f] \in Content \ Oversized /\ reading.results[f] = <<"file", tree[f]>>
      <4>1. CASE f \in Listed
        BY <2>3, <2>5, <2>8, <4>1, CaptureAssumption DEF AsFound, Unread
      <4>2. CASE f \notin Listed
        BY <2>1, <2>2, <4>2
      <4> QED BY <4>1, <4>2
    <3>2. ASSUME NEW f \in File
          PROVE  /\ ContentOf(reading.results)[f] = tree[f]
                 /\ ReadOf(tree[f])[1] = "file" <=> reading.results[f][1] = "file"
                 /\ reading.results[f][1] = "file" => reading.results[f] = ReadOf(tree[f])
      BY <3>1, ContentAt, CaptureAssumption DEF ReadOf, Unread
    <3>3. ContentOf(reading.results) = tree
      <4>1. ContentOf(reading.results) = [f \in File |-> ContentOf(reading.results)[f]]
        BY DEF ContentOf
      <4>2. tree = [f \in File |-> tree[f]]
        BY <1>1 DEF Contents
      <4> QED BY <3>2, <4>1, <4>2
    <3>4. Bytes(reading.results) = TreeBytes
      <4>1. [f \in File |-> IF reading.results[f][1] = "file"
                            THEN Size[reading.results[f][2]] ELSE 0]
            = [f \in File |-> IF [g \in File |-> ReadOf(tree[g])][f][1] = "file"
                              THEN Size[[g \in File |-> ReadOf(tree[g])][f][2]] ELSE 0]
        BY <3>2
      <4> QED BY <4>1 DEF Bytes, TreeBytes
    <3>5. ~(TreeBytes > MaxBytes)
      <4>1. TreeBytes \in Nat
        BY <1>1, SerialClaims DEF TreeBytes
      <4> QED BY <1>2, <3>4, <4>1, CaptureAssumption
    <3> QED BY <2>6, <2>8, <3>3, <3>5
  <2> QED BY <2>7, <2>8
<1> QED BY <1>2, <1>3

\* The concurrent reading of a tree that holds still fails only if a serial one
\* would, in whatever order sizes are claimed and files are read, it gives what
\* the tree holds, and what is in memory never exceeds the limit.
THEOREM SerialHolds == CaptureSpec => []ReadsAsSerial
<1>1. CaptureInit => CaptureInv /\ SerialInv
  BY InitCapture, InitSerial
<1>2. CaptureInv /\ SerialInv /\ [CaptureNext]_captureVars => CaptureInv' /\ SerialInv'
  BY StepCapture, StepSerial
<1>3. CaptureInv /\ SerialInv => ReadsAsSerial
  BY AllAsSerial
<1> QED BY <1>1, <1>2, <1>3, PTL DEF CaptureSpec

-----------------------------------------------------------------------------
(* The log.  A record says what its run came to, which is settled when it  *)
(* is written; a scan adds nothing to the records of the lines it reads,   *)
(* and without complaint it leaves out none.  So a record that was there in*)
(* full when the report began is in the report, or in a file that is still *)
(* to be read, or the file has been removed, which the report complains of *)
(* unless another run of that day creates it again.                        *)

\* The first lines of a file, and what a scan has after them.
AfterLine(file, sofar, up, n) ==
    IF n = 0 THEN Read(TRUE, sofar)
    ELSE IF ~EndsLine(file, n) THEN up[n - 1]
    ELSE LET got == up[n - 1]
             line == Reading(file, n)
         IN  IF ~line.ok \/ (\E e \in line.entries : Duplicate(got.entries, e))
             THEN Read(FALSE, got.entries)
             ELSE Read(got.ok, got.entries \cup line.entries)
IsScan(up, file, sofar, m) == up = [n \in 0..m |-> AfterLine(file, sofar, up, n)]

LEMMA ScanExists ==
    ASSUME NEW file, NEW sofar, Len(file) \in Nat
    PROVE  \E up : IsScan(up, file, sofar, Len(file)) /\ Scan(file, sofar) = up[Len(file)]
<1> PICK N \in Nat : N = Len(file)
  OBVIOUS
<1> DEFINE S == {m \in 0..N : \E up : IsScan(up, file, sofar, m)}
<1>1. 0 \in S
  <2>1. IsScan([n \in 0..0 |-> Read(TRUE, sofar)], file, sofar, 0)
    BY DEF IsScan, AfterLine
  <2> QED BY <2>1
<1>2. ASSUME NEW m \in 0..N, m # 0, m - 1 \in S PROVE m \in S
  <2>1. PICK up : IsScan(up, file, sofar, m - 1)
    BY <1>2
  <2> DEFINE last == AfterLine(file, sofar, up, m)
             more == [n \in 0..m |-> IF n = m THEN last ELSE up[n]]
  <2>2. \A n \in 0..m : n # 0 => more[n - 1] = up[n - 1]
    BY <1>2
  <2>3. \A n \in 0..m : n # m => n \in 0..(m - 1) /\ up[n] = AfterLine(file, sofar, up, n)
    BY <1>2, <2>1 DEF IsScan
  <2>4. \A n \in 0..m : more[n] = AfterLine(file, sofar, up, n)
    <3> HIDE DEF last
    <3> QED BY <2>3 DEF last
  <2> HIDE DEF more
  <2>5. \A n \in 0..m : more[n] = AfterLine(file, sofar, more, n)
    BY <2>2, <2>4 DEF AfterLine
  <2>6. IsScan(more, file, sofar, m)
    BY <2>5 DEF IsScan, more
  <2> QED BY <2>6
<1>3. N \in S
  <2> HIDE DEF S
  <2>1. 0..N \subseteq S
    BY ONLY N \in Nat, <1>1, <1>2, Climb
  <2> QED BY <2>1
<1> DEFINE first == CHOOSE up : IsScan(up, file, sofar, N)
<1>4. Scan(file, sofar) = first[N]
  BY DEF Scan, IsScan, AfterLine
<1>5. IsScan(first, file, sofar, N)
  BY <1>3
<1> QED BY <1>4, <1>5

\* What a scan has, up to its n-th line.
ScannedTo(file, sofar, got, n) ==
    /\ sofar \subseteq got.entries
    /\ \A e \in got.entries : e \in sofar \/ \E i \in 1..n : e \in Reading(file, i).entries
    /\ got.ok => \A i \in 1..n : EndsLine(file, i) =>
                    Reading(file, i).ok /\ Reading(file, i).entries \subseteq got.entries

LEMMA ScanFacts ==
    ASSUME NEW file, NEW sofar, Len(file) \in Nat
    PROVE  ScannedTo(file, sofar, Scan(file, sofar), Len(file))
<1> PICK N \in Nat : N = Len(file)
  OBVIOUS
<1>1. PICK up : IsScan(up, file, sofar, N) /\ Scan(file, sofar) = up[N]
  BY ScanExists
<1> DEFINE S == {n \in 0..N : ScannedTo(file, sofar, up[n], n)}
<1>2. 0 \in S
  <2>1. up[0] = Read(TRUE, sofar)
    BY <1>1 DEF IsScan, AfterLine
  <2> QED BY <2>1 DEF ScannedTo, Read
<1>3. ASSUME NEW n \in 0..N, n # 0, n - 1 \in S PROVE n \in S
  <2> DEFINE got == up[n - 1]
             line == Reading(file, n)
  <2>1. ScannedTo(file, sofar, got, n - 1)
    BY <1>3
  <2>2. up[n] = AfterLine(file, sofar, up, n)
    BY <1>1 DEF IsScan
  <2>3. \A i \in 1..n : i = n \/ i \in 1..(n - 1)
    BY <1>3
  <2>4. n \in 1..n /\ \A i \in 1..(n - 1) : i \in 1..n
    BY <1>3
  <2>5. CASE ~EndsLine(file, n)
    <3>1. up[n] = got
      BY <1>3, <2>2, <2>5 DEF AfterLine
    <3> HIDE DEF got
    <3> QED BY <2>1, <2>3, <2>4, <2>5, <3>1 DEF ScannedTo
  <2>6. CASE EndsLine(file, n) /\ (~line.ok \/ \E e \in line.entries : Duplicate(got.entries, e))
    <3>1. up[n] = Read(FALSE, got.entries)
      BY <1>3, <2>2, <2>6 DEF AfterLine
    <3>2. ~up[n].ok /\ up[n].entries = got.entries
      BY <3>1 DEF Read
    <3> HIDE DEF got, line
    <3> QED BY <2>1, <2>4, <3>2 DEF ScannedTo
  <2>7. CASE EndsLine(file, n) /\ line.ok /\ ~\E e \in line.entries : Duplicate(got.entries, e)
    <3>1. up[n] = Read(got.ok, got.entries \cup line.entries)
      BY <1>3, <2>2, <2>7 DEF AfterLine
    <3>2. up[n].ok = got.ok /\ up[n].entries = got.entries \cup line.entries
      BY <3>1 DEF Read
    <3> HIDE DEF got
    <3> QED BY <2>1, <2>3, <2>4, <2>7, <3>2 DEF ScannedTo
  <2> QED BY <1>3, <2>5, <2>6, <2>7
<1>4. N \in S
  <2> HIDE DEF S
  <2>1. 0..N \subseteq S
    BY ONLY N \in Nat, <1>2, <1>3, Climb
  <2> QED BY <2>1
<1> QED BY <1>1, <1>4

\* A line stands for the record that ends it; only of a start may the run be cut.
LEMMA ReadingFacts ==
    ASSUME NEW file, NEW i,
           file[i].cut \in Cuts(file[i].msg) \cup {Whole}
    PROVE  /\ \A e \in Reading(file, i).entries : e = Fields(file[i]) \/ e.msg = "start"
           /\ file[i].cut = Whole /\ Reading(file, i).ok
                 => Fields(file[i]) \in Reading(file, i).entries
<1>1. file[i].cut.alone = "other" => file[i].msg = "start"
  BY DEF Cuts, Whole
<1>2. ASSUME file[i].cut.alone = "other"
      PROVE  [Fields(file[i]) EXCEPT !.run = Unknown].msg = "start"
  BY <1>1, <1>2 DEF Fields
<1>3. ASSUME NEW e \in Reading(file, i).entries PROVE e = Fields(file[i]) \/ e.msg = "start"
  BY <1>2 DEF Reading, Read
<1>4. ASSUME file[i].cut = Whole, Reading(file, i).ok
      PROVE  Fields(file[i]) \in Reading(file, i).entries
  <2>1. file[i].cut.alone = "record"
    BY <1>4 DEF Whole
  <2>2. ~\E j \in Before(file, i) : file[j].cut.glued = "invalid"
    BY <1>4 DEF Reading, Read
  <2> QED BY <2>1, <2>2 DEF Reading, Read
<1> QED BY <1>3, <1>4

Dated == Kind \X (Nat \ {0})
Ends == {"finish", "over"}
Invoked == [pc : {"new", "open", "list", "prune", "work", "analysis"} \cup Ends,
            started : Nat, log : {"none", "open", "unlinked"}, expired : SUBSET Dated,
            code : 0..1, ended : BOOLEAN]
Entries == [run : Invocation, msg : {"start", "finish", "analysis"}, code : 0..1,
            cut : Cuts("start") \cup Cuts("finish") \cup Cuts("analysis") \cup {Whole}]
Expired(f) == f[2] < day - (Retained - 1)

InvokedInv ==
    /\ day \in Nat \ {0} /\ invocations \in [Invocation -> Invoked]
    /\ \A r \in Invocation :
          /\ invocations[r].pc = "new" <=> invocations[r].started = 0
          /\ invocations[r].started <= day
          /\ \A f \in invocations[r].expired : Expired(f)

\* What a record says of its run is settled.
Settles(f, e) ==
    /\ e.cut \in Cuts(e.msg) \cup {Whole}
    /\ f[1] = "command" => invocations[e.run].pc \notin {"new", "open"}
    /\ f[1] = "analysis" => invocations[e.run].pc \in Ends
    /\ e.msg # "start" => invocations[e.run].pc \in Ends /\ e.code = invocations[e.run].code
    /\ e.msg = "finish" => invocations[e.run].ended

FilesInv ==
    /\ DOMAIN files \subseteq Dated
    /\ \A f \in DOMAIN files : files[f] \in Seq(Entries)
    /\ \A f \in DOMAIN files : \A i \in 1..Len(files[f]) : Settles(f, files[f][i])

Came(e) ==
    e.msg # "start" =>
        /\ e.run \in Invocation /\ invocations[e.run].pc \in Ends
        /\ e.code = invocations[e.run].code
        /\ e.msg = "finish" => invocations[e.run].ended

\* A record that is to be read, or whose absence will be noticed.
HasRecord(file, entry) == \E i \in 1..Len(file) : file[i].cut = Whole /\ Fields(file[i]) = entry
ToCome(p) ==
    /\ p.file \in report.listed
    /\ IF p.file \in DOMAIN files THEN HasRecord(files[p.file], p.entry) ELSE Expired(p.file)

Accounted(p) ==
    /\ p.file \in Dated /\ p.entry.run \in Invocation
    /\ p.file[1] = "command" => invocations[p.entry.run].pc \notin {"new", "open"}
    /\ p.file[1] = "analysis" => invocations[p.entry.run].pc \in Ends
    /\ report.ok => p.entry \in report.seen \/ MadeAgain(p) \/ ToCome(p)

ReportInv ==
    /\ DOMAIN report = {"pc", "listed", "ok", "seen", "present", "going"}
    /\ report.pc \in {"idle", "reading", "done"} /\ report.ok \in BOOLEAN
    /\ report.pc = "done" => report.listed = {}
    /\ report.pc # "idle" => \A r \in Invocation : invocations[r].pc # "over" => r \in report.going
    /\ report.going \subseteq Invocation
    /\ \A e \in report.seen : Came(e)
    /\ \A p \in report.present : report.pc # "idle" /\ Accounted(p)

LogInv == InvokedInv /\ FilesInv /\ ReportInv

LEMMA InitLog == ASSUME Retained \in Nat, LogInit PROVE LogInv
<1>1. InvokedInv
  BY DEF LogInit, AllNew, InvokedInv, Invoked, Ends, Expired
<1>2. FilesInv
  <2>1. DOMAIN files = {}
    BY DEF LogInit
  <2> QED BY <2>1 DEF FilesInv
<1>3. ReportInv
  BY DEF LogInit, Idle, ReportInv
<1> QED BY <1>1, <1>2, <1>3 DEF LogInv

-----------------------------------------------------------------------------
(* The runs go on.                                                         *)

\* What a step may do to a run.
Goes(old, new) ==
    /\ new \in Invoked
    /\ new.pc = "new" <=> new.started = 0
    /\ old.pc # "new" => new.started = old.started
    /\ old.pc \notin {"new", "open"} => new.pc \notin {"new", "open"}
    /\ old.pc \in Ends => new.pc \in Ends /\ new.code = old.code
    /\ old.pc = "over" => new.pc = "over"
    /\ old.ended => new.ended
    /\ new.started = old.started \/ new.started = day
    /\ \A f \in new.expired : f \in old.expired \/ f[2] < new.started - (Retained - 1)

\* Files grow, or are removed when they have expired; who creates one has none
\* of its records in it.
Grown(f) ==
    \A i \in 1..Len(files[f]) : i \in 1..Len(files'[f]) /\ files'[f][i] = files[f][i]
Makes(r, f) ==
    /\ invocations[r].started = f[2]
    /\ f[1] = "command" => invocations[r].pc = "open"
    /\ f[1] = "analysis" => invocations[r].pc = "analysis"

Onward ==
    /\ day' \in Nat /\ day <= day' /\ UNCHANGED report
    /\ invocations' \in [Invocation -> Invoked]
    /\ \A r \in Invocation : Goes(invocations[r], invocations'[r])
    /\ \A f \in DOMAIN files : IF f \in DOMAIN files' THEN Grown(f) ELSE Expired(f)
    /\ \A f \in DOMAIN files' \ DOMAIN files : \E r \in Invocation : Makes(r, f)

LEMMA StillExpired ==
    ASSUME Retained \in Nat, InvokedInv, day' \in Nat, day <= day'
    PROVE  \A f : f[2] \in Nat /\ Expired(f) => Expired(f)'
  BY DEF InvokedInv, Expired

LEMMA OnwardInvoked ==
    ASSUME Retained \in Nat, LogInv, Onward PROVE InvokedInv'
<1> SUFFICES ASSUME NEW r \in Invocation
             PROVE  /\ invocations'[r].pc = "new" <=> invocations'[r].started = 0
                    /\ invocations'[r].started <= day'
                    /\ \A f \in invocations'[r].expired : Expired(f)'
  <2>1. day' \in Nat \ {0}
    BY DEF LogInv, InvokedInv, Onward
  <2> QED BY <2>1 DEF InvokedInv, Onward
<1>1. /\ day \in Nat /\ day' \in Nat /\ day <= day'
      /\ invocations[r] \in Invoked /\ invocations'[r] \in Invoked
      /\ invocations[r].started <= day
      /\ \A f \in invocations[r].expired : Expired(f)
      /\ Goes(invocations[r], invocations'[r])
  BY DEF LogInv, InvokedInv, Onward
<1>2. /\ invocations[r].started \in Nat /\ invocations'[r].started \in Nat
      /\ invocations'[r].expired \subseteq Dated
  BY <1>1 DEF Invoked
<1>3. invocations'[r].started = invocations[r].started \/ invocations'[r].started = day
  BY <1>1 DEF Goes
<1>4. invocations'[r].started <= day'
  BY <1>1, <1>2, <1>3
<1>5. ASSUME NEW f \in invocations'[r].expired PROVE Expired(f)'
  <2>1. f[2] \in Nat
    BY <1>2 DEF Dated
  <2>2. Expired(f) \/ f[2] < invocations'[r].started - (Retained - 1)
    BY <1>1, <1>5 DEF Goes
  <2> QED BY <1>1, <1>2, <1>4, <2>1, <2>2 DEF Expired
<1> QED BY <1>1, <1>4, <1>5 DEF Goes

LEMMA OnwardSettles ==
    ASSUME Onward, NEW f, NEW e, e.run \in Invocation, Settles(f, e) PROVE Settles(f, e)'
<1>1. Goes(invocations[e.run], invocations'[e.run])
  BY DEF Onward
<1> QED BY <1>1 DEF Settles, Goes

LEMMA OnwardReport ==
    ASSUME Retained \in Nat, LogInv, Onward PROVE ReportInv'
<1>1. \A r \in Invocation : Goes(invocations[r], invocations'[r])
  BY DEF Onward
<1>2. UNCHANGED report /\ ReportInv
  BY DEF LogInv, Onward
<1>3. ASSUME NEW e \in report.seen PROVE Came(e)'
  <2>1. Came(e)
    BY <1>2, <1>3 DEF ReportInv
  <2> QED BY <1>1, <2>1 DEF Came, Goes
<1>4. ASSUME NEW r \in Invocation, report.pc # "idle", invocations'[r].pc # "over"
      PROVE  r \in report.going
  <2>1. invocations[r].pc # "over"
    BY <1>1, <1>4 DEF Goes
  <2> QED BY <1>2, <1>4, <2>1 DEF ReportInv
<1>5. ASSUME NEW p \in report.present PROVE Accounted(p)'
  <2>1. Accounted(p) /\ report.pc # "idle"
    BY <1>2, <1>5 DEF ReportInv
  <2>2. p.file \in Dated /\ p.file[2] \in Nat \ {0} /\ p.entry.run \in Invocation
        /\ p.file[1] \in {"command", "analysis"}
    BY <2>1 DEF Accounted, Dated, Kind
  <2>3. Goes(invocations[p.entry.run], invocations'[p.entry.run])
    BY <1>1, <2>2
  <2>4. Expired(p.file) => Expired(p.file)'
    BY <2>2, StillExpired DEF LogInv, Onward
  <2>5. MadeAgain(p) => MadeAgain(p)'
    <3> SUFFICES ASSUME NEW r \in report.going \ {p.entry.run},
                        invocations[r].started = p.file[2], Expired(p.file)
                 PROVE  MadeAgain(p)'
      BY DEF MadeAgain, Expired
    <3>1. r \in Invocation /\ invocations'[r].started = invocations[r].started
      <4>1. r \in Invocation
        BY <1>2 DEF ReportInv
      <4>2. CASE invocations[r].pc # "new"
        BY <1>1, <4>1, <4>2 DEF Goes
      <4>3. CASE invocations[r].pc = "new"
        <5>1. invocations[r].started = 0
          BY <4>1, <4>3 DEF LogInv, InvokedInv
        <5> QED BY <2>2, <5>1
      <4> QED BY <4>1, <4>2, <4>3
    <3> QED BY <1>2, <2>4, <3>1 DEF MadeAgain, Expired
  <2>6. ToCome(p) => ToCome(p)' \/ MadeAgain(p)'
    <3> SUFFICES ASSUME ToCome(p) PROVE ToCome(p)' \/ MadeAgain(p)'
      OBVIOUS
    <3>1. CASE p.file \in DOMAIN files /\ p.file \in DOMAIN files'
      <4>1. Grown(p.file) /\ HasRecord(files[p.file], p.entry)
        BY <3>1 DEF Onward, ToCome
      <4>2. HasRecord(files'[p.file], p.entry)
        BY <4>1 DEF Grown, HasRecord
      <4> QED BY <1>2, <3>1, <4>2 DEF ToCome, HasRecord
    <3>2. CASE p.file \in DOMAIN files /\ p.file \notin DOMAIN files'
      BY <1>2, <2>4, <3>2 DEF ToCome, Onward
    <3>3. CASE p.file \notin DOMAIN files /\ p.file \notin DOMAIN files'
      BY <1>2, <2>4, <3>3 DEF ToCome
    <3>4. CASE p.file \notin DOMAIN files /\ p.file \in DOMAIN files'
      <4>1. PICK r \in Invocation : Makes(r, p.file)
        BY <3>4 DEF Onward
      <4>2. r # p.entry.run /\ invocations[r].pc # "over" /\ invocations[r].pc # "new"
        BY <2>1, <2>2, <4>1 DEF Accounted, Makes, Ends
      <4>3. r \in report.going
        BY <1>2, <2>1, <4>2 DEF ReportInv
      <4>4. invocations'[r].started = p.file[2]
        BY <1>1, <4>1, <4>2 DEF Goes, Makes
      <4>5. Expired(p.file)'
        BY <2>4, <3>4 DEF ToCome
      <4> QED BY <1>2, <4>2, <4>3, <4>4, <4>5 DEF MadeAgain, Expired
    <3> QED BY <3>1, <3>2, <3>3, <3>4
  <2> QED BY <1>2, <2>1, <2>2, <2>3, <2>5, <2>6 DEF Accounted, Goes
<1> QED BY <1>2, <1>3, <1>4, <1>5 DEF ReportInv

\* What is in the files has been there, or is settled.
Writes ==
    /\ DOMAIN files' \subseteq Dated
    /\ \A f \in DOMAIN files' :
          /\ files'[f] \in Seq(Entries)
          /\ \A i \in 1..Len(files'[f]) :
                \/ f \in DOMAIN files /\ i \in 1..Len(files[f]) /\ files'[f][i] = files[f][i]
                \/ Settles(f, files[f][i])'

LEMMA OnwardLog == ASSUME Retained \in Nat, LogInv, Onward, Writes PROVE LogInv'
<1>1. ASSUME NEW f \in DOMAIN files', NEW i \in 1..Len(files'[f])
      PROVE  Settles(f, files[f][i])'
  <2>1. CASE f \in DOMAIN files /\ i \in 1..Len(files[f]) /\ files'[f][i] = files[f][i]
    <3>1. Settles(f, files[f][i]) /\ files[f] \in Seq(Entries)
      BY <2>1 DEF LogInv, FilesInv
    <3>2. PICK e \in Entries : e = files[f][i]
      BY <2>1, <3>1
    <3>3. Settles(f, e)'
      BY <3>1, <3>2, OnwardSettles DEF Entries
    <3> QED BY <2>1, <3>2, <3>3 DEF Settles
  <2> QED BY <1>1, <2>1 DEF Writes
<1>2. FilesInv'
  BY <1>1 DEF FilesInv, Writes
<1> QED BY <1>2, OnwardInvoked, OnwardReport DEF LogInv

LEMMA OneGoes ==
    ASSUME InvokedInv, NEW r \in Invocation, NEW new, Goes(invocations[r], new),
           invocations' = [invocations EXCEPT ![r] = new]
    PROVE  /\ invocations' \in [Invocation -> Invoked] /\ invocations'[r] = new
           /\ \A q \in Invocation : Goes(invocations[q], invocations'[q])
<1>1. new \in Invoked /\ invocations \in [Invocation -> Invoked]
  BY DEF Goes, InvokedInv
<1>2. invocations' \in [Invocation -> Invoked] /\ invocations'[r] = new
  BY <1>1
<1>3. ASSUME NEW q \in Invocation, q # r PROVE Goes(invocations[q], invocations'[q])
  <2>1. invocations'[q] = invocations[q] /\ invocations[q] \in Invoked
    BY <1>1, <1>3
  <2>2. invocations[q].pc = "new" <=> invocations[q].started = 0
    BY DEF InvokedInv
  <2> QED BY <2>1, <2>2 DEF Goes
<1> QED BY <1>2, <1>3

\* A step that leaves the files alone.
LEMMA SameFiles ==
    ASSUME Retained \in Nat, LogInv, UNCHANGED <<day, files, report>>,
           invocations' \in [Invocation -> Invoked],
           \A q \in Invocation : Goes(invocations[q], invocations'[q])
    PROVE  LogInv'
<1>1. Onward
  BY DEF Onward, Grown, LogInv, InvokedInv
<1>2. Writes
  BY DEF Writes, LogInv, FilesInv
<1> QED BY <1>1, <1>2, OnwardLog

\* A step that creates a file, or writes a record to its end.
LEMMA MoreFiles ==
    ASSUME Retained \in Nat, LogInv, UNCHANGED <<day, report>>,
           invocations' \in [Invocation -> Invoked],
           \A q \in Invocation : Goes(invocations[q], invocations'[q]),
           NEW r \in Invocation, NEW f \in Dated, NEW to,
           to = files \/ (to = Created(f) /\ Makes(r, f)),
           \/ DOMAIN files' = DOMAIN to /\ \A g \in DOMAIN to : files'[g] = to[g]
           \/ /\ f \in DOMAIN to
              /\ \E e \in Entries : files' = [to EXCEPT ![f] = Append(to[f], e)] /\ Settles(f, e)'
    PROVE  LogInv'
<1>1. /\ DOMAIN files \subseteq Dated
      /\ \A g \in DOMAIN files : files[g] \in Seq(Entries)
  BY DEF LogInv, FilesInv
<1>2. /\ DOMAIN files \subseteq DOMAIN to /\ DOMAIN to \subseteq DOMAIN files \cup {f}
      /\ \A g \in DOMAIN files : to[g] = files[g]
      /\ \A g \in DOMAIN to \ DOMAIN files : g = f /\ to[g] = <<>> /\ Makes(r, f)
  BY DEF Created
<1>3. DOMAIN to \subseteq Dated /\ \A g \in DOMAIN to : to[g] \in Seq(Entries)
  <2>1. <<>> \in Seq(Entries)
    OBVIOUS
  <2> QED BY <1>1, <1>2, <2>1
<1>4. CASE DOMAIN files' = DOMAIN to /\ \A g \in DOMAIN to : files'[g] = to[g]
  <2>1. Onward
    BY <1>2, <1>4 DEF Onward, Grown, LogInv, InvokedInv
  <2>2. Writes
    BY <1>2, <1>3, <1>4 DEF Writes
  <2> QED BY <2>1, <2>2, OnwardLog
<1>5. CASE /\ f \in DOMAIN to
           /\ \E e \in Entries : files' = [to EXCEPT ![f] = Append(to[f], e)] /\ Settles(f, e)'
  <2>1. PICK e \in Entries : files' = [to EXCEPT ![f] = Append(to[f], e)] /\ Settles(f, e)'
    BY <1>5
  <2>2. /\ DOMAIN files' = DOMAIN to
        /\ \A g \in DOMAIN to : g # f => files'[g] = to[g]
        /\ files'[f] = Append(to[f], e)
    BY <1>5, <2>1
  <2>3. /\ files'[f] \in Seq(Entries) /\ Len(files'[f]) = Len(to[f]) + 1 /\ Len(to[f]) \in Nat
        /\ \A i \in 1..Len(to[f]) : files'[f][i] = to[f][i]
        /\ files'[f][Len(to[f]) + 1] = e
    <3>1. to[f] \in Seq(Entries)
      BY <1>3, <1>5
    <3> QED BY <2>2, <3>1
  <2>4. \A g \in DOMAIN files : Grown(g)
    BY <1>2, <2>2, <2>3 DEF Grown
  <2>5. Onward
    BY <1>2, <2>2, <2>4 DEF Onward, LogInv, InvokedInv
  <2>6. Writes
    <3>1. ASSUME NEW i \in 1..Len(files'[f])
          PROVE  \/ f \in DOMAIN files /\ i \in 1..Len(files[f]) /\ files'[f][i] = files[f][i]
                 \/ Settles(f, files[f][i])'
      <4>1. i \in 1..Len(to[f]) \/ i = Len(to[f]) + 1
        BY <2>3, <3>1
      <4>2. CASE i = Len(to[f]) + 1
        BY <2>1, <2>3, <4>2 DEF Settles
      <4>3. CASE i \in 1..Len(to[f])
        <5>1. f \in DOMAIN files
          BY <1>2, <1>5, <4>3
        <5> QED BY <1>2, <2>3, <4>3, <5>1
      <4> QED BY <4>1, <4>2, <4>3
    <3>2. ASSUME NEW g \in DOMAIN files', g # f
          PROVE  /\ files'[g] \in Seq(Entries)
                 /\ \A i \in 1..Len(files'[g]) :
                       g \in DOMAIN files /\ i \in 1..Len(files[g]) /\ files'[g][i] = files[g][i]
      BY <1>2, <1>3, <2>2, <3>2
    <3>3. DOMAIN files' \subseteq Dated
      BY <1>3, <2>2
    <3>4. ASSUME NEW g \in DOMAIN files'
          PROVE  /\ files'[g] \in Seq(Entries)
                 /\ \A i \in 1..Len(files'[g]) :
                       \/ g \in DOMAIN files /\ i \in 1..Len(files[g]) /\ files'[g][i] = files[g][i]
                       \/ Settles(g, files[g][i])'
      <4>1. CASE g = f
        BY ONLY <2>3, <3>1, <4>1 DEF Settles
      <4>2. CASE g # f
        BY <3>2, <4>2
      <4> QED BY <4>1, <4>2
    <3> QED BY ONLY <3>3, <3>4 DEF Writes
  <2> QED BY <2>5, <2>6, OnwardLog
<1> QED BY <1>4, <1>5

\* A record is written to the end of its file, if that is there.
LEMMA WritesRecord ==
    ASSUME Retained \in Nat, LogInv, UNCHANGED <<day, report>>,
           invocations' \in [Invocation -> Invoked],
           \A q \in Invocation : Goes(invocations[q], invocations'[q]),
           NEW r \in Invocation, NEW f \in Dated, NEW to,
           to = files \/ (to = Created(f) /\ Makes(r, f)),
           NEW msg \in {"start", "finish", "analysis"}, AppendRecord(to, f, r, msg),
           \A e : e.run = r /\ e.msg = msg /\ e.code = invocations[r].code
                     /\ e.cut \in Cuts(msg) \cup {Whole} => Settles(f, e)'
    PROVE  LogInv'
<1>1. PICK cut \in Cuts(msg) \cup {Whole} :
          files' = [to EXCEPT ![f] = Append(to[f], Entry(r, msg, cut))]
  BY DEF AppendRecord
<1>2. PICK e : e = Entry(r, msg, cut)
  OBVIOUS
<1>3. invocations[r] \in Invoked
  BY DEF LogInv, InvokedInv
<1>4. e.run = r /\ e.msg = msg /\ e.code = invocations[r].code /\ e.cut = cut
  BY <1>2 DEF Entry
<1>5. e \in Entries
  <2>1. cut \in Cuts("start") \cup Cuts("finish") \cup Cuts("analysis") \cup {Whole}
    BY <1>1
  <2>2. invocations[r].code \in 0..1
    BY <1>3 DEF Invoked
  <2> QED BY <1>2, <2>1, <2>2 DEF Entry, Entries
<1>6. Settles(f, e)'
  BY <1>4
<1>7. files' = [to EXCEPT ![f] = Append(to[f], e)]
  BY <1>1, <1>2
<1>8. CASE f \in DOMAIN to
  BY <1>5, <1>6, <1>7, <1>8, MoreFiles
<1>9. CASE f \notin DOMAIN to
  <2>1. DOMAIN files' = DOMAIN to /\ \A g \in DOMAIN to : files'[g] = to[g]
    BY <1>7, <1>9
  <2> QED BY <2>1, MoreFiles
<1> QED BY <1>8, <1>9

LEMMA StepBegin ==
    ASSUME Retained \in Nat, LogInv, NEW r \in Invocation, Begin(r) PROVE LogInv'
<1> DEFINE new == [invocations[r] EXCEPT !.pc = "open", !.started = day]
<1>1. invocations \in [Invocation -> Invoked] /\ day \in Nat \ {0} /\ invocations[r] \in Invoked
  BY DEF LogInv, InvokedInv
<1>2. invocations' = [invocations EXCEPT ![r] = new] /\ UNCHANGED <<day, files, report>>
  BY DEF Begin
<1>3. invocations[r].pc = "new"
  BY DEF Begin
<1>4. Goes(invocations[r], new)
  BY <1>1, <1>3 DEF Goes, Invoked, Ends
<1> HIDE DEF new
<1> QED BY <1>2, <1>4, OneGoes, SameFiles DEF LogInv

LEMMA StepOpenLog ==
    ASSUME Retained \in Nat, LogInv, NEW r \in Invocation, OpenLog(r) PROVE LogInv'
<1>1. /\ invocations \in [Invocation -> Invoked] /\ invocations[r] \in Invoked
      /\ invocations[r].pc = "new" <=> invocations[r].started = 0
  BY DEF LogInv, InvokedInv
<1>2. UNCHANGED <<day, report>> /\ invocations[r].pc = "open"
  BY DEF OpenLog
<1> DEFINE f == <<"command", invocations[r].started>>
<1>3. f \in Dated /\ Makes(r, f)
  BY <1>1, <1>2 DEF Dated, Kind, Invoked, Makes
<1>4. CASE /\ files' = Created(f)
           /\ invocations' = [invocations EXCEPT ![r].pc = "list", ![r].log = "open"]
  <2> DEFINE new == [invocations[r] EXCEPT !.pc = "list", !.log = "open"]
  <2>1. invocations' = [invocations EXCEPT ![r] = new]
    BY <1>4
  <2>2. Goes(invocations[r], new)
    BY <1>1, <1>2 DEF Goes, Invoked, Ends
  <2> HIDE DEF new, f
  <2>3. /\ invocations' \in [Invocation -> Invoked]
        /\ \A q \in Invocation : Goes(invocations[q], invocations'[q])
    BY <2>1, <2>2, OneGoes DEF LogInv
  <2> QED BY <1>2, <1>3, <1>4, <2>3, MoreFiles
<1>5. CASE invocations' = [invocations EXCEPT ![r].pc = "work"] /\ UNCHANGED files
  <2> DEFINE new == [invocations[r] EXCEPT !.pc = "work"]
  <2>1. invocations' = [invocations EXCEPT ![r] = new]
    BY <1>5
  <2>2. Goes(invocations[r], new)
    BY <1>1, <1>2 DEF Goes, Invoked, Ends
  <2> HIDE DEF new
  <2> QED BY <1>2, <1>5, <2>1, <2>2, OneGoes, SameFiles DEF LogInv
<1> QED BY <1>4, <1>5 DEF OpenLog

LEMMA StepListExpired ==
    ASSUME Retained \in Nat, LogInv, NEW r \in Invocation, ListExpired(r) PROVE LogInv'
<1> DEFINE old == {f \in DOMAIN files : f[2] < invocations[r].started - (Retained - 1)}
           new == [invocations[r] EXCEPT !.pc = "prune", !.expired = old]
<1>1. /\ invocations \in [Invocation -> Invoked] /\ invocations[r] \in Invoked
      /\ invocations[r].pc = "new" <=> invocations[r].started = 0
      /\ DOMAIN files \subseteq Dated
  BY DEF LogInv, InvokedInv, FilesInv
<1>2. /\ UNCHANGED <<day, files, report>> /\ invocations[r].pc = "list"
      /\ invocations' = [invocations EXCEPT ![r] = new]
  BY DEF ListExpired
<1>3. old \subseteq Dated /\ \A f \in old : f[2] < invocations[r].started - (Retained - 1)
  BY <1>1
<1> HIDE DEF old
<1>4. Goes(invocations[r], new)
  BY <1>1, <1>2, <1>3 DEF Goes, Invoked, Ends
<1> HIDE DEF new
<1> QED BY <1>2, <1>4, OneGoes, SameFiles DEF LogInv

LEMMA StepRemoveExpired ==
    ASSUME Retained \in Nat, LogInv, NEW r \in Invocation, RemoveExpired(r) PROVE LogInv'
<1>1. /\ invocations \in [Invocation -> Invoked] /\ day \in Nat
      /\ \A q \in Invocation : /\ invocations[q] \in Invoked
                               /\ invocations[q].pc = "new" <=> invocations[q].started = 0
                               /\ \A f \in invocations[q].expired : Expired(f)
  BY DEF LogInv, InvokedInv
<1>2. UNCHANGED <<day, torn, report>> /\ invocations[r].pc = "prune"
  BY DEF RemoveExpired
<1>3. CASE invocations' = [invocations EXCEPT ![r].expired = {}] /\ UNCHANGED files
  <2> DEFINE new == [invocations[r] EXCEPT !.expired = {}]
  <2>1. invocations' = [invocations EXCEPT ![r] = new]
    BY <1>3
  <2>2. Goes(invocations[r], new)
    BY <1>1, <1>2 DEF Goes, Invoked, Ends
  <2> HIDE DEF new
  <2> QED BY <1>2, <1>3, <2>1, <2>2, OneGoes, SameFiles DEF LogInv
<1>4. ASSUME NEW f \in invocations[r].expired,
             files' = [g \in DOMAIN files \ {f} |-> files[g]],
             invocations' = [p \in Invocation |->
                 [invocations[p] EXCEPT !.expired = IF p = r THEN @ \ {f} ELSE @,
                    !.log = IF f = <<"command", invocations[p].started>> /\ @ = "open"
                            THEN "unlinked" ELSE @]]
      PROVE  LogInv'
  <2>1. ASSUME NEW p \in Invocation
        PROVE  invocations'[p] \in Invoked /\ Goes(invocations[p], invocations'[p])
    <3> DEFINE fewer == IF p = r THEN invocations[p].expired \ {f} ELSE invocations[p].expired
               now == IF f = <<"command", invocations[p].started>> /\ invocations[p].log = "open"
                      THEN "unlinked" ELSE invocations[p].log
    <3>1. invocations'[p] = [invocations[p] EXCEPT !.expired = fewer, !.log = now]
      BY <1>4
    <3>2. /\ fewer \subseteq invocations[p].expired /\ now \in {"none", "open", "unlinked"}
          /\ invocations[p] \in Invoked
      BY <1>1 DEF Invoked
    <3> HIDE DEF fewer, now
    <3>3. fewer \subseteq Dated
      BY <3>2 DEF Invoked
    <3>4. invocations'[p] \in Invoked
      BY <3>1, <3>2, <3>3 DEF Invoked
    <3>5. /\ invocations'[p].pc = invocations[p].pc /\ invocations'[p].code = invocations[p].code
          /\ invocations'[p].started = invocations[p].started
          /\ invocations'[p].ended = invocations[p].ended
          /\ invocations'[p].expired \subseteq invocations[p].expired
      BY <3>1, <3>2 DEF Invoked
    <3> QED BY <1>1, <3>4, <3>5 DEF Goes
  <2>2. invocations' \in [Invocation -> Invoked]
    <3>1. invocations' = [p \in Invocation |-> invocations'[p]]
      BY <1>4
    <3> QED BY <2>1, <3>1
  <2>3. /\ DOMAIN files' = DOMAIN files \ {f} /\ Expired(f)
        /\ \A g \in DOMAIN files' : files'[g] = files[g]
    BY <1>1, <1>4
  <2>4. Onward
    BY <1>1, <1>2, <2>1, <2>2, <2>3 DEF Onward, Grown
  <2>5. Writes
    BY <2>3 DEF Writes, LogInv, FilesInv
  <2> QED BY <2>4, <2>5, OnwardLog
<1> QED BY <1>3, <1>4 DEF RemoveExpired

LEMMA StepWriteStart ==
    ASSUME Retained \in Nat, LogInv, NEW r \in Invocation, WriteStart(r) PROVE LogInv'
<1> DEFINE new == [invocations[r] EXCEPT !.pc = "work"]
<1> PICK f : f = <<"command", invocations[r].started>>
  OBVIOUS
<1>1. /\ invocations \in [Invocation -> Invoked] /\ invocations[r] \in Invoked
      /\ invocations[r].pc = "new" <=> invocations[r].started = 0
  BY DEF LogInv, InvokedInv
<1>2. /\ UNCHANGED <<day, report>> /\ invocations[r].pc = "prune" /\ WriteLog(r, "start")
      /\ invocations' = [invocations EXCEPT ![r] = new]
  BY DEF WriteStart
<1>3. Goes(invocations[r], new) /\ new.pc = "work"
  BY <1>1, <1>2 DEF Goes, Invoked, Ends
<1>4. f \in Dated /\ f[1] = "command"
  BY <1>1, <1>2 DEF Dated, Kind, Invoked
<1> HIDE DEF new
<1>5. /\ invocations' \in [Invocation -> Invoked] /\ invocations'[r].pc = "work"
      /\ \A q \in Invocation : Goes(invocations[q], invocations'[q])
  BY <1>2, <1>3, OneGoes DEF LogInv
<1>6. CASE UNCHANGED files
  BY <1>2, <1>5, <1>6, SameFiles
<1>7. CASE AppendRecord(files, f, r, "start")
  <2>1. ASSUME NEW e, e.run = r, e.msg = "start", e.code = invocations[r].code,
               e.cut \in Cuts("start") \cup {Whole}
        PROVE  Settles(f, e)'
    BY <1>4, <1>5, <2>1 DEF Settles
  <2>2. \A e : e.run = r /\ e.msg = "start" /\ e.code = invocations[r].code
                  /\ e.cut \in Cuts("start") \cup {Whole} => Settles(f, e)'
    BY <2>1
  <2> QED BY <1>2, <1>4, <1>5, <1>7, <2>2, WritesRecord
<1> QED BY <1>2, <1>6, <1>7 DEF WriteLog

LEMMA StepWriteFinish ==
    ASSUME Retained \in Nat, LogInv, NEW r \in Invocation, WriteFinish(r) PROVE LogInv'
<1> DEFINE new == [invocations[r] EXCEPT !.pc = "over", !.ended = TRUE, !.log = "none"]
<1> PICK f : f = <<"command", invocations[r].started>>
  OBVIOUS
<1>1. /\ invocations \in [Invocation -> Invoked] /\ invocations[r] \in Invoked
      /\ invocations[r].pc = "new" <=> invocations[r].started = 0
  BY DEF LogInv, InvokedInv
<1>2. /\ UNCHANGED <<day, report>> /\ invocations[r].pc = "finish" /\ WriteLog(r, "finish")
      /\ invocations' = [invocations EXCEPT ![r] = new]
  BY DEF WriteFinish
<1>3. /\ Goes(invocations[r], new)
      /\ new.pc = "over" /\ new.ended /\ new.code = invocations[r].code
  BY <1>1, <1>2 DEF Goes, Invoked, Ends
<1>4. f \in Dated /\ f[1] = "command"
  BY <1>1, <1>2 DEF Dated, Kind, Invoked
<1> HIDE DEF new
<1>5. /\ invocations' \in [Invocation -> Invoked] /\ invocations'[r] = new
      /\ \A q \in Invocation : Goes(invocations[q], invocations'[q])
  BY <1>2, <1>3, OneGoes DEF LogInv
<1>6. CASE UNCHANGED files
  BY <1>2, <1>5, <1>6, SameFiles
<1>7. CASE AppendRecord(files, f, r, "finish")
  <2>1. ASSUME NEW e, e.run = r, e.msg = "finish", e.code = invocations[r].code,
               e.cut \in Cuts("finish") \cup {Whole}
        PROVE  Settles(f, e)'
    BY <1>3, <1>4, <1>5, <2>1 DEF Settles, Ends
  <2>2. \A e : e.run = r /\ e.msg = "finish" /\ e.code = invocations[r].code
                  /\ e.cut \in Cuts("finish") \cup {Whole} => Settles(f, e)'
    BY <2>1
  <2> QED BY <1>2, <1>4, <1>5, <1>7, <2>2, WritesRecord
<1> QED BY <1>2, <1>6, <1>7 DEF WriteLog

LEMMA StepRecordAnalysis ==
    ASSUME Retained \in Nat, LogInv, NEW r \in Invocation, RecordAnalysis(r) PROVE LogInv'
<1> DEFINE new == [invocations[r] EXCEPT !.pc = "finish"]
<1> PICK f : f = <<"analysis", invocations[r].started>>
  OBVIOUS
<1>1. /\ invocations \in [Invocation -> Invoked] /\ invocations[r] \in Invoked
      /\ invocations[r].pc = "new" <=> invocations[r].started = 0
  BY DEF LogInv, InvokedInv
<1>2. /\ UNCHANGED <<day, report>> /\ invocations[r].pc = "analysis"
      /\ AppendRecord(Created(f), f, r, "analysis")
      /\ invocations' = [invocations EXCEPT ![r] = new]
  BY DEF RecordAnalysis
<1>3. Goes(invocations[r], new) /\ new.pc = "finish" /\ new.code = invocations[r].code
  BY <1>1, <1>2 DEF Goes, Invoked, Ends
<1>4. f \in Dated /\ f[1] = "analysis" /\ Makes(r, f)
  BY <1>1, <1>2 DEF Dated, Kind, Invoked, Makes
<1> HIDE DEF new
<1>5. /\ invocations' \in [Invocation -> Invoked] /\ invocations'[r] = new
      /\ \A q \in Invocation : Goes(invocations[q], invocations'[q])
  BY <1>2, <1>3, OneGoes DEF LogInv
<1>6. ASSUME NEW e, e.run = r, e.msg = "analysis", e.code = invocations[r].code,
             e.cut \in Cuts("analysis") \cup {Whole}
      PROVE  Settles(f, e)'
  BY <1>3, <1>4, <1>5, <1>6 DEF Settles, Ends
<1>7. \A e : e.run = r /\ e.msg = "analysis" /\ e.code = invocations[r].code
                /\ e.cut \in Cuts("analysis") \cup {Whole} => Settles(f, e)'
  BY <1>6
<1> QED BY <1>2, <1>4, <1>5, <1>7, WritesRecord

\* The rest of what a run does.
LEMMA StepRun ==
    ASSUME Retained \in Nat, LogInv, NEW r \in Invocation, Work(r) \/ Interrupt(r) PROVE LogInv'
<1>1. /\ invocations \in [Invocation -> Invoked] /\ invocations[r] \in Invoked
      /\ invocations[r].pc = "new" <=> invocations[r].started = 0
  BY DEF LogInv, InvokedInv
<1>2. CASE Work(r)
  <2>1. PICK code \in 0..1, then \in {"analysis", "finish"} :
            invocations' = [invocations EXCEPT ![r].pc = then, ![r].code = code]
    BY <1>2 DEF Work
  <2> DEFINE new == [invocations[r] EXCEPT !.pc = then, !.code = code]
  <2>2. /\ invocations' = [invocations EXCEPT ![r] = new] /\ UNCHANGED <<day, files, report>>
        /\ invocations[r].pc = "work"
    BY <1>2, <2>1 DEF Work
  <2>3. Goes(invocations[r], new)
    BY <1>1, <2>2 DEF Goes, Invoked, Ends
  <2> HIDE DEF new
  <2> QED BY <2>2, <2>3, OneGoes, SameFiles DEF LogInv
<1>3. CASE Interrupt(r)
  <2> DEFINE new == [invocations[r] EXCEPT !.pc = "over", !.log = "none", !.expired = {}]
  <2>1. /\ invocations' = [invocations EXCEPT ![r] = new] /\ UNCHANGED <<day, files, report>>
        /\ invocations[r].pc \notin {"new", "over"}
    BY <1>3 DEF Interrupt
  <2>2. Goes(invocations[r], new)
    BY <1>1, <2>1 DEF Goes, Invoked, Ends
  <2> HIDE DEF new
  <2> QED BY <2>1, <2>2, OneGoes, SameFiles DEF LogInv
<1> QED BY <1>2, <1>3

LEMMA StepMidnight == ASSUME Retained \in Nat, LogInv, Midnight PROVE LogInv'
<1>1. /\ day \in Nat /\ day' = day + 1 /\ UNCHANGED <<files, invocations, report>>
      /\ invocations \in [Invocation -> Invoked]
      /\ \A r \in Invocation : invocations[r].pc = "new" <=> invocations[r].started = 0
  BY DEF Midnight, LogInv, InvokedInv
<1>2. Onward
  BY <1>1 DEF Onward, Goes, Grown
<1>3. Writes
  BY <1>1 DEF Writes, LogInv, FilesInv
<1> QED BY <1>2, <1>3, OnwardLog

-----------------------------------------------------------------------------
(* The report goes on.                                                     *)

\* What the invariants say of the runs and of the files is not the report's.
LEMMA RunsAlone ==
    ASSUME InvokedInv, FilesInv, UNCHANGED <<day, files, invocations>>
    PROVE  InvokedInv' /\ FilesInv'
<1>1. InvokedInv'
  BY DEF InvokedInv, Expired
<1>2. ASSUME NEW f \in DOMAIN files, NEW i \in 1..Len(files[f]) PROVE Settles(f, files[f][i])'
  <2>1. Settles(f, files[f][i])
    BY DEF FilesInv
  <2> QED BY <2>1 DEF Settles
<1>3. FilesInv'
  BY <1>2 DEF FilesInv
<1> QED BY <1>1, <1>3

LEMMA StepBeginReport == ASSUME LogInv, BeginReport PROVE LogInv'
<1>1. UNCHANGED <<day, files, invocations>> /\ report.pc = "idle"
  BY DEF BeginReport
<1> DEFINE there == UNION {{[file |-> f, entry |-> Fields(files[f][i])] :
                              i \in {i \in 1..Len(files[f]) : files[f][i].cut = Whole}}
                              : f \in DOMAIN files}
           going == {r \in Invocation : invocations[r].pc # "over"}
<1>2. report' = [pc |-> "reading", listed |-> DOMAIN files, ok |-> TRUE, seen |-> {},
                 present |-> there, going |-> going]
  BY DEF BeginReport
<1>3. ASSUME NEW p \in there PROVE Accounted(p)'
  <2>1. PICK f \in DOMAIN files : \E i \in 1..Len(files[f]) :
            files[f][i].cut = Whole /\ p = [file |-> f, entry |-> Fields(files[f][i])]
    BY <1>3
  <2> PICK i \in 1..Len(files[f]) :
            files[f][i].cut = Whole /\ p = [file |-> f, entry |-> Fields(files[f][i])]
    BY <2>1
  <2>2. PICK e : e = files[f][i]
    OBVIOUS
  <2>3. f \in Dated /\ files[f] \in Seq(Entries) /\ Settles(f, e)
    BY <2>2 DEF LogInv, FilesInv
  <2>4. e \in Entries
    BY <2>2, <2>3
  <2>5. p.file = f /\ p.entry = Fields(e) /\ p.entry.run = e.run /\ e.run \in Invocation
    BY <2>1, <2>2, <2>4 DEF Fields, Entries
  <2>6. HasRecord(files[f], p.entry)
    BY <2>1, <2>2, <2>5 DEF HasRecord
  <2> HIDE DEF there, going
  <2>7. report'.listed = DOMAIN files
    BY <1>2
  <2>8. ToCome(p)'
    BY <1>1, <2>5, <2>6, <2>7 DEF ToCome, HasRecord
  <2> QED BY <1>1, <2>3, <2>5, <2>8 DEF Accounted, Settles
<1> HIDE DEF there
<1>4. ReportInv'
  <2>1. /\ DOMAIN report' = {"pc", "listed", "ok", "seen", "present", "going"}
        /\ report'.pc = "reading" /\ report'.ok = TRUE /\ report'.seen = {}
        /\ report'.present = there /\ report'.going = going
    BY <1>2
  <2> QED BY <1>1, <1>3, <2>1 DEF ReportInv
<1> QED BY <1>1, <1>4, RunsAlone DEF LogInv

LEMMA StepFinishReport == ASSUME LogInv, FinishReport PROVE LogInv'
<1>1. /\ UNCHANGED <<day, files, invocations>> /\ report.pc = "reading" /\ report.listed = {}
      /\ report' = [report EXCEPT !.pc = "done"] /\ ReportInv
  BY DEF FinishReport, LogInv
<1>2. /\ DOMAIN report' = DOMAIN report /\ report'.pc = "done" /\ report'.listed = report.listed
      /\ report'.ok = report.ok /\ report'.seen = report.seen
      /\ report'.present = report.present /\ report'.going = report.going
  BY <1>1 DEF ReportInv
<1>3. ASSUME NEW p \in report.present PROVE Accounted(p)'
  <2>1. Accounted(p) /\ ~ToCome(p)
    BY <1>1 DEF ReportInv, ToCome
  <2> QED BY <1>1, <1>2, <2>1 DEF Accounted, MadeAgain
<1>4. ReportInv'
  BY <1>1, <1>2, <1>3 DEF ReportInv, Came
<1> QED BY <1>1, <1>4, RunsAlone DEF LogInv

LEMMA StepReadLog == ASSUME LogInv, ReadLog PROVE LogInv'
<1>1. PICK f : f = NextListed
  OBVIOUS
<1>2. PICK scan : scan = IF f \in DOMAIN files THEN Scan(files[f], report.seen)
                         ELSE Read(FALSE, report.seen)
  OBVIOUS
<1>3. /\ UNCHANGED <<day, files, invocations>> /\ report.pc = "reading"
      /\ report' = [report EXCEPT !.listed = report.listed \ {f}, !.seen = scan.entries,
                                  !.ok = report.ok /\ scan.ok]
      /\ ReportInv /\ FilesInv
  BY <1>1, <1>2 DEF ReadLog, LogInv
<1>4. /\ DOMAIN report' = DOMAIN report /\ report'.pc = "reading"
      /\ report'.listed = report.listed \ {f} /\ report'.seen = scan.entries
      /\ report'.ok = (report.ok /\ scan.ok)
      /\ report'.present = report.present /\ report'.going = report.going
  BY <1>3 DEF ReportInv
<1>5. /\ report.seen \subseteq scan.entries
      /\ \A e \in scan.entries : Came(e)
      /\ scan.ok => f \in DOMAIN files
                    /\ \A entry : HasRecord(files[f], entry) => entry \in scan.entries
  <2>1. CASE f \notin DOMAIN files
    BY <1>2, <1>3, <2>1 DEF Read, ReportInv
  <2>2. CASE f \in DOMAIN files
    <3>1. PICK file : file = files[f]
      OBVIOUS
    <3>2. /\ file \in Seq(Entries) /\ Len(file) \in Nat
          /\ \A i \in 1..Len(file) : file[i] \in Entries /\ Settles(f, file[i])
      BY <1>3, <2>2, <3>1 DEF FilesInv
    <3>3. ScannedTo(file, report.seen, scan, Len(file))
      BY <1>2, <2>2, <3>1, <3>2, ScanFacts
    <3>4. ASSUME NEW e \in scan.entries PROVE Came(e)
      <4>1. CASE e \in report.seen
        BY <1>3, <4>1 DEF ReportInv
      <4>2. CASE \E i \in 1..Len(file) : e \in Reading(file, i).entries
        <5>1. PICK i \in 1..Len(file) : e \in Reading(file, i).entries
          BY <4>2
        <5>2. file[i] \in Entries /\ Settles(f, file[i])
          BY <3>2
        <5>3. e = Fields(file[i]) \/ e.msg = "start"
          BY <5>1, <5>2, ReadingFacts DEF Settles
        <5>4. CASE e = Fields(file[i])
          <6>1. /\ e.run = file[i].run /\ e.msg = file[i].msg /\ e.code = file[i].code
                /\ file[i].run \in Invocation
            BY <5>2, <5>4 DEF Fields, Entries
          <6> QED BY <5>2, <6>1 DEF Came, Settles
        <5>5. CASE e.msg = "start"
          BY <5>5 DEF Came
        <5> QED BY <5>3, <5>4, <5>5
      <4> QED BY <3>3, <4>1, <4>2 DEF ScannedTo
    <3>5. ASSUME scan.ok, NEW entry, HasRecord(file, entry) PROVE entry \in scan.entries
      <4>1. PICK i \in 1..Len(file) : file[i].cut = Whole /\ Fields(file[i]) = entry
        BY <3>5 DEF HasRecord
      <4>2. EndsLine(file, i)
        BY <4>1 DEF EndsLine
      <4>3. Reading(file, i).ok /\ Reading(file, i).entries \subseteq scan.entries
        BY <3>3, <3>5, <4>2 DEF ScannedTo
      <4>4. Fields(file[i]) \in Reading(file, i).entries
        BY <4>1, <4>3, ReadingFacts
      <4> QED BY <4>1, <4>3, <4>4
    <3> QED BY <2>2, <3>1, <3>3, <3>4, <3>5 DEF ScannedTo
  <2> QED BY <2>1, <2>2
<1>6. ASSUME NEW p \in report.present PROVE Accounted(p)'
  <2>1. Accounted(p)
    BY <1>3 DEF ReportInv
  <2>2. MadeAgain(p) => MadeAgain(p)'
    BY <1>3, <1>4 DEF MadeAgain
  <2>3. p.entry \in report.seen => p.entry \in report'.seen
    BY <1>4, <1>5
  <2>4. ToCome(p) /\ report'.ok => p.entry \in report'.seen \/ ToCome(p)'
    <3>1. CASE p.file = f
      BY <1>4, <1>5, <3>1 DEF ToCome
    <3>2. CASE p.file # f
      BY <1>3, <1>4, <3>2 DEF ToCome, HasRecord, Expired
    <3> QED BY <3>1, <3>2
  <2> QED BY <1>3, <1>4, <2>1, <2>2, <2>3, <2>4 DEF Accounted
<1>7. ReportInv'
  <2>1. \A e \in report'.seen : Came(e)'
    BY <1>3, <1>4, <1>5 DEF Came
  <2>2. report'.ok \in BOOLEAN
    BY <1>4
  <2> QED BY <1>3, <1>4, <1>6, <2>1, <2>2 DEF ReportInv
<1> QED BY <1>3, <1>7, RunsAlone DEF LogInv

LEMMA StepLog == ASSUME Retained \in Nat, LogInv, [LogNext]_logVars PROVE LogInv'
<1>1. CASE LogNext
  <2>1. CASE \E r \in Invocation :
                 \/ Begin(r) \/ OpenLog(r) \/ ListExpired(r) \/ RemoveExpired(r) \/ WriteStart(r)
                 \/ Work(r) \/ RecordAnalysis(r) \/ WriteFinish(r) \/ Interrupt(r)
    BY <2>1, StepBegin, StepOpenLog, StepListExpired, StepRemoveExpired, StepWriteStart,
       StepRun, StepRecordAnalysis, StepWriteFinish
  <2>2. CASE Midnight \/ BeginReport \/ ReadLog \/ FinishReport
    BY <2>2, StepMidnight, StepBeginReport, StepReadLog, StepFinishReport
  <2> QED BY <1>1, <2>1, <2>2 DEF LogNext
<1>2. CASE UNCHANGED logVars
  <2>1. UNCHANGED <<day, files, invocations, report>>
    BY <1>2 DEF logVars
  <2>2. ASSUME NEW p \in report.present PROVE Accounted(p)'
    <3>1. Accounted(p)
      BY DEF LogInv, ReportInv
    <3> QED BY <2>1, <3>1 DEF Accounted, MadeAgain, ToCome, HasRecord, Expired
  <2>3. ReportInv'
    BY <2>1, <2>2 DEF LogInv, ReportInv, Came
  <2> QED BY <2>1, <2>3, RunsAlone DEF LogInv
<1> QED BY <1>1, <1>2

\* The statistics count nothing that did not happen, and those that claim to be
\* complete miss no record that was there in full, however many processes write,
\* prune and are killed meanwhile, and wherever their writes end.
THEOREM ReportHolds ==
    ASSUME Retained \in Nat, Unknown \notin Invocation PROVE LogSpec => []ReportIsTrue
<1>1. LogInit => LogInv
  BY InitLog
<1>2. LogInv /\ [LogNext]_logVars => LogInv'
  BY StepLog
<1>3. LogInv => ReportIsTrue
  <2> SUFFICES ASSUME LogInv PROVE ReportIsTrue
    OBVIOUS
  <2>1. ReportSound
    BY DEF LogInv, ReportInv, ReportSound, Came
  <2>2. ASSUME CompleteReport, NEW p \in report.present, ~MadeAgain(p)
        PROVE  /\ p.entry \in report.seen
               /\ p.entry.msg = "finish" => p.entry.run \notin Unended
    <3>1. Accounted(p) /\ report.ok /\ report.listed = {}
      BY <2>2 DEF CompleteReport, LogInv, ReportInv
    <3>2. p.entry \in report.seen
      BY <2>2, <3>1 DEF Accounted, ToCome
    <3> QED BY <3>2 DEF Unended, Outcomes
  <2> QED BY <2>1, <2>2 DEF ReportIsTrue, CompleteReportMissesNothing
<1> QED BY <1>1, <1>2, <1>3, PTL DEF LogSpec
=============================================================================
