---------------------------- MODULE HistoryReplay ----------------------------
(***************************************************************************)
(* Replaying the validation history into Runs and statistics               *)
(* (toolkit/go/internal/validation/history: record.go, State.apply;        *)
(* store.go, replay and Append).                                           *)
(*                                                                         *)
(* A log is replayed from its first retained entry, which may be anywhere  *)
(* in the life of a Run: retention cuts prefixes off.  The log here is any *)
(* sequence of events, written well or not, and the replay walks it one    *)
(* entry at a time.  What a Run and the statistics should be afterwards is *)
(* said from the log itself, without a replay.                             *)
(***************************************************************************)
EXTENDS Naturals, Sequences, FiniteSets

CONSTANTS Run,     \* identifiers of executions
          Key,     \* a Component and a kind of check
          Checkout,\* the checkouts that share the history
          Logs     \* the logs to replay

Status == {"passed", "failed", "other"}
Event == [type : {"started"}, run : Run, key : Key, checkout : Checkout]
    \cup [type : {"finished"}, run : Run, key : Key, checkout : Checkout,
          status : Status, consistent : BOOLEAN]
    \cup [type : {"reused"}, run : Run, key : Key, checkout : Checkout]

ASSUME LogsAssumption == Logs \subseteq Seq(Event)
ASSUME RunAssumption == IsFiniteSet(Run)

VARIABLES
    log,     \* the entries, from the first retained one
    next,    \* the entry to apply
    runs,    \* State.Runs
    order,   \* State.Order
    counts,  \* State.Summary.Checks
    failed   \* the replay has met an invalid entry

vars == <<log, next, runs, order, counts, failed>>

NoRun == [state |-> "absent"]
Counts == [executions : Nat, unfinished : Nat, passed : Nat, failed : Nat,
           other : Nat, reuses : Nat]
Zero == [executions |-> 0, unfinished |-> 0, passed |-> 0, failed |-> 0,
         other |-> 0, reuses |-> 0]
RunRecord ==
    [state : {"unfinished"}, key : Key, checkout : Checkout]
    \cup [state : {"completed"}, key : Key, checkout : Checkout,
          status : Status, consistent : BOOLEAN]

-----------------------------------------------------------------------------
\* A started event for a Run already known is invalid; so are a second or
\* foreign completion and a reuse of what is not a consistent success.
SameTask(r, e) == r.key = e.key /\ r.checkout = e.checkout
Reusable(r) == r.state = "completed" /\ r.status = "passed" /\ r.consistent

Valid(known, e) ==
    \/ known[e.run] = NoRun
    \/ /\ e.type = "finished" /\ known[e.run].state = "unfinished"
       /\ SameTask(known[e.run], e)
    \/ /\ e.type = "reused" /\ Reusable(known[e.run]) /\ SameTask(known[e.run], e)

CountStart(n) == [n EXCEPT !.executions = @ + 1, !.unfinished = @ + 1]
CountKeepsUnfinished(n, st) == [n EXCEPT ![st] = @ + 1]   \* mutant: no decrement
CountFinish(n, st) == [n EXCEPT !.unfinished = @ - 1, ![st] = @ + 1]

Started(e) ==
    /\ e.type = "started"
    /\ runs' = [runs EXCEPT ![e.run] =
           [state |-> "unfinished", key |-> e.key, checkout |-> e.checkout]]
    /\ counts' = [counts EXCEPT ![e.key] = CountStart(@)]
    /\ UNCHANGED order

Finished(e) ==
    /\ e.type = "finished" /\ runs[e.run] # NoRun
    /\ runs' = [runs EXCEPT ![e.run] =
           [state |-> "completed", key |-> e.key, checkout |-> e.checkout,
            status |-> e.status, consistent |-> e.consistent]]
    /\ order' = Append(order, e.run)
    /\ counts' = [counts EXCEPT ![e.key] = CountFinish(@, e.status)]

ReuseKeepsOrder(e) == order
Reused(e) ==
    /\ e.type = "reused" /\ runs[e.run] # NoRun
    /\ counts' = [counts EXCEPT ![e.key].reuses = @ + 1]
    /\ order' = ReuseKeepsOrder(e)
    /\ UNCHANGED runs

\* Retention has taken the start away: neither evidence nor statistics.
Orphaned(e) ==
    /\ e.type # "started" /\ runs[e.run] = NoRun
    /\ UNCHANGED <<runs, order, counts>>

Apply ==
    /\ ~failed /\ next <= Len(log) /\ Valid(runs, log[next])
    /\ \/ Started(log[next]) \/ Finished(log[next])
       \/ Reused(log[next]) \/ Orphaned(log[next])
    /\ next' = next + 1
    /\ UNCHANGED <<log, failed>>

\* "history entry %d: ...": the replay stops at the first invalid entry.
Refuse ==
    /\ ~failed /\ next <= Len(log) /\ ~Valid(runs, log[next])
    /\ failed' = TRUE
    /\ UNCHANGED <<log, next, runs, order, counts>>

Init ==
    /\ log \in Logs /\ next = 1
    /\ runs = [r \in Run |-> NoRun] /\ order = <<>>
    /\ counts = [k \in Key |-> Zero] /\ failed = FALSE

Next == Apply \/ Refuse

Spec == Init /\ [][Next]_vars

-----------------------------------------------------------------------------
TypeOK ==
    /\ log \in Logs /\ next \in 1..(Len(log) + 1) /\ failed \in BOOLEAN
    /\ runs \in [Run -> RunRecord \cup {NoRun}]
    /\ order \in Seq(Run) /\ counts \in [Key -> Counts]

\* The Runs that ended are those that have a rank, and they have one only.
EndedIsRanked ==
    /\ \A r \in Run : (runs[r] # NoRun /\ runs[r].state = "completed") <=> \E i \in DOMAIN order : order[i] = r
    /\ \A i, j \in DOMAIN order : order[i] = order[j] => i = j

\* What the entries before `next' say by themselves.
StartAt(i) == i < next /\ log[i].type = "started"
RunStart(r) == {i \in DOMAIN log : StartAt(i) /\ log[i].run = r}
RunEvents(r, type) ==
    {i \in DOMAIN log : /\ i < next /\ log[i].type = type /\ log[i].run = r
                        /\ \E j \in RunStart(r) : j < i}
RunsOf(k) == {r \in Run : \E i \in RunStart(r) : log[i].key = k}
EndedWith(k, st) ==
    {r \in RunsOf(k) : \E i \in RunEvents(r, "finished") : log[i].status = st}

\* The statistics say of each Component and check what the log says: retained
\* starts, completions by outcome, those that have none, reuses; whatever comes
\* before its start counts for nothing (record.go:65-135).
StatisticsMatchLog ==
    \A k \in Key :
        /\ counts[k].executions = Cardinality(RunsOf(k))
        /\ \A st \in Status : counts[k][st] = Cardinality(EndedWith(k, st))
        /\ counts[k].unfinished =
               Cardinality({r \in RunsOf(k) : RunEvents(r, "finished") = {}})
        /\ counts[k].reuses =
               Cardinality(UNION {RunEvents(r, "reused") : r \in RunsOf(k)})

\* Every execution is in exactly one place of the statistics.
StatisticsAddUp ==
    \A k \in Key : counts[k].executions =
        counts[k].unfinished + counts[k].passed + counts[k].failed + counts[k].other

\* Order lists the completed Runs, each once, in the order of their
\* completions; a reuse does not move its Run (record.go, State.Order).
OrderIsCompletionOrder ==
    /\ {order[i] : i \in DOMAIN order} = {r \in Run : RunEvents(r, "finished") # {}}
    /\ \A i, j \in DOMAIN order : i < j =>
          \A m \in RunEvents(order[i], "finished"), n \in RunEvents(order[j], "finished") :
              m < n

\* What is projected from a log is what the log says by itself, Run by Run and
\* number by number (record.go, State.apply).
ProjectionMatchesLog == StatisticsMatchLog /\ OrderIsCompletionOrder
=============================================================================
