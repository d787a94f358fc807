--------------------------- MODULE ValidationRound ---------------------------
(***************************************************************************)
(* What the evidence of a validation round is worth                        *)
(* (toolkit/go/internal/validation: validation.go, reuse.go, inputs.go,    *)
(* depot.go, process.go).                                                  *)
(*                                                                         *)
(* Sessions plan and execute rounds of checks on one checkout while its    *)
(* files and dependency Bins are being edited.  The history is taken as    *)
(* RunLedger.tla promises it: completions in one order, appended at the    *)
(* end of a round.  Edits, the captures that look for them, the reuse of   *)
(* earlier completions and the bounded workers are what this module is     *)
(* about; locks, crashes and retention are in HistoryStore.tla.            *)
(*                                                                         *)
(* Passes is the truth the reports are measured against: what a check      *)
(* would say of a content if nobody touched the files while it runs.       *)
(***************************************************************************)
EXTENDS Naturals, Sequences, FiniteSets

CONSTANTS Session,        \* the processes, one round each
          Task,           \* the checks of every plan, in plan order
          File,           \* files of the checkout, and its dependency Bins
          Bin,            \* the Bins among them
          VersionFile,    \* files CodeGraph tags VersionTag
          InputsOf,       \* the files and Bins each check declares as inputs
          Content,        \* contents of a file
          ContentOf,      \* the contents each file may have
          Unmanaged,      \* Bin contents without a valid receipt
          Passes(_, _),   \* Passes(t, c): check t passes on contents c
          Flaky,          \* checks that may fail on any content
          Unavailable,    \* the checks a session finds no Makefile target for
          Forced,         \* sessions run with --force
          Concurrency,    \* workers of a round
          Cancellable,    \* bound: sessions whose context may be cancelled
          Unlucky,        \* bound: sessions whose history may fail
          MaxEdits,       \* bound on the number of edits
          MaxUndone       \* bound on further edits that undo one during a round

ASSUME FilesAssumption ==
    /\ Bin \subseteq File /\ VersionFile \subseteq File \ Bin
    /\ InputsOf \in [Task -> SUBSET File] /\ Unmanaged \subseteq Content
    /\ ContentOf \in [File -> SUBSET Content]
ASSUME OrderAssumption ==
    Task \subseteq Nat /\ IsFiniteSet(Task) /\ Content \subseteq Nat
ASSUME RoundAssumption ==
    /\ Concurrency \in Nat \ {0} /\ MaxEdits \in Nat /\ MaxUndone \in Nat
    /\ Flaky \subseteq Task /\ Unavailable \in [Session -> SUBSET Task]
    /\ Forced \subseteq Session /\ Cancellable \subseteq Session /\ Unlucky \subseteq Session
\* A check depends on its declared inputs, and on no version in them: this is
\* what the repository's maintainers declare, and what reuse rests on.
ASSUME InputsAssumption ==
    \A t \in Task : \A c, d \in [File -> Content] :
        (\A f \in InputsOf[t] \ VersionFile : c[f] = d[f]) => (Passes(t, c) <=> Passes(t, d))

VARIABLES
    tree,       \* what is on disk: contents of every file and Bin
    edits,      \* number of edits made
    log,        \* completions in the order of their finished events
    pc,         \* where each round is
    plan,       \* the contents a round was planned on (manifest and witnesses)
    view,       \* how many completions a round's history snapshot has
    healthy,    \* ~s.failed
    cancelled,  \* the round's context is over
    status,     \* CheckResult.Status of each check, or where it is
    saw,        \* the trees a check's process has lived through
    entry,      \* the completion a reused result was taken from, 0: executed
    report,     \* ValidationReport: Complete, Passed, InputsConsistent
    undone      \* the files put back to what a round was planned on while it ran

vars == <<tree, edits, log, pc, plan, view, healthy, cancelled, status, saw,
          entry, report, undone>>

Tree == {c \in [File -> Content] : \A f \in File : c[f] \in ContentOf[f]}
Result == {"passed", "failed", "uncertain", "cancelled", "unavailable"}
NoReport == [complete |-> FALSE, passed |-> FALSE, consistent |-> FALSE]

-----------------------------------------------------------------------------
\* What a capture shows of a tree: the digest of each file, the receipt of each
\* Bin; Bins without a valid receipt all look the same (depotWitness).
Observed(c) == [f \in File |-> IF f \in Bin /\ c[f] \in Unmanaged THEN {} ELSE {c[f]}]

\* sameInputs and the witnesses: equal on the declared inputs, VersionTag
\* documents aside.
SameInputsEveryFile(t, c, d) ==                   \* mutant: VersionTag counts
    \A f \in InputsOf[t] : Observed(c)[f] = Observed(d)[f]
SameInputs(t, c, d) ==
    \A f \in InputsOf[t] \ VersionFile : Observed(c)[f] = Observed(d)[f]

\* depotReusable: every dependency Bin of the check has a receipt.
ReusableWithoutReceipt(t, c) == TRUE              \* mutant: unmanaged Bins reused
BinsManaged(t, c) == \A f \in InputsOf[t] \cap Bin : c[f] \notin Unmanaged

-----------------------------------------------------------------------------
\* The world outside: somebody edits a file or reinstalls a Bin, and may put back
\* what was there, within a round too.
Undoes(s, f, v) == pc[s] = "run" /\ v = plan[s][f]
Edit(f, v) ==
    /\ v # tree[f]
    /\ edits < MaxEdits + (IF \E s \in Session : Undoes(s, f, v) THEN MaxUndone ELSE 0)
    /\ tree' = [tree EXCEPT ![f] = v]
    /\ undone' = [s \in Session |->
                     IF Undoes(s, f, v) THEN undone[s] \cup {f} ELSE undone[s]]
    /\ edits' = edits + 1
    /\ saw' = [s \in Session |-> [t \in Task |->
                  IF status[s][t] = "running" THEN saw[s][t] \cup {tree'} ELSE saw[s][t]]]
    /\ UNCHANGED <<log, pc, plan, view, healthy, cancelled, status, entry, report>>

Cancel(s) ==
    /\ s \in Cancellable /\ pc[s] = "run" /\ ~cancelled[s]
    /\ cancelled' = [cancelled EXCEPT ![s] = TRUE]
    /\ UNCHANGED <<tree, edits, log, pc, plan, view, healthy, status, saw, entry,
                   report, undone>>

\* PlanValidation: one capture, frozen in the plan.
PlanRound(s) ==
    /\ pc[s] = "plan"
    /\ plan' = [plan EXCEPT ![s] = tree]
    /\ pc' = [pc EXCEPT ![s] = "begin"]
    /\ UNCHANGED <<tree, edits, log, view, healthy, cancelled, status, saw, entry,
                   report, undone>>

\* ExecuteValidation, up to the workers: the second capture must match, then
\* the history is opened; a round whose history fails goes on without it.
CaptureMatches(s) == Observed(tree) = Observed(plan[s])

Snapshot == Len(log)

BeginRound(s) ==
    /\ pc[s] = "begin" /\ CaptureMatches(s)
    /\ pc' = [pc EXCEPT ![s] = "run"]
    /\ view' = [view EXCEPT ![s] = Snapshot]
    /\ \E ok \in {TRUE} \cup (IF s \in Unlucky THEN {FALSE} ELSE {}) :
          healthy' = [healthy EXCEPT ![s] = ok]
    /\ UNCHANGED <<tree, edits, log, plan, cancelled, status, saw, entry, report,
                   undone>>

\* "inputs changed after planning; no checks executed"
RefuseRound(s) ==
    /\ pc[s] = "begin" /\ ~CaptureMatches(s)
    /\ pc' = [pc EXCEPT ![s] = "done"]
    /\ UNCHANGED <<tree, edits, log, plan, view, healthy, cancelled, status, saw,
                   entry, report, undone>>

-----------------------------------------------------------------------------
\* The workers take the checks in plan order, Concurrency at a time.
Busy(s) == {t \in Task : status[s][t] = "running"}
WorkerTakes(s, t) ==
    /\ pc[s] = "run" /\ status[s][t] = "queued"
    /\ \A u \in Task : status[s][u] = "queued" => t <= u
    /\ Cardinality(Busy(s)) < Concurrency

\* candidate: the latest completion in the view that matches the planned check.
Matching(s, t) ==
    {i \in 1..view[s] : log[i].task = t /\ SameInputs(t, log[i].inputs, plan[s])}
IsLatest(s, t, i) == i \in Matching(s, t) /\ \A j \in Matching(s, t) : j <= i

\* reuse grants it: a consistent success, and nothing forbids reuse.
Grants(s, t, i) ==
    /\ s \notin Forced /\ healthy[s] /\ BinsManaged(t, plan[s])
    /\ IsLatest(s, t, i) /\ log[i].status = "passed" /\ log[i].consistent

Reuse(s, t, i) ==
    /\ WorkerTakes(s, t) /\ t \notin Unavailable[s] /\ Grants(s, t, i)
    /\ status' = [status EXCEPT ![s][t] = "passed"]
    /\ entry' = [entry EXCEPT ![s][t] = i]
    /\ UNCHANGED <<tree, edits, log, pc, plan, view, healthy, cancelled, saw,
                   report, undone>>

\* The inputs or the output of a record of this task cannot be read: the check
\* is executed and the round goes on without history.
LookupFails(s, t) ==
    /\ WorkerTakes(s, t) /\ t \notin Unavailable[s] /\ s \in Unlucky /\ healthy[s]
    /\ s \notin Forced /\ BinsManaged(t, plan[s])
    /\ \E i \in 1..view[s] : log[i].task = t
    /\ healthy' = [healthy EXCEPT ![s] = FALSE]
    /\ UNCHANGED <<tree, edits, log, pc, plan, view, cancelled, status, saw, entry,
                   report, undone>>

\* executeMakeStarted: the process is started, unless the context is over.
Launch(s, t) ==
    /\ WorkerTakes(s, t) /\ t \notin Unavailable[s] /\ ~\E i \in 1..view[s] : Grants(s, t, i)
    /\ IF cancelled[s]
         THEN /\ status' = [status EXCEPT ![s][t] = "cancelled"]
              /\ UNCHANGED saw
         ELSE /\ status' = [status EXCEPT ![s][t] = "running"]
              /\ saw' = [saw EXCEPT ![s][t] = {tree}]
    /\ UNCHANGED <<tree, edits, log, pc, plan, view, healthy, cancelled, entry,
                   report, undone>>

\* A check without a target keeps its scope as its status.
ReportUnavailable(s, t) ==
    /\ WorkerTakes(s, t) /\ t \in Unavailable[s]
    /\ status' = [status EXCEPT ![s][t] = "unavailable"]
    /\ UNCHANGED <<tree, edits, log, pc, plan, view, healthy, cancelled, saw, entry,
                   report, undone>>

\* What the process may say: it read each file at some moment of its life;
\* killed or cut off it says nothing.
Seen(s, t) == {c \in Tree : \A f \in File : \E d \in saw[s][t] : c[f] = d[f]}
Verdicts(s, t) ==
    {IF Passes(t, c) THEN "passed" ELSE "failed" : c \in Seen(s, t)}
        \cup (IF t \in Flaky THEN {"failed"} ELSE {})
Outcomes(s, t) == IF cancelled[s] THEN {"uncertain"} ELSE Verdicts(s, t)

Exit(s, t) ==
    /\ pc[s] = "run" /\ status[s][t] = "running"
    /\ \E st \in Outcomes(s, t) : status' = [status EXCEPT ![s][t] = st]
    /\ UNCHANGED <<tree, edits, log, pc, plan, view, healthy, cancelled, saw, entry,
                   report, undone>>

-----------------------------------------------------------------------------
\* The workers are done: the verdict of the round and its last capture, which a
\* cancelled context makes fail.
AllPassed(s) == \A t \in Task : status[s][t] = "passed"
AllTerminal(s) == \A t \in Task : status[s][t] \in {"passed", "failed", "unavailable"}
NotChecked(s) == TRUE                             \* mutant: no last capture
StillConsistent(s) == CaptureMatches(s) /\ ~cancelled[s]

Conclude(s) ==
    /\ pc[s] = "run" /\ \A t \in Task : status[s][t] \in Result
    /\ report' = [report EXCEPT ![s] =
           [complete |-> AllTerminal(s), passed |-> AllPassed(s) /\ StillConsistent(s),
            consistent |-> StillConsistent(s)]]
    /\ pc' = [pc EXCEPT ![s] = "record"]
    /\ UNCHANGED <<tree, edits, log, plan, view, healthy, cancelled, status, saw,
                   entry, undone>>

\* finish: the executed checks are appended as one batch, or, when the history
\* has failed or fails now, not at all; the report stays as it is.
Executed(s) == {t \in Task : saw[s][t] # {}}
CompletionOf(s, t) == [task |-> t, inputs |-> plan[s], status |-> status[s][t],
                       consistent |-> report[s].consistent, by |-> s]
Batch(s) ==
    {b \in [1..Cardinality(Executed(s)) -> Executed(s)] :
        \A i, j \in DOMAIN b : i < j => b[i] < b[j]}

Record(s) ==
    /\ pc[s] = "record"
    /\ pc' = [pc EXCEPT ![s] = "done"]
    /\ \/ /\ healthy[s]
          /\ \E b \in Batch(s) : log' = log \o [i \in DOMAIN b |-> CompletionOf(s, b[i])]
       \/ /\ ~healthy[s] \/ s \in Unlucky
          /\ UNCHANGED log
    /\ UNCHANGED <<tree, edits, plan, view, healthy, cancelled, status, saw, entry,
                   report, undone>>

-----------------------------------------------------------------------------
Init ==
    /\ tree \in Tree /\ edits = 0 /\ log = <<>>
    /\ pc = [s \in Session |-> "plan"]
    /\ plan = [s \in Session |-> tree]
    /\ view = [s \in Session |-> 0]
    /\ healthy = [s \in Session |-> TRUE]
    /\ cancelled = [s \in Session |-> FALSE]
    /\ status = [s \in Session |-> [t \in Task |-> "queued"]]
    /\ saw = [s \in Session |-> [t \in Task |-> {}]]
    /\ entry = [s \in Session |-> [t \in Task |-> 0]]
    /\ report = [s \in Session |-> NoReport]
    /\ undone = [s \in Session |-> {}]

Step(s) ==
    \/ PlanRound(s) \/ BeginRound(s) \/ RefuseRound(s) \/ Conclude(s) \/ Record(s)
    \/ \E t \in Task :
         \/ LookupFails(s, t) \/ Launch(s, t) \/ ReportUnavailable(s, t) \/ Exit(s, t)
         \/ \E i \in 1..view[s] : Reuse(s, t, i)

Next ==
    \/ \E f \in File : \E v \in ContentOf[f] : Edit(f, v)
    \/ \E s \in Session : Step(s) \/ Cancel(s)

Spec == Init /\ [][Next]_vars

-----------------------------------------------------------------------------
\* Whose process the evidence for a result is, and whether none of the files the
\* check declares was put back while that round ran.
Witness(s, t) == IF entry[s][t] = 0 THEN s ELSE log[entry[s][t]].by
NothingUndone(s, t) == undone[Witness(s, t)] \cap InputsOf[t] = {}

\* A passing report is true of the content it was planned on: each of its
\* checks, executed or reused, passes on exactly that content.  A check whose own
\* process worked on a Bin without a receipt is exempt, since such a Bin may change
\* unseen, and so is one of whose files an edit was undone before the last capture
\* of its round (validation.go:492-512, reuse.go, depot.go).
PassedUnlessUndone ==
    \A s \in Session : report[s].passed =>
        \A t \in Task :
            BinsManaged(t, plan[s]) /\ NothingUndone(s, t) => Passes(t, plan[s])

\* The same without that exemption: docs/validation.md:204 says of a round that
\* content that changes while it executes invalidates all of it.
PassedIsTrue ==
    \A s \in Session : report[s].passed =>
        \A t \in Task : BinsManaged(t, plan[s]) => Passes(t, plan[s])

\* A reused success holds on the content of the round that reuses it, whatever
\* has been edited, cancelled or half recorded since, unless an edit was undone in
\* the round that executed it (reuse.go:113-154).
ReuseIsTrue ==
    \A s \in Session, t \in Task :
        entry[s][t] # 0 /\ NothingUndone(s, t) => Passes(t, plan[s])

\* Edits to VersionTag documents alone never cost a check its reuse: a healthy,
\* unforced round executes a check only if its latest match does not grant it
\* (inputs.go:115-134).
VersionEditsKeepReuse ==
    \A s \in Session, t \in Task : \A i \in 1..view[s] :
        (/\ t \in Executed(s) /\ s \notin Forced /\ healthy[s]
         /\ BinsManaged(t, plan[s]) /\ t \notin Unavailable[s]
         /\ log[i].task = t /\ log[i].status = "passed" /\ log[i].consistent
         /\ \A f \in InputsOf[t] \ VersionFile : log[i].inputs[f] = plan[s][f])
            => \E j \in (i + 1)..view[s] :
                   /\ j \in Matching(s, t)
                   /\ log[j].status # "passed" \/ ~log[j].consistent
=============================================================================
