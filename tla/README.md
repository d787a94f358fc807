# A verification project for RepoKit and repocli

TLA+ modules of the parts of this repository whose correctness depends on more
than one actor, on crashes, on limits, or on the order of things; TLC runs that
check them on small instances; and proofs, checked by TLAPS, of what holds for every value
of the constants.  Paths below are relative to the repository.

```
tlc -workers 2 -config HistoryStore_sessions.cfg MCHistoryStore    # a run
tlapm HistoryStoreProofs.tla                                      # the proofs
```

`PROJECT.json` has the list of components, runs, mutants, findings, hazards and
theorems, and for every definition the lines of the source that it models.

## 1. The system

RepoKit is a toolkit in Go, Python and TypeScript that answers questions about a
checkout (layout, snapshot, code graph, impact of a change, units of a change),
runs a repository's own checks, and looks after its worktrees, dependency
environments and pull requests.  `repocli` is the command line on the Go part.
Most of the volume is pure analysis of text.  What is hard is where several
processes share state without a server between them:

| Component | State | Operations | Shared with | Hard because |
|---|---|---|---|---|
| Validation history `toolkit/go/internal/validation/history` | a write-ahead log of events, input and output files, a file lock | append, replay, maintain (retention), save inputs, read | all repocli processes of a repository | the lock is taken anew for each access; retention cuts the log between a start and its end; processes die |
| Validation rounds `validation.go`, `reuse.go`, `process.go`, `inputs.go`, `depot.go` | a frozen plan, workers, a history session, a report | plan, capture, reuse or run, capture, report, record | the history; editors and installers | the tree moves while checks run; reuse rests on captures made earlier |
| Validation planning `validation.go`, `entrypoint.go`, `makefile.go` | the plan under construction | plan a Component, merge a request | - | merges must not depend on discovery order nor lose a request |
| Worktree retention `toolkit/go/worktree/clean.go`, `git.go` | what was listed and asked, counts, a report | observe, remove merged, remove beyond the limit, release environments, dry run | users, git, the forge | facts age between listing and removal; what is removed is gone |
| Environment release and preparation `environment.go`, `dependencies.py`, `worktrees.py` | a directory, its receipt, a deletion journal, a repository lease | inspect, prepare, install, verify; list, mark, delete, retire | Go and Python processes, the user | crashes in every gap; directories are replaced |
| Pull request observations `forge/observation` (Python, TypeScript) | one record per pull request, one lease directory each | get, refresh, fail, publish, retry, maintain | processes in two languages, the forge | leases go stale under slow holders; publication must not go back |
| Pull request scanner `forge/scan.ts`, `observation/engine.ts` | a cursor: windows, gaps, failed reads | list, split, read, retry, save | the store of observations, the forge | every limit and failure must leave what was missed in the cursor |
| Branch associations `observation/context.py` | association records | create, verify, update, merge | observations | a branch is reused after its pull request merged |
| Forge HTTP state `_http_state.py`, `http.ts` | cooldowns, cached responses, a dispatch lock | acquire, check, defer, succeed | processes with one credential | a limit must hold back everybody |
| Pull request creation `creation.py`, `create.ts` | - | query, create, query | the forge | lost answers, no idempotency key |
| Validation in Python `validation/engine.py` | a sealed plan | plan, execute | editors | as the Go rounds, without history |
| Snapshots and comparisons `git/repository.go`, `analysis/capture.go`, `analysis/comparison.go`, `snapshot.py`, `snapshot.ts` | readings of the tree or the index, a patch | list, read in parallel, read again, compare digests | editors, git | files are read one by one from a moving tree, under one budget |
| Git operations `git/*.py`, `git/*.ts` | the index, the stash | stage, commit, stash, worktrees | users, git | outcomes after a timeout are not known; copies must survive |
| Code graph `codegraph` | a work set of files, a graph | add roots, parse, query | impact, viewer | limits of depth and number; parsing runs ahead; roots are added later |
| Impact `impact` | two graphs, gaps, routes | analyze | code graph, units | versions must not mix; what is missed must be reported |
| Change units `units` | fragments, groups, a priority queue | split, group | impact | every edit once; limits against dependencies; outdated candidates |
| Viewer `apps/cli/internal/viewer` | the published snapshot, pages | graph, source, refresh, select | HTTP requests, editors | a refresh during reads; late answers |
| Command log and statistics `cli/log.go`, `stats` | daily files | append, prune, read | other repocli processes | torn writes, files removed under a reader |
| Upgrade `apps/cli/internal/upgrade` | the installed binary, a staged one | check, download, verify, stage, rename | other upgrades, power | one commit point |
| Layout, diff | values | discover, parse | - | text |

**What would make each correct.**  History: what is retained replays, evidence
referred to exists, no event is written over, no expired Run returns.  Rounds:
what is reported or reused as passed is so on the content that was planned.
Planning: the merge is the union, in any order.  Retention: nothing of the
user's is lost and the newest stay.  Environments: ready means installed for
these manifests; remains stay attributable; somebody else's directory is not
deleted.  Observations: they only advance, and merged stays merged.  Scanner:
what is not stored is still to come.  Snapshots: what is called complete was the
tree at one moment.  Work set and query: nothing is left out in silence, and the
best evidence is found.  Impact: no affected test is passed over and no route is
made up.  Units: every edit is in one place, and a dependency is cut only where a
limit cuts it.  Log: no outcome is counted that did not happen, none missed by a
report that calls itself complete.  Viewer: the source on a page belongs to its
graph.  Upgrade: what is installed can always run.

## 2. Modules

| Module | Models | Extended or instanced by |
|---|---|---|
| `RunLedger` | abstract: the life of a Run in the history | `HistoryStore` (`Ledger == INSTANCE RunLedger WITH ...`) |
| `HistoryStore` | sessions, log, lock, retention, files | `MCHistoryStore`, `HistoryStoreProofs` |
| `HistoryReplay` | the projection of a log (`State.apply`) | `MCHostCommands`, `HostCommandProofs` |
| `ValidationRound` | rounds over a changing tree | `MCValidationRound`, `ValidationRoundProofs` |
| `EnvironmentRelease` | preparation and release of one environment | `MCEnvironmentRelease`, `EnvironmentReleaseProofs` |
| `WorktreeRetention` | `CleanWorktrees` over several checkouts | `MCWorktreeRetention` (and `MCHostCommands`), `WorktreeRetentionProofs` |
| `PullRequestObservation` | lease and publication of one observation | `MCPullRequestObservation`, `MCPullRequests`, `PullRequestObservationProofs` |
| `PullRequestScan` | the scanner's cursor against a forge | `MCPullRequestScan`, `MCPullRequests`, `PullRequestScanProofs` |
| `WorkspaceCapture` | readings of a checkout, snapshots, comparisons | `MCHostCommands`, `HostCommandProofs` |
| `CommandLog` | command logs, their pruning, the statistics | `MCHostCommands`, `HostCommandProofs` |
| `Viewer` | the graph server and its pages | `MCHostCommands`, `HostCommandProofs` |
| `Upgrade` | the installation of a release | `MCHostCommands`, `HostCommandProofs` |
| `SourceWorkset` | which files a graph is built from | `MCComputations`, `ComputationProofs` |
| `PathQuery` | the query of a graph | `MCComputations` |
| `ImpactAnalysis` | affected tests of a change | `MCComputations`, `ComputationProofs` |
| `EditSplit` | fragments of a patch | `MCComputations` |
| `UnitGrouping` | units of fragments | `MCComputations` |
| `CheckPlanning` | selection and merging of checks | `MCComputations`, `ComputationProofs` |

`MCHostCommands`, `MCPullRequests` and `MCComputations` set several components
side by side.
These share no state: a behaviour is one of them, named by `part`, and the
others rest, in an initial state or in a dummy value.  What is checked is each
part's own specification.  `MCHostCommands` extends its components, and
`MCComputations` the three that something is proved of, whose specifications
therefore have names of their own (`ViewerInit`, `CaptureNext`, `PlanSpec`);
`MCPullRequests` extends the observation and instances the scan, and states their
fairness for the part a behaviour is of; `MCComputations` instances the others, declares a variable that two of them name
once, and states a property of such a part under its `part`.

An `MC` module names model values and small sets; a `.cfg` is a question.  A
definition marked `mutant` is a plausible bug in the definition that follows
it: no run uses it, and put in that definition's place it breaks a property
(`PROJECT.json`, "mutants").

### HistoryStore and RunLedger

`wal` is the log of events (`Event`), `first` the first retained one, `torn` a
partial record after a crash.  `lock` and `handle` are the file lock and the
log handle opened under it; `batch` the events still to be written.  A session
goes `open` (`Maintain`, `CollectInputs`, `CollectOutputs`, `MaintainDone`:
`Store.Maintain`), saves its inputs (`SaveInputs`), runs its checks
(`Reuse`/`EvidenceMissing`, `Launch`, `Exit`), captures, and records what it has
(`Collect`, `NothingToRecord`, `OpenLog`, `WriteNext`, `CloseLog`, `ReadBack`:
`finish` and `Store.Append`).  `Fail` is an access that fails anywhere,
`Crash` the end of a process.  `Applies` is `State.apply` as a predicate on the
log: nobody keeps a table, every access replays.  What a check depends on is
abstracted to its task: `ValidationRound` has contents.

`RunLedger` says what a reader may rely on: new, started, finished, expired for
good, with completions ordered by the log.

### HistoryReplay

The same projection as a function that is folded over a log: the table of Runs,
the statistics, the order of completions.  `ProjectionMatchesLog` compares it with
what the log says without a state.  The logs begin anywhere, with orphans; that
what retention leaves replays is `Replayable` of `HistoryStore`.

### ValidationRound

`tree` is what is on disk: files, and dependency directories (`Bin`) whose
receipt a capture sees.  A round plans (`PlanRound`), captures again
(`BeginRound`/`RefuseRound`), takes the history as of then (`view`), lets a
bounded number of workers reuse or run checks, captures once more (`Conclude`)
and records (`Record`).  `Passes` is the truth about a check on a content, never
consulted by a round except through a process that runs; `saw` collects the
trees such a process has lived through, so that its verdict may come from any of
them.  An edit may put back what a round was planned on (`Undoes`); `undone`
remembers for which files that happened while the round ran.

### CheckPlanning

`check`, `contract` and `request` are any Makefile contracts and any request;
`PlanComponent` is one turn of the loop in `PlanValidation` with
`appendValidationCheck`.  `Reference` says without an order what should come
out.  All Components a request selects are in `pending`, in any order: the code
takes layout order, and nothing depends on it.

### EnvironmentRelease

One directory with an identity (device and inode), contents and a receipt; the
journal of deletions; the lease.  Preparation is `Inspect`, `Acquire`,
`RefusePending`/`NothingPending`, `NoInstall`/`Install`, `Installed`/
`InstallFails`, `WriteReceipt`/`NoReceipt`.  Maintenance is `Begin`, `Acquire`,
`List`, `ListAgain`, `NoRelease`, `Mark`, `DeleteEntry`, `DeleteRest`, `Retire`.
A deletion goes entry by entry, and the receipt is one of the entries, so a crash
leaves `Remains` with a receipt or without one.  The installer may have read any
of the manifests there have been since it started (`during`).  The user edits
manifests, puts them back, and makes or removes the directory; `Recount` moves the
environment within the limits or beyond them.  `Reinstalls` says whether the
installer starts from an empty directory (npm ci) or works in place (uv sync).

### WorktreeRetention

`wt` is what is at each path, `entry` what the cleaning knows of it.  The stages
are those of `CleanWorktrees`: observe, merged, count, release; `todo` is the
list a stage has yet to come to, by name or by age (`InOrder`).  A removal is
four steps, between any two of which users act: three checks (`CheckRemoval`;
`checked` says when each was passed: the protection, then what is unsaved or
ignored, then the protection again) and `git worktree remove` (`RemoveCheckout`),
which itself refuses what git would track and what is locked.  Any
question to git or the forge, and the removal, may fail (`Unanswered`, which counts
against `MaxActs` like an act of a user).

### PullRequestObservation

`lock` is the lease directory with its age and the processes that remember its
identity; a query waits, takes or reaps it, reads, reuses or refreshes,
publishes and gives it back.  A behaviour has a set of `gaps`: "overtaken" parts
the pairs of calls on the directory (mkdir and stat, stat and rmdir),
"suspended" the comparison and the rename.  The remote is a version that grows; the last one is merged.

### PullRequestScan

`saved` is the cursor on disk, `work` that of the batch under way, `batch` what
the batch has used of its limits.  One action per exit of the loops in
`scanPullRequests`; `Listings` is the forge, which may list the updates of the
last `Lag` seconds late, `Lose` a batch that dies before its cursor is saved.

### WorkspaceCapture

`tree` and `index` begin as anything and move under the reader (`Edit`, `Restage`); `past` collects what
they have been.  A reading is `ListTracked`, `ListOthers` (two calls of git
ls-files), then `Look` and `ReadFile` of each file by up to `Workers`
goroutines that claim bytes of one budget, then `Merge` in the order of paths
(`Repository.Working`, `readWorkingFiles`); of the index it is `ReadIndex`.
`Capture` reads twice, `captureComparison` before the patch, behind it and when
the analysis is done; the patch compares file by file (`BeginPatch`, `DiffFile`).
`Complete` is what the digests of the readings let the report call itself.

### CommandLog

A process opens the file of its day, removes expired ones, writes a start, works,
and writes an analysis and an end, each in one write; the first `MaxTorn` writes
may end early.  Where a record was cut decides what its line reads as (`Cuts`).
The statistics list the directory and read file after file while all this goes
on.  `ReportIsTrue` compares what they say with what the processes did: with each
outcome, and with each record that was there in full when the report began.  It
makes one exception (`MadeAgain`): a file may expire and be removed behind the
listing, and then be created anew by a process that began on that day and only
now opens its log; the report reads the new one and knows nothing of the old.
That takes a third process, so the run has three.

### Viewer

The server publishes `current`; requests and answers lie on `wire` in no order.
`CaptureTree` and `Publish` part a refresh where an edit or another request can
come between.  A page has an `epoch` that counts replaced details, by which an
answer that comes late is known (`Late`).

### Upgrade

A file is a version and how much of it there is, whether that is synchronised,
and its mode; `executable` is what the name stands for, `durable` what it will
stand for after `PowerLoss`, which drops bytes that were not synchronised.  A
failing step or a kill is `GiveUp`.

### SourceWorkset, PathQuery, ImpactAnalysis

`SourceWorkset` is one loop of `Builder.Add` per file of the frontier: it is met
again (`Revisit`), left for a limit (`Omit`), skipped, or waited for and parsed
(`Parse`), while `submitted` runs ahead (`Batch`).  `PathQuery` is the search of
`Query`, one edge after the other in three rounds of evidence; the reference
enumerates all chains.  `ImpactAnalysis` is `Analyze` stage by stage for two
versions, over a graph whose nodes are files, modules and symbols; it takes the
work set to be what `SourceWorkset` shows of it and the query to be what
`PathQuery` shows.  The reference is reachability over everything there is.

### EditSplit and UnitGrouping

`EditSplit` walks a hunk as `splitChange` does, cutting it where the innermost
declaration changes, and spreads context.  `UnitGrouping` is `Group`: owners,
relations by rank, imports, files, and the queue of namespace merges, one action
per merge.  Sizes are small numbers, names are numbers in their order.

## 3. Runs

Passing runs (bounds in the `.cfg`; each shows the named properties on that
instance):

| Run | Properties | Instance and why it is enough |
|---|---|---|
| `HistoryStore_sessions` | `Replayable`, `NoBatchRejected`, `EvidencePresent`, `OnlyAppended` | three sessions that arrive one after the other and overlap, a window of one tick, the first may fail or crash anywhere: a reuse of what it left, and each collection meets what the others saved, logged or forgot |
| `HistoryStore_ledger` | `HealthyRoundRecorded`, `ImplementsLedger`, `RoundEnds` | a session of two concurrent checks that may fail or die at any step, holding the lock too, and a second one, which begins two ticks later, when retention takes the first one's Runs, and waits for that lock while the first lives: the mutex, the lock, its release and a handle opened anew all matter |
| `ValidationRound_rounds` | `PassedUnlessUndone`, `ReuseIsTrue`, `VersionEditsKeepReuse` | two rounds of two checks on a source, a version document and a Bin with or without a receipt, in any content at first (of a version's two, which differ in name only, in the first), an edit at any moment and one that undoes it; a flaky check, a missing one, one round cancelled, one that loses its history |
| `EnvironmentRelease_release` | `ReadyIsInstalled`, `ReleaseBeforePreparation`, `JournalIsTrue`, `ReleaseFinishes` | two preparations and a maintenance, two edits, so one may be undone, two acts of the user, two crashes: a crash of the release, with the receipt gone or not, and one of what comes after it |
| `PullRequests_eventually` | `ObservationAdvances`, `LeaseRespected`, `LeaseRecovered` | a holder and one that reaps, both arbitrarily slow, one crash; the first two are about the behaviours without gaps |
| | `UpdatesFound` | a pull request that is updated and listed up to a second late, so that the overlap is needed; a listing or a read that fails, a batch that is lost |
| `PullRequestScan_coverage` | `CoverageIsTrue` | every limit is 1, so each batch meets each of them; two pull requests fill a page |
| `HostCommands_local` | `ProjectionMatchesLog` | all logs of four events on two Runs, and of five on one task |
| | `ReportIsTrue` | three invocations on two days of which one is kept, one report at any time: one at work, one that begins and one torn write anywhere, or one that has begun and one that begins behind one that is over, and a file pruned and made again |
| | `CaptureIsTrue`, `ReadsAsSerial` | two files of one, two and too many bytes under a limit of three, two readers, two edits or changes of the index, each kind of capture; one file is in base and index, the other in any of base, index and tree |
| | `SourceOfThePage`, `RefreshAdvances` | two pages, of which the first shows the graph and has its details replaced twice more while the second opens or refreshes, two contents, two paths, an edit |
| | `AlwaysRunnable` | two processes, three releases, losses of power without a bound |
| | `RetentionIsExact`, `DryRunPredicts`, `SeenWorkKept`, `MergedHeadOnly` | three checkouts, one in another, two of them with environments, limits of one, an act of a user or an unanswered question between any two steps |
| `Computations_reference` | `WorksetIsTrue` | four files, all imports of up to three edges, a depth of two, three files parsed, two additions of roots |
| | `PathsAreBest` | four nodes, calls of each rank on five pairs, containment, one or two seeds: a strong detour beside a weak short cut |
| | `SelectionComplete`, `SelectionSound` | two sources (or a source and a configuration) and a test, imports of a module or a symbol that differ by version, deleted, broken, foreign and unparsed files |
| | `EditsOwnedOnce` | all hunks of four lines with an optional second one, declarations side by side and nested, on both sides |
| | `UnitsCover`, `RelationsExhausted`, `NamespaceChoiceIsBest` | four fragments, limits that two or three of them fill, chains through an alias, two namespaces at every depth |
| | `PlanIsReference` | a root and two Components: two requests can meet at the root in both orders, besides its own |

Violation runs show where the code does not do what a sentence of the
repository says.  Each is a finding in `PROJECT.json`:

| Run | Shows |
|---|---|
| `ValidationRound_undone` | `PassedIsTrue` fails: a file is edited while a check reads it and put back before the round's last capture, which docs/validation.md:204 says invalidates the round |
| `WorktreeRetention_removal` | `NothingLost` fails: a file that git ignores, made after the one check that looks for such files (clean.go:195), is deleted with the checkout, which docs/worktrees.md:35 says it prevents |
| `EnvironmentRelease_inplace` | `ReadyIsInstalled` fails with `Reinstalls = FALSE`: an interrupted installation in place leaves the old receipt, which fits again when the edit is undone |
| `PullRequestObservation_overtaken` | `NeverBackwards` fails in behaviours with the gap "overtaken": two processes get the lease through the gaps between stat, rmdir and mkdir |

**What the passing runs assume**, each time because the code does not hold
without it:

- `ValidationRound`: `PassedUnlessUndone` and `ReuseIsTrue` say nothing of a
  check that declares a file which was put back, within the round that ran it, to
  what that round was planned on.  A round's view of the history
  is that of its beginning: a failure that an overlapping round records later
  does not stop it from reusing an older success.  An inconsistent round may be
  reported complete, never passed.
- `EnvironmentRelease`: the installer takes the old directory away as a whole
  before it installs (`Reinstalls`); device and inode numbers are not used again (the journal knows a directory by nothing
  else, environment.go:50); the user leaves the directory to whoever holds the
  lease (`UserMay`); and `ReleaseFinishes` lets go of an environment that has
  come within the limit, because maintenance resumes only those beyond it
  (clean.go:273).
  `ReadyIsInstalled` is about what a preparation calls ready, which has looked at
  the journal before: an inspection alone goes by the receipt
  (docs/validation.md:14), so of a directory half deleted whose receipt is not
  gone yet it says ready too.  And of which manifests the installation is, it says
  only if none was edited and put back before the second comparison
  (dependencies.py:366), though docs/validation.md:32 says that no change of the
  inputs during an installation leaves a receipt.
- `PullRequestObservation`: `ObservationAdvances` and `LeaseRespected` are about behaviours in which nobody is held up in one of
  the gaps.
- `WorktreeRetention`: `SeenWorkKept` and `MergedHeadOnly` go up to the check that
  looks last for what they are about: the second of the removal for ignored files
  (clean.go:195), the third for detached commits and the head (198).
- `PullRequestScan`: `Age <= Overlap`: with a refresh interval above a minute the
  scanner may be served from the store what the next overlap no longer lists.
- `WorkspaceCapture`: an edit never restores what a file has been since the
  capture began; what is read twice would look the same, though
  docs/diff-usage.md:283 says that captures are compared "to detect concurrent
  changes".  And `CompleteIsOneMoment` and `ChangesAreTheDifference` are, for a
  working tree, about the files whose index entry is not touched meanwhile
  (`EntryKept`): the digests are of files alone.  A file of the base that is not
  in the index is reported as removed though it may be in the tree as it was
  (`Unlisted`), as git diff has it.  A new file that is added to the index between the
  patch and the second listing (comparison.go:117, 134) is in neither the patch
  nor the list of untracked files, and is missing from the changes of a
  comparison that calls itself complete; one that is added between the two
  ls-files of a reading (repository.go:242) is in neither of them.
- `CommandLog`: what a torn record that ends inside an unquoted value becomes
  when another one follows is the other one, and the torn one is forgotten
  without a diagnostic, in spite of docs/stats.md:38 ("Malformed or
  duplicate command records are diagnosed"); the properties are about records that were written in full.
- `Viewer`: only the source is protected against late answers: a late answer to
  the first /api/graph may put an older graph back on a page, whose sources are
  then refused.
- `Upgrade`: nothing is said of the order of versions: of two upgrades that
  overlap, the one that checked first may rename last and put its older release
  over the newer one.
- `SourceWorkset`: the depth of the files of a package depends on whether it was
  met before (build.go:234 and 328 count differently); `DepthLimitIsTrue` counts
  a step inside the package.

**Bounds.**  `MaxTime`, `MaxRound`, `MaxEdits`, `MaxUserActs`, `MaxActs`,
`MaxIdentity`, `MaxCrashes`, `MaxUndone`, `MaxVersion`, `Calm`, `LastUpdate`, `LastDay`,
`MaxTorn`, `MaxTreeEdits`, `MaxClicks`, `LastVersion` and `MaxAdds` bound clocks and the acts of
the outside; `Faulty`, `Cancellable`, `Unlucky` say who may fail.
`EvidencePresent` needs rounds no longer than the retention window
(`MaxRound` <= `Window`; the default window is thirty days).  `MCInit` of the
computations restricts their inputs to families in which the cases named above
meet.  `CaptureIsTrue` was also checked with three edits and with three files.

**Symmetry and views.**  `PullRequestScan_coverage` permutes pull requests, which
no property tells apart; two contents that differ only in name begin with one of
them.  The view of
`MCHistoryStore` leaves out the memory of processes that have ended; the run with
a liveness property uses neither.

**Fairness.**  `HistoryStore`: time passes and a process that lives keeps running
(`WF` of its steps), and its checks end, by themselves or at the deadline of the
round's context; waiting for the lock polls until the context is over, which is
`Fail`.  `EnvironmentRelease`: maintenance is run again and again, and a lease
wait that keeps asking gets it at last (`SF` of `Acquire`): a lost race is only
asked again.  `PullRequestObservation`: hosts go on asking and the clock goes on.
`PullRequestScan`: batches are started again, a listing or read that can succeed
does not fail for ever, and from `Calm` on no batch is lost.

## 4. Proofs

Each theorem is about the specification TLC runs, for every value of the
constants that its module's assumptions allow.  The listed ones:

| Theorem | Module | States |
|---|---|---|
| `HistoryReplays` | `HistoryStoreProofs` | `Spec => []Replayable` |
| `BatchesAccepted` | | `Spec => []NoBatchRejected` |
| `LogOnlyAppended` | | `Spec => OnlyAppended` |
| `RoundsRecorded` | | `Spec => []HealthyRoundRecorded` |
| `EvidenceKept` | | `RoundsFit => (Spec => []EvidencePresent)` |
| `ImplementsRunLedger` | | `Spec => ImplementsLedger` |
| `PassedHolds` | `ValidationRoundProofs` | `Spec => []PassedUnlessUndone` |
| `ReuseHolds` | | `Spec => []ReuseIsTrue` |
| `VersionEditsReuse` | | `Spec => []VersionEditsKeepReuse` |
| `JournalHolds` | `EnvironmentReleaseProofs` | `Spec => []JournalIsTrue` |
| `ReleaseGoesFirst` | | `Spec => []ReleaseBeforePreparation` |
| `ReadyIsWhole` | | `Reinstalls => (Spec => []ReadyIsInstalled)` |
| `LimitsHold` | `WorktreeRetentionProofs` | `RetentionSpec => []RetentionIsExact` |
| `PredictionHolds` | | `RetentionSpec => []DryRunPredicts` |
| `WorkIsKept`, `MergedHeads` | | `RetentionSpec => SeenWorkKept`, `RetentionSpec => MergedHeadOnly` |
| `StoredAdvances` | `PullRequestObservationProofs` | `Spec => ObservationAdvances` |
| `OwnersAreRespected` | | `Spec => LeaseRespected` |
| `CoverageHolds` | `PullRequestScanProofs` | `Spec => []CoverageIsTrue` |
| `StatisticsBalance`, `EndedRunsRanked` | `HostCommandProofs` | balance of statistics; `Spec => [](TypeOK /\ EndedIsRanked)` (of `HistoryReplay`) |
| `ProjectionHolds` | | `Spec => []ProjectionMatchesLog` (of `HistoryReplay`) |
| `CaptureHolds`, `SerialHolds` | | `CaptureSpec => []CaptureIsTrue`, `CaptureSpec => []ReadsAsSerial` |
| `ReportHolds` | | `LogSpec => []ReportIsTrue` |
| `SourceBelongs`, `PublishedAdvances` | | `[]SourceOfThePage`, `RefreshAdvances` |
| `InstalledRuns` | | `UpgradeSpec => []AlwaysRunnable` |
| `SoundHolds`, `CompleteHolds` | `ComputationProofs` | `[]SelectionSound`, `[]SelectionComplete` (of `ImpactAnalysis`) |
| `PlanHolds` | | `[]PlanIsReference` (of `CheckPlanning`) |
| `WorksetHolds` | | `WorksetSpec => []WorksetIsTrue` |

Each was first checked with TLC on the instance of its run, and so was each
inductive invariant.

**Recursion.**  The library's induction theorems take an operator as a parameter,
which no backend here instantiates.  What several proofs need of recursive
functions goes through sets instead: a set of numbers (or of lengths) that is not
empty has a least member (`WFMin`), so the set of those at which a claim fails,
were it not empty, would have one whose predecessor does not fail, and the
function's own equation leads from that to a contradiction.  The models therefore
write `Scan`, `Total`, `Steps`, `AtDepth`, `Enqueued` and `Batch` as recursive
functions, and `Removed` by what it returns, not as folds that would take an
operator.

**History store.**  `Replayable` is not inductive: whether an event may be
appended depends on what its session did earlier, outside the lock.  The
invariant is `IInv == TypeOK /\ LockOK /\ LogOK /\ WorkOK /\ BatchOK`.  `LockOK`
ties the lock to the place of its holder, whose handle is the end of the log.
`LogOK` states per event what makes it apply behind any cut: starts and
completions are unique, a completion and a reuse are of the task of their start,
a reuse lies behind a consistent success.  `WorkOK` relates each check of a
session to the log: which starts and completions of its Run can be there, and
that the source of a reuse is one that was recorded.  `BatchOK` says the same of
the events not yet written.  Each action preserves each part (lemmas `Step...`),
and `LogOK` gives `Replayable` for every cut because an event whose start has
been cut off is an orphan.

`RoundsRecorded` adds `RecordOK`: per check, at each step of its session, what is
already in the log and what its session still holds.  `EvidenceKept` adds
`EvidenceOK`, on the age of a file against the round it belongs to: a file whose
Run is or will be in the log is younger than the window.  It has the hypothesis
`RoundsFit == \A s \in Session : MaxRound <= Window[s]`, under which the run
checks the property too; a round longer than the retention window can lose its
files to another session's collection.

`ImplementsRunLedger` is a refinement, step by step.  What `RunLedger` calls a
Run's state is read off the log (`LedgerView`), the same in every state and the
next.  An append that holds a start, a completion or both for a Run maps to the
abstract start, completion, or their sequence for Runs of one batch; that no
second start or completion is possible is `LogOK` and `BatchOK`; a cut maps to
an expiry; all else stutters.

**History replay.**  The invariant relates the table to the prefix that was read:
a Run is in the table if and only if its start was read, and has ended if and
only if its completion was.  `EndedRunsRanked` says that the Runs that ended, and
no others, have a place in the order, each one.  `ProjectionHolds` adds how many there are: the Runs
in the table, those with a result and those that passed are counted by the
statistics, one step of the replay at a time.

**Validation rounds.**  The tree may change at any moment, between what a check
reads and the captures around it.  `TreesOK` says that a file seen otherwise than
planned is still otherwise, and shows when the round captures again, or was put
back; `VerdictOK` that a passed check passed on contents it saw,
file by file; `ReportOK` that a consistent report's verdicts are therefore about
the planned content, where nothing the check declares was put back; `LogOK` carries this into the history, whence `ReuseIsTrue`
for any later round whose inputs match.  `LaunchOK` keeps why a check was
executed: the latest match of its view was no success.  The proofs use
`InputsAssumption`: a check depends on its declared inputs other than version
documents.  That is the contract of the Makefile declarations on which reuse
rests, not something the code could establish, and the instance satisfies it.

**Environment release.**  A crash may fall between any two steps.  `LeaseOK` makes
whoever changes directory or journal the only one past waiting; `IdentityOK` says
that no identity is given out twice, which is how a journal tells what it may
delete from what the user has put there since; `PlaceOK` what each process knows
at each step, and `ContentsOK` what a crash leaves for the next: remains of a
deletion, which may still have a receipt, are in the journal.  `ReceiptOK` says
that any other directory with a receipt is an installation, and of which
manifests; it holds for an installer that takes the old directory away first
only: `ReadyIsWhole` has that hypothesis, and `EnvironmentRelease_inplace` refutes the property
without it.

**Worktree retention.**  `StageOK` says that what is to be done is about what was
listed and that what was checked is at hand; `CheckedOK` that what is in the way
of a removal since the check that looks for it last came after that check, which
is what `WorkIsKept` and `MergedHeads` are about, user acts at any moment
included; `KeptOK` that there are
checkouts, as many as the limit allows, which stay and are newer than each that
was or will be removed for the count, whoever interferes.  The rest is about a
cleaning in calm.  `RemovedIn(w, m)` and `ReleasedIn(w, m)` say without steps what
is to become of checkouts `w` with merged `m`; `CalmOK` says that a cleaning in
calm has found some `w` of which it has done just that for all it has come to
(`Found`), and that a prediction still valid is that of what is there.  So two
cleanings of the same checkouts agree, one dry and one not, although the second
changes what it then looks at: removing one checkout may unprotect another that
contains it, but that one was excluded when it was observed.  `Sortable` and
`BeyondIs` are the lemmas on the order: a finite total order has its ascending
sequence, and its first `n - limit` elements are those with at least `limit` newer
ones.

**Pull request observations.**  The two theorems are about behaviours in which
nobody is held up in a gap, as the properties are (`gaps = {}`).  `LeaseOK` says
that a lease is then known to at most one process, and that what this one has
read is still what is stored: one whose lease was reaped while it was asking the
forge is not among the knowing and does not publish.

**Scanner.**  What is to be shown of the saved cursor is shown of the batch's as
well, since either may be the next to be saved.  An update that is not stored as
it is now is queued among the failed, or lies in a gap, or in the part of a pass
that is still to be listed, or on the page that was listed and is being read, or
it is late enough for the next pass to reach back to it.  A pass that begins
starts `Overlap` before the last one ended, which is why `Overlap` must be no
less than the `Age` up to which the store serves a record and no less than the
`Lag` of the forge's listing (`OverlapAssumption`).  A listing is split rather
than cut off, a failing half becomes a gap, gaps of a state are joined to a window
that covers both, and a read that fails puts its key at the end of the queue.

**Workspace capture.**  Index, base and tree are any contents at first; what is
said is said of the files with `EntryKept`.  Nothing is put back, so a file that has left what the
first reading saw of it never comes back to it: `StillFirst(f)` (f is, or a later
reading found it, as the first one saw it) can only turn false.  `FirstInv` says
that when the first reading was done there was a moment at which all such files
were as it saw them; `PatchInv` and `OthersInv` say that the patch, and the
untracked files of the second reading, are right about such files.  Two equal
readings make all files such, which is `CompleteIsOneMoment` and
`ChangesAreTheDifference`.  `TrackedInv` and `EachInv` follow, for
`CompleteIsOfEachFile`, a file that is added to the index between two listings: a
reading may miss it once, and never again.

`ReadsAsSerial` says that parallel readers under one budget keep what one reader
would.  A tree that has moved since the listing never looks still again, so the
invariant (`SerialInv`) is about a tree that has not: each result is then one that
its file's content allows, the budget is the sum of the sizes of all files looked
at, what was accepted is no more than the limit, and a refusal means that the sum
has passed the limit.  If the files of the tree fit, none was refused; if not,
some was, or the merge finds the sum too large.

**Command log** (`HostCommandProofs`).  What a process has recorded of its outcome
is settled when it writes the record, so whatever a reader makes of a line that is
glued together is an outcome that was reached, or a malformed line: that is the
table `Cuts`, and `ScanSound`, by induction over the lines of a file.  For a
complete report the invariant says of each record that was there in full at its
beginning: it was read, or its file is still to be read and holds it, or its file
was removed because it had expired, and is missing (the report will not be
complete) or made again.  The theorem assumes that `Retained` is a number and that
`Unknown` is nobody's run ID.

**Viewer and upgrade** (`HostCommandProofs`).  A request on the wire that carries
the present epoch of its page was sent for the node and the graph that the page
shows, and what answers it is of both.  As long as the lock is held nothing is
published, so what a refresh captured is the latest when it is published.  A
staged file that may be renamed is whole, executable and synchronised, so a loss
of power leaves it alone; the same then holds of `executable` and of `durable`.

**Impact analysis** (`ComputationProofs`).  The two properties compare an analysis
by stages with reachability over everything.  `ImpactInv` says what each stage
leaves for the next.  For `SelectionSound`, a way in the graph is a way in the
reference, because the graph's edges are among those of the version.  For
`SelectionComplete`, the way by which a test depends on a change is climbed one
step at a time (`Climb`): either the step is an edge of the graph, or the file at
which it leaves the graph was met already and is a reported gap, whose bound takes
the test in.  That a test is a root of both explorations is what makes the work
set reach whatever it depends on.

**Check planning** (`ComputationProofs`).  Requests that meet at one Component are
merged by sets of targets, and those of one executor are all available or none, so
the order of arrival tells nothing and a request that comes again adds nothing;
`PlanHolds` carries "the checks are those of the Components planned so far" from
one turn of the loop to the next.

**Work set** (`ComputationProofs`).  `WorksetInv` has two parts beside the types.
`SubmittedInv` is about the parser: what is under way lies ahead in the frontier,
and every item behind the one at work is settled, that is parsed, under way, not
to be parsed, or behind as many files as the budget allows.  At the item itself
nothing is ahead any more, so a file that may be parsed was submitted, and Add
never fails for one that it forgot (`Waiting`).  `FrontierInv` is about the order:
a file may be met several times, and its *nearest* visit, the one with its depth
in `depths`, is still to come until the file is parsed or accounted for
(`Accounted`, `Expanded`), and until it has passed its depth on (`PassedOn`).
Without the last one the property is not inductive: between the discovery of a
shorter way and the visit that follows it, the depths of what lies behind it are
too large.  When Add returns nothing is to come, so what is within `n` steps of
the roots has a depth of at most `n` (`NearEnough`).  `WorksetAssumption` says only
that the limits are numbers.

**Only model-checked.**  Liveness (`RoundEnds`, `ReleaseFinishes`,
`LeaseRecovered`, `UpdatesFound`) rests on fairness and `ENABLED`, which the
prover does not handle.  `PathsAreBest`, `UnitsCover`, `RelationsExhausted`,
`NamespaceChoiceIsBest` and `EditsOwnedOnce` compare a computation with a reference
that sorts, folds or enumerates sequences by operators of the community modules;
these take operators as parameters, which puts them beyond the backends, and to
write each of them out as a recursive function would make the references longer
than what they check.

## 5. What is not modelled

- *Text*: parsing of Makefiles, manifests, diffs, git output and sources, the
  resolution of imports and names, and the encoding of requests; formatting of
  reports and pages; layout discovery, which is a function of a listing.
- *Work set*: that a batch is never too large is a guard (`Batch`) with the code's
  own bound; `WorksetIsTrue` is about files left out and the number parsed.
- *Code graph and impact*: nodes below files in the work set, declarations and
  locations in evidence.  *Units*: how declarations and relations are found,
  and
  their confidence, a key of their order (relations.go:158); elements are ordered by
  the lines they have, where element.go:49 orders by bytes.
- *Snapshots*: links, gitlinks, unmerged entries, reads of one file torn by an
  edit; the Python and TypeScript ones, which read twice in the same way.
- *Viewer*: the relations and the layout of a page.  *Statistics*: the sizes of
  stored files.
- *Git operations* (Python, TypeScript), *forge clients and HTTP state*, *pull
  request creation*, *branch associations*, *the Python validation engine*: see
  the plan.
- *Validation*: `DisableReuse`, input declarations, skipped checks in the
  history, process groups and output capture; the comparison of a completion's
  inputs with its start's (record.go:93), both of which a session writes from one
  value.  A capture is one look at the tree.
- *Environments*: an installer that outlives its process, several environments
  in one journal, the user acting inside the directory while the lease is held
  (`UserMay`).
- *Observations*: `maintain`, the schedule of retries beyond "due" and "not
  due", records of several connections.  *Scanner*: the rotation of tracked keys,
  cursors of another version.
- *Platforms*: Windows locks and depots.

## 6. Plan

Done: the modules above.  What is left, in order of importance:

1. Forge HTTP state and pull request creation: dispatch lock, cooldown, backoff,
   lost answers; hazard: a limit one process hits must hold back the others.
2. Observation maintenance and branch associations, composed with
   `PullRequestObservation` as an abstract store that only advances.
3. `ValidationRound` over `WorkspaceCapture`: a refinement of its one-look
   capture; then the Python engine and snapshots.
4. Git operations: staging of validated content against index and tree, the
   marked stash with its kept copy.
5. Proofs: the references of `PathQuery`, `EditSplit` and `UnitGrouping`, each of
   which wants an invariant of its loop in place of an enumeration.
