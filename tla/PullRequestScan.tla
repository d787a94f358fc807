--------------------------- MODULE PullRequestScan ---------------------------
(***************************************************************************)
(* The discovery of pull requests by their update times                    *)
(* (toolkit/typescript/src/forge: scan.ts, scanPullRequests, as            *)
(* observation/engine.ts drives it: ObservationEngine.poll).               *)
(*                                                                         *)
(* A scan advances in batches.  A batch retries reads that failed, lists   *)
(* windows of update times (halving a window that does not fit one page),  *)
(* reads what it lists, and then saves a cursor; dying before that repeats *)
(* the batch.  Each read is stored when it is made, and may be served from *)
(* the store.  Meanwhile pull requests go on being updated, and the forge  *)
(* lists an update up to Lag seconds late.                                 *)
(***************************************************************************)
EXTENDS Integers, Sequences, FiniteSets

CONSTANTS Key,          \* pull requests in the scope, none merged
          Overlap,      \* OVERLAP_MS, in seconds
          Age,          \* how old a stored observation may be and serve a read
          Lag,          \* how late the forge may list an update
          PageSize,     \* PAGE_SIZE: a page with so many may not be all
          MaxRequests, MaxReads, MaxRetries,   \* of a batch
          MaxFailed,    \* MAX_FAILED_READS
          Since,        \* initialSince: how far back the first scan looks
          Start,        \* when the scan begins
          LastUpdate,   \* bound: no update after this time
          MaxTime,      \* bound on the clock
          Calm,         \* bound: no batch is lost from this time on
          Shared        \* whether others query these pull requests

ASSUME KeyAssumption == IsFiniteSet(Key)
\* The default age of a stored observation is the overlap, one minute; a longer
\* one would let a batch read from the store what a later one does not list.
ASSUME OverlapAssumption ==
    /\ {Overlap, Age, Lag} \subseteq Nat /\ Age <= Overlap /\ 0 < Lag /\ Lag <= Overlap
ASSUME BatchAssumption ==
    {PageSize, MaxRequests, MaxReads, MaxRetries, MaxFailed} \subseteq Nat \ {0}
ASSUME TimeAssumption ==
    /\ {Since, Start, LastUpdate, Calm, MaxTime} \subseteq Nat /\ Shared \in BOOLEAN
    /\ Since + Lag <= Start + 1 /\ Start <= LastUpdate /\ LastUpdate <= MaxTime

VARIABLES
    now,       \* the clock, in seconds
    updated,   \* when each pull request was last updated
    isOpen,    \* whether it is open
    current,   \* whether what is stored of it is its present state
    storedAt,  \* when that was read; Never if it is not, no longer serves a read
               \* or failed last
    saved,     \* the cursor in scans/<scope>.json
    work,      \* the cursor of the batch under way
    batch      \* what the batch has done so far

forge == <<now, updated, isOpen>>
store == <<current, storedAt>>
vars == <<forge, store, saved, work, batch>>

Never == -1
Time == 0..MaxTime

Window == {w \in [state : {"open", "all"}, from : Time, to : Time] : w.from <= w.to}
NoPass == [state |-> "none"]
FirstCursor == [inventory |-> FALSE, enumerated |-> Never, scanned |-> Never,
                failed |-> <<>>, gaps |-> <<>>, pass |-> NoPass]
Idle == [stage |-> "idle"]

Running == batch # Idle
HasPass(c) == c.pass # NoPass
Has(failed, k) == \E i \in DOMAIN failed : failed[i] = k

\* Failures are a map and gaps are one of each state: there is one to remove.
Removed(q, at) ==
    IF at = {} THEN q
    ELSE LET i == CHOOSE i \in at : TRUE IN SubSeq(q, 1, i - 1) \o SubSeq(q, i + 1, Len(q))
Without(failed, k) == Removed(failed, {i \in DOMAIN failed : failed[i] = k})

Covers(w, k) ==
    /\ updated[k] >= w.from /\ updated[k] <= w.to
    /\ w.state = "open" => isOpen[k]

-----------------------------------------------------------------------------
\* The pass a cursor without one goes on with: its gaps, and what is new.
From(c) == IF c.enumerated < Overlap THEN 0 ELSE c.enumerated - Overlap

NextWindow(c) ==
    CASE ~c.inventory -> [state |-> "open", from |-> 0, to |-> now]
      [] c.inventory /\ c.enumerated = Never -> [state |-> "all", from |-> Since, to |-> now]
      [] OTHER -> [state |-> "all", from |-> From(c), to |-> now]

WithPass(c) ==
    LET w == NextWindow(c)
    IN [c EXCEPT !.gaps = <<>>,
                 !.pass = [state |-> w.state, end |-> now, windows |-> Append(c.gaps, w),
                           listed |-> FALSE, page |-> {}, partial |-> FALSE]]

Begin ==
    /\ ~Running
    /\ work' = IF HasPass(saved) THEN saved ELSE WithPass(saved)
    /\ batch' = [stage |-> "running", attempted |-> {}, requests |-> 0, reads |-> 0,
                 retry |-> SubSeq(saved.failed, 1, IF Len(saved.failed) < MaxRetries
                                                   THEN Len(saved.failed) ELSE MaxRetries)]
    /\ UNCHANGED <<forge, store, saved>>

-----------------------------------------------------------------------------
\* read: from the store while that is fresh, or else from the forge.
Fresh(k) == storedAt[k] # Never

ReadForge(k) ==
    /\ current' = [current EXCEPT ![k] = TRUE]
    /\ storedAt' = [storedAt EXCEPT ![k] = now]

\* A failure goes to the end of the queue; the store keeps the old facts.
FailedDropped(failed, k) == Without(failed, k)    \* mutant: not queued again
FailedAgain(failed, k) == Append(Without(failed, k), k)
Queued(failed, k) == FailedAgain(failed, k)

\* c: the cursor as it is when the read is over.
Succeeds(k, c) ==
    /\ IF Fresh(k) THEN UNCHANGED store ELSE ReadForge(k)
    /\ work' = [c EXCEPT !.failed = Without(@, k)]

Fails(k, c) ==
    /\ ~Fresh(k)
    /\ storedAt' = [storedAt EXCEPT ![k] = Never] /\ UNCHANGED current
    /\ work' = [c EXCEPT !.failed = Queued(@, k)]

Retry ==
    /\ Running /\ batch.retry # <<>>
    /\ LET k == Head(batch.retry)
       IN /\ Succeeds(k, work) \/ Fails(k, work)
          /\ batch' = [batch EXCEPT !.retry = Tail(@), !.attempted = @ \cup {k}]
    /\ UNCHANGED <<forge, saved>>

-----------------------------------------------------------------------------
Discovering == Running /\ batch.retry = <<>> /\ work.pass.windows # <<>>
ToList ==
    /\ Discovering /\ ~work.pass.listed
    /\ batch.reads < MaxReads /\ batch.requests < MaxRequests
First == Head(work.pass.windows)
Others == Tail(work.pass.windows)

\* What the forge lists of a window: an update of the last Lag seconds or not.
Listings(w) ==
    LET listed == {k \in Key : Covers(w, k)}
        settled == {k \in listed : updated[k] <= now - Lag}
    IN {settled \cup S : S \in SUBSET (listed \ settled)}

Request == batch' = [batch EXCEPT !.requests = @ + 1]

\* A page that may lack entries says so (issues).
ListPage ==
    /\ ToList
    /\ \E partial \in BOOLEAN :
         \E page \in IF partial THEN UNION {SUBSET L : L \in Listings(First)} ELSE Listings(First) :
           /\ Cardinality(page) < PageSize
           /\ work' = [work EXCEPT !.pass.listed = TRUE, !.pass.page = page,
                                   !.pass.partial = partial]
    /\ Request
    /\ UNCHANGED <<forge, store, saved>>

\* retainGap: one gap of each state, as wide as all of them.
RetainLatest(gaps, w) ==                          \* mutant: the earlier one is lost
    Append(Removed(gaps, {i \in DOMAIN gaps : gaps[i].state = w.state}), w)
RetainWidest(gaps, w) ==
    LET same == {gaps[i] : i \in {i \in DOMAIN gaps : gaps[i].state = w.state}} \cup {w}
        first == CHOOSE g \in same : \A h \in same : g.from <= h.from
        last == CHOOSE g \in same : \A h \in same : g.to >= h.to
    IN RetainLatest(gaps, [state |-> w.state, from |-> first.from, to |-> last.to])
RetainGap(gaps, w) == RetainWidest(gaps, w)

Skip(gaps) == work' = [work EXCEPT !.gaps = gaps, !.pass.windows = Others]

\* The page is full, or the forge says that it cannot list so much.
Split ==
    /\ ToList
    /\ IF First.to - First.from <= 1
         THEN Skip(RetainGap(work.gaps, First))
         ELSE LET middle == (First.from + First.to) \div 2
              IN work' = [work EXCEPT !.pass.windows =
                            <<[First EXCEPT !.to = middle], [First EXCEPT !.from = middle]>> \o Others]
    /\ Request
    /\ UNCHANGED <<forge, store, saved>>

ListFails ==
    /\ ToList
    /\ Skip(RetainGap(work.gaps, First))
    /\ Request
    /\ UNCHANGED <<forge, store, saved>>

-----------------------------------------------------------------------------
\* A queue that is full admits no new failure, so nothing new is read.
Admitted(k) == Len(work.failed) < MaxFailed \/ Has(work.failed, k)
ToRead == Discovering /\ work.pass.listed

ReadListed(k) ==
    /\ ToRead /\ k \in work.pass.page /\ Admitted(k) /\ batch.reads < MaxReads
    /\ LET next == [work EXCEPT !.pass.page = @ \ {k}]
       IN IF k \in batch.attempted
          THEN work' = next /\ UNCHANGED store
          ELSE Succeeds(k, next) \/ Fails(k, next)
    /\ batch' = [batch EXCEPT !.reads = @ + 1, !.attempted = @ \cup {k}]
    /\ UNCHANGED <<forge, saved>>

CloseWindow ==
    /\ ToRead /\ work.pass.page = {}
    /\ work' = [work EXCEPT !.gaps = IF work.pass.partial THEN RetainGap(work.gaps, First) ELSE @,
                            !.pass.listed = FALSE, !.pass.partial = FALSE,
                            !.pass.windows = Others]
    /\ UNCHANGED <<forge, store, saved, batch>>

-----------------------------------------------------------------------------
\* The discovery stops: it is done, or at a limit of the batch, or the queue of
\* failed reads is full.
Stopped ==
    /\ Running /\ batch.retry = <<>>
    /\ \/ work.pass.windows = <<>>
       \/ ~work.pass.listed /\ (batch.reads >= MaxReads \/ batch.requests >= MaxRequests)
       \/ work.pass.page # {} /\ batch.reads >= MaxReads
       \/ \E k \in work.pass.page : ~Admitted(k)

\* A pass is over: how far it came, and how far with nothing left out.
Scanned(c) ==
    IF c.gaps = <<>> /\ c.failed = <<>> /\ c.enumerated # Never THEN c.enumerated ELSE c.scanned

Finished(c) ==
    LET over == IF c.pass.state = "open"
                THEN [c EXCEPT !.inventory = TRUE, !.pass = NoPass]
                ELSE [c EXCEPT !.enumerated = c.pass.end, !.pass = NoPass]
    IN IF c.pass.windows # <<>> THEN c ELSE [over EXCEPT !.scanned = Scanned(over)]

Save ==
    /\ Stopped
    /\ saved' = Finished(work)
    /\ work' = FirstCursor /\ batch' = Idle
    /\ UNCHANGED <<forge, store>>

\* The process dies, or cannot store a read (storageFailure): no cursor is saved.
Lose ==
    /\ Running /\ now < Calm
    /\ work' = FirstCursor /\ batch' = Idle
    /\ UNCHANGED <<forge, store, saved>>

-----------------------------------------------------------------------------
\* Somebody asks for one pull request, which stores it.
Query(k) ==
    /\ Shared /\ ~Fresh(k)
    /\ ReadForge(k)
    /\ UNCHANGED <<forge, saved, work, batch>>

Update(k) ==
    /\ now <= LastUpdate
    /\ updated' = [updated EXCEPT ![k] = now]
    /\ isOpen' \in {[isOpen EXCEPT ![k] = o] : o \in BOOLEAN}
    /\ current' = [current EXCEPT ![k] = FALSE]
    /\ UNCHANGED <<now, storedAt, saved, work, batch>>

Tick ==
    /\ now < MaxTime /\ now' = now + 1
    /\ storedAt' = [k \in Key |-> IF storedAt[k] + Age > now THEN storedAt[k] ELSE Never]
    /\ UNCHANGED <<updated, isOpen, current, saved, work, batch>>

Init ==
    /\ now = Start /\ updated \in [Key -> 0..Start] /\ isOpen \in [Key -> BOOLEAN]
    /\ current = [k \in Key |-> FALSE] /\ storedAt = [k \in Key |-> Never]
    /\ saved = FirstCursor /\ work = FirstCursor /\ batch = Idle

Scan ==
    \/ Begin \/ Retry \/ ListPage \/ Split \/ ListFails
    \/ \E k \in Key : ReadListed(k)
    \/ CloseWindow \/ Save

Next == Scan \/ Lose \/ (\E k \in Key : Query(k) \/ Update(k)) \/ Tick

Spec == Init /\ [][Next]_vars

\* The host goes on polling and time passes.  To list where a pull request is,
\* when tried again and again, succeeds in the end, and so does reading it.
FairSpec ==
    /\ Spec /\ WF_vars(Scan) /\ WF_vars(Tick)
    /\ \A k \in Key :
         /\ SF_vars(ListPage /\ Covers(First, k) /\ ~work'.pass.partial)
         /\ SF_vars((Retry \/ ReadListed(k)) /\ current'[k])

-----------------------------------------------------------------------------
NoRepeats(q, f(_)) == \A i, j \in DOMAIN q : f(q[i]) = f(q[j]) => i = j

\* Every cursor the scanner makes is one that it will accept: the bounds that
\* `decode' demands hold of it (scan.ts:54-66).
Accepted(c) ==
    /\ c.inventory \in BOOLEAN /\ c.enumerated \in Time \cup {Never}
    /\ c.scanned \in -1..c.enumerated /\ (c.enumerated # Never => c.inventory)
    /\ c.failed \in Seq(Key) /\ Len(c.failed) <= MaxFailed
    /\ NoRepeats(c.failed, LAMBDA k : k)
    /\ c.gaps \in Seq(Window) /\ NoRepeats(c.gaps, LAMBDA g : g.state)
    /\ HasPass(c) =>
         /\ c.pass.windows \in Seq(Window) /\ c.pass.end \in Time
         /\ c.pass.listed => c.pass.windows # <<>>
         /\ c.pass.page \subseteq Key /\ Cardinality(c.pass.page) < PageSize

\* What the scan is to find: all that is open, and all that is updated since.
Relevant(k) == updated[k] >= Since \/ isOpen[k]

\* Where cursor c still has the state of k before it.
Listable(c, k) ==
    HasPass(c) /\ \E i \in DOMAIN c.pass.windows :
        Covers(c.pass.windows[i], k) /\ (i = 1 /\ c.pass.listed => c.pass.partial)
Listed(c, k) == HasPass(c) /\ k \in c.pass.page
LaterFrom(c) ==
    IF HasPass(c) /\ c.pass.state = "all" THEN c.pass.end - Overlap
    ELSE IF c.enumerated = Never THEN Since ELSE c.enumerated - Overlap
Later(c, k) == updated[k] >= LaterFrom(c) \/ (~c.inventory /\ ~HasPass(c) /\ isOpen[k])
Retained(c, k) ==
    \/ Has(c.failed, k) \/ \E i \in DOMAIN c.gaps : Covers(c.gaps[i], k)
    \/ Listable(c, k) \/ Listed(c, k) \/ Later(c, k)

\* Whatever is not stored as it is now, the saved cursor has yet to come to: no
\* failure, full page, late listing, stale read or lost batch makes the scan go
\* past an update (scan.ts:77 "failed windows and keys survive"; docs/pr.md:275
\* allows repeated reads, never a fact skipped).
NothingSkipped == \A k \in Key : Relevant(k) /\ ~current[k] => Retained(saved, k)

\* scannedThrough is coverage: older updates than that, less the overlap, are all
\* stored, whatever has failed since (scan.ts:77 "progress and coverage").
ScannedIsStored ==
    \A k \in Key : Relevant(k) /\ saved.scanned # Never /\ updated[k] + Overlap < saved.scanned
        => current[k]

\* What the saved cursor says of the past, and of what is still to be done.
CoverageIsTrue == Accepted(saved) /\ NothingSkipped /\ ScannedIsStored

\* Every update is found out about in the end, whatever is listed late, cannot
\* be listed or read for a while, is served from the store or lost with a batch
\* (docs/pr.md:275: scanning again never leaves a fact out for good).
Outdated(k) == Relevant(k) /\ ~current[k]
UpdatesFound == \A k \in Key : Outdated(k) ~> ~Outdated(k)
=============================================================================
