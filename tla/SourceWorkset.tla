--------------------------- MODULE SourceWorkset ---------------------------
(***************************************************************************)
(* The bounded exploration of a captured version of a repository           *)
(* (toolkit/go/internal/codegraph/build.go, Builder.Add): files reached    *)
(* from the submitted roots are parsed, within a depth and a number of     *)
(* files, while their parsing already runs in the background.              *)
(*                                                                         *)
(* Files are numbers: their order is the order of their names.             *)
(***************************************************************************)
EXTENDS Integers, Sequences, FiniteSets

CONSTANTS NSource,      \* how many paths there are
          MaxDepth,   \* BuildOptions.MaxDepth
          MaxFiles,   \* BuildOptions.MaxFiles
          MaxAdds     \* how often Add is called on one Builder

ASSUME WorksetAssumption == {NSource, MaxDepth, MaxFiles, MaxAdds} \subseteq Nat

Source == 1..NSource
Unseen == MaxDepth + 2      \* deeper than any recorded depth

VARIABLES
    targets,    \* what the imports of each file resolve to
    package,    \* the files of the one Go package but its tests: every file of
                \* the package sees them without an import
    content,    \* what the capture has at each path
    status,     \* "idle", "adding", or "failed": Add returned "was not submitted"
    roots,      \* what every Add so far was given
    queue,      \* the frontier, <<file, depth>> in the order of its discovery
    next,       \* the index of the frontier item to process
    nextSubmission,
    submitted,  \* parser tasks that have not been waited for
    depths,     \* the smallest depth at which a file was enqueued
    dependencies, \* what a parsed file enqueued
    visited,
    diagnostics, \* <<file, code>>
    adds

input == <<targets, package, content>>
explored == <<depths, dependencies, visited, diagnostics>>
worksetVars == <<input, status, roots, queue, next, nextSubmission, submitted, explored, adds>>

-----------------------------------------------------------------------------
(* What the builder knows of a path before it reads it.                    *)

Parsed == {"source", "test"}
Available(f) == content[f] \in Parsed \cup {"outside"}        \* req.Files
OutOfScope(f) == content[f] = "outside"                       \* ~req.SourceFiles[f]
Gitlink(f) == content[f] = "gitlink"
Ignored(f) == content[f] = "vendored"                         \* ignoredDependency

\* By name, at one depth.
AtDepth(fs, d) ==
    LET upTo[n \in 0..NSource] ==
            IF n = 0 THEN <<>>
            ELSE IF n \in fs THEN Append(upTo[n - 1], <<n, d>>) ELSE upTo[n - 1]
    IN upTo[NSource]

\* A Go file enqueues the other files of its package at its own depth, then
\* the targets of its imports one deeper.
Siblings(f) == IF f \in package \/ content[f] = "test" THEN package ELSE {}
Discovered(f, d) == AtDepth(Siblings(f), d) \o AtDepth(targets[f], d + 1)

\* enqueue: a file is queued when it is new or nearer than it was; one outside
\* the scope of the workset is only reported, once.
Enqueue(state, item) ==
    LET f == item[1] d == item[2]
    IN IF state.depths[f] <= d THEN state
       ELSE [depths |-> [state.depths EXCEPT ![f] = d],
             queue |-> IF OutOfScope(f) THEN state.queue ELSE Append(state.queue, item),
             diagnostics |-> IF OutOfScope(f) /\ state.depths[f] = Unseen
                             THEN state.diagnostics \cup {<<f, "source_scope">>}
                             ELSE state.diagnostics]

Enqueued(items, issues) ==
    LET upTo[n \in 0..Len(items)] ==
            IF n = 0 THEN [depths |-> depths, queue |-> queue, diagnostics |-> issues]
            ELSE Enqueue(upTo[n - 1], items[n])
    IN upTo[Len(items)]

EnqueueAll(items, issues) ==
    LET after == Enqueued(items, issues)
    IN /\ depths' = after.depths
       /\ queue' = after.queue
       /\ diagnostics' = after.diagnostics

-----------------------------------------------------------------------------
(* Submission of the frontier to the parser.                               *)

Submittable(f, d, batch) ==
    /\ f \notin visited \cup submitted \cup batch
    /\ Available(f)
    /\ d <= MaxDepth

\* submitQueued: the new part of the frontier, as far as the budget goes.
Batch ==
    LET upTo[n \in 0..Len(queue)] ==
            IF n < nextSubmission THEN {}
            ELSE LET batch == upTo[n - 1] IN
                 IF /\ Cardinality(visited) + Cardinality(submitted) + Cardinality(batch) < MaxFiles
                    /\ Submittable(queue[n][1], queue[n][2], batch)
                 THEN batch \cup {queue[n][1]} ELSE batch
    IN upTo[Len(queue)]

-----------------------------------------------------------------------------
(* Add.                                                                    *)

BeginAdd(fs) ==
    /\ status = "idle" /\ adds < MaxAdds
    /\ status' = "adding" /\ adds' = adds + 1
    /\ roots' = roots \cup fs
    /\ EnqueueAll(AtDepth(fs, 0), diagnostics)
    /\ next' = 1 /\ nextSubmission' = 1
    /\ UNCHANGED <<input, submitted, dependencies, visited>>

\* The start of a turn of the loop: everything discovered since is submitted.
Item == queue[next]
Turn ==
    /\ status = "adding" /\ next <= Len(queue)
    /\ next' = next + 1 /\ nextSubmission' = Len(queue) + 1
    /\ UNCHANGED <<input, roots, adds>>

\* Mutant: a file that was parsed once is never passed on again.
RevisitedNever(f, d) == <<>>

\* A nearer visit passes its depth on to what the file had enqueued.
Revisited(f, d) == AtDepth(dependencies[f], d + 1)

Revisit ==
    /\ Turn
    /\ Item[1] \in visited
    /\ EnqueueAll(Revisited(Item[1], Item[2]), diagnostics)
    /\ submitted' = submitted \cup Batch
    /\ UNCHANGED <<status, dependencies, visited>>

\* A gitlink is a node without contents; a path may exist on the other side of
\* the comparison only.
Skip ==
    /\ Turn
    /\ Item[1] \notin visited
    /\ Gitlink(Item[1]) \/ content[Item[1]] = "absent"
    /\ submitted' = submitted \cup Batch
    /\ UNCHANGED <<status, queue, explored>>

Limit(f, d) ==
    IF Ignored(f) THEN "boundary_unavailable"
    ELSE IF d > MaxDepth THEN "expansion_limit"
    ELSE IF Cardinality(visited) >= MaxFiles THEN "file_limit"
    ELSE "none"

Omit ==
    /\ Turn
    /\ Item[1] \notin visited /\ (Available(Item[1]) \/ Ignored(Item[1]))
    /\ Limit(Item[1], Item[2]) # "none"
    /\ diagnostics' = diagnostics \cup {<<Item[1], Limit(Item[1], Item[2])>>}
    /\ submitted' = submitted \cup Batch
    /\ UNCHANGED <<status, queue, depths, dependencies, visited>>

\* A file that is reached after all is not reported as omitted.
Cleared(f) == diagnostics \ {<<f, "expansion_limit">>, <<f, "file_limit">>}

\* The parser's answer is waited for; "source document was not submitted" fails
\* the exploration.
Parse ==
    LET f == Item[1]
        waiting == f \in submitted \cup Batch
    IN
    /\ Turn
    /\ f \notin visited /\ Available(f)
    /\ Limit(f, Item[2]) = "none"
    /\ visited' = visited \cup {f}
    /\ submitted' = (submitted \cup Batch) \ {f}
    /\ dependencies' = [dependencies EXCEPT ![f] = IF waiting THEN Siblings(f) \cup targets[f] ELSE {}]
    /\ EnqueueAll(IF waiting THEN Discovered(f, Item[2]) ELSE <<>>, Cleared(f))
    /\ status' = IF waiting THEN status ELSE "failed"

EndAdd ==
    /\ status = "adding" /\ next > Len(queue)
    /\ status' = "idle"
    /\ queue' = <<>> /\ next' = 1 /\ nextSubmission' = 1 /\ submitted' = {}
    /\ UNCHANGED <<input, roots, explored, adds>>

-----------------------------------------------------------------------------
NothingAdded ==
    /\ status = "idle" /\ roots = {} /\ queue = <<>> /\ next = 1 /\ nextSubmission = 1
    /\ submitted = {} /\ visited = {} /\ diagnostics = {}
    /\ depths = [f \in Source |-> Unseen]
    /\ dependencies = [f \in Source |-> {}]

\* Any targets between any kinds of files. A directory has one Go package.
WorksetInit ==
    /\ content \in [Source -> Parsed \cup {"outside", "gitlink", "vendored", "absent"}]
    /\ targets \in [Source -> SUBSET Source]
    /\ \A f \in Source : targets[f] \subseteq IF content[f] \in Parsed THEN Source \ {f} ELSE {}
    /\ package \in SUBSET {f \in Source : content[f] = "source"}
    /\ NothingAdded /\ adds = 0

WorksetNext ==
    \/ \E fs \in SUBSET Source \ {{}} : BeginAdd(fs)
    \/ Revisit \/ Skip \/ Omit \/ Parse \/ EndAdd

WorksetSpec == WorksetInit /\ [][WorksetNext]_worksetVars

-----------------------------------------------------------------------------
(* Properties.                                                             *)

Reported(f) == \E issue \in diagnostics : issue[1] = f

\* Nothing that was asked for or depended on is passed over in silence. When Add
\* has returned it has not failed for a document it forgot to submit ahead of
\* the traversal, it parsed no more than MaxFiles, and every root and every
\* dependency of a parsed file is parsed, or reported, or has no contents.
WorksetExplained ==
    /\ status # "failed"
    /\ Cardinality(visited) <= MaxFiles
    /\ status = "idle" =>
          \A f \in roots \cup UNION {dependencies[g] : g \in visited} :
              f \in visited \/ Reported(f) \/ content[f] \in {"gitlink", "absent"}

\* The files within n steps of the roots, a step inside the package counted too.
Within ==
    LET near[n \in 0..MaxDepth] ==
            IF n = 0 THEN roots
            ELSE LET last == near[n - 1]
                 IN last \cup UNION {targets[f] \cup Siblings(f) : f \in last}
    IN near[MaxDepth]

\* Only what is too deep is left out for its depth, in whatever order the roots
\* were added: a later Add that comes nearer completes the frontier of an earlier
\* one ("Shallower additions can complete a previous depth-limited frontier").
DepthLimitIsTrue ==
    status = "idle" /\ (\A f \in Source : <<f, "file_limit">> \notin diagnostics)
        => \A f \in Within : <<f, "expansion_limit">> \notin diagnostics

\* Every file asked for or depended on is parsed or reported, within the limits,
\* and only what is too deep is left out for its depth, in whatever order the
\* roots are added (build.go, Add).
WorksetIsTrue == WorksetExplained /\ DepthLimitIsTrue
=============================================================================
