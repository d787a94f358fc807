--------------------------- MODULE ImpactAnalysis ---------------------------
(***************************************************************************)
(* Which tests a change can affect (toolkit/go/internal/impact, Analyze):  *)
(* the versions before and after are explored and queried apart, their     *)
(* answers are merged, and what could not be analysed is reported with the *)
(* tests that it leaves uncertain.                                         *)
(*                                                                         *)
(* A node of the graph is a file, its module as a whole, or one of its     *)
(* symbols; the exploration of a version is taken for what SourceWorkset   *)
(* checks of it, the query for what PathQuery checks.                      *)
(***************************************************************************)
EXTENDS Integers, FiniteSets, FiniteSetsExt

CONSTANTS NFile,        \* how many paths there are
          NComponent    \* how many Components

File == 1..NFile
Version == {"before", "after"}
Symbol == {"a", "b"}
Node == File \X (Symbol \cup {"file", "module"})
Nobody == 0     \* no owner: such files share the empty Component root

VARIABLES
    exists,     \* the files of either version
    imports,    \* [from, to, of]: a file imports a symbol of another, or all of it
    calls,      \* [file, from, to]: calls between the symbols of a file
    owner,      \* by version: the Component that owns a path, or Nobody
    kind,       \* "source", "test", "config" or "asset"
    broken,     \* by version: files whose facts could not be extracted
    changes,    \* [path, old, before, after]: what was edited of either version
    dirs,       \* whether test directories are named
    listed,     \* the tests inside the named directories
    shared,     \* tests at the root or in a repository test directory
    support,    \* files in test directories, which tests may use
    budget      \* the documents that may be parsed of one version

repository == <<exists, imports, calls, owner, kind, broken, changes, dirs,
                listed, shared, support, budget>>

VARIABLES stage, tests, parsed, omitted, outside, seeds, gaps, routes,
          selected, uncertain, observed

analysis == <<tests, parsed, omitted, outside, seeds, gaps, routes, selected,
              uncertain, observed>>
vars == <<repository, stage, analysis>>

\* What leads to the nodes ns in n steps or less, for each n up to a bound.
Steps(graph, ns, bound) ==
    LET near[n \in 0..bound] ==
            IF n = 0 THEN ns
            ELSE LET last == near[n - 1] IN last \cup {e[1] : e \in {e \in graph : e[2] \in last}}
    IN near

At(s) == stage = s
Goto(s) == stage' = s /\ UNCHANGED repository

-----------------------------------------------------------------------------
(* The candidates.                                                         *)

Side(c, v) == IF v = "before" THEN c.old ELSE c.path
Tests(v) == {f \in exists[v] : kind[f] = "test"}

\* A rename selects the owners of both names, an addition or a deletion of one.
SelectedComponents ==
    UNION {{owner[v][Side(c, v)] : c \in {c \in changes : Side(c, v) \in exists[v]}} : v \in Version}
Selected(v, f) == owner[v][f] \in SelectedComponents

\* Only tests that exist after the change can be run.
DiscoverTests ==
    /\ At("start") /\ changes # {}
    /\ tests' = IF dirs THEN Tests("after") \cap listed
                ELSE {f \in Tests("after") : Selected("after", f) \/ f \in shared}
    /\ Goto("before")
    /\ UNCHANGED <<parsed, omitted, outside, seeds, gaps, routes, selected, uncertain, observed>>

NoChange ==
    /\ At("start") /\ changes = {}
    /\ Goto("done") /\ UNCHANGED analysis

-----------------------------------------------------------------------------
(* The worksets.                                                           *)

Allowed(v) == {f \in exists[v] : \/ Selected(v, f) \/ f \in tests
                                 \/ (kind[f] # "test" /\ f \in support)}

\* Mutant: tests are explored in the version they are run in only.
RootsAfterOnly(v) ==
    {Side(c, v) : c \in changes} \cup (IF v = "after" THEN tests ELSE {})

\* The changed files and the tests, and without named directories every source
\* of the selected Components. The same tests are explored in both versions.
Roots(v) ==
    {Side(c, v) : c \in changes} \cup tests \cup
    (IF dirs THEN {} ELSE {f \in exists[v] : kind[f] \in {"source", "test"} /\ Selected(v, f)})

Imported(v, fs) == {e.to : e \in {e \in imports[v] : e.from \in fs \ broken[v]}} \cap exists[v]

Explored(v) ==
    Steps({<<e.to, e.from>> : e \in {e \in imports[v] : e.from \notin broken[v] /\ e.to \in Allowed(v)}},
          Roots(v) \cap Allowed(v), NFile)[NFile]

\* codegraph.Build: within the budget every allowed file is parsed, beyond it some
\* are; a file that was wanted and not parsed is reported, as SourceWorkset checks.
BuildWorkset(v, now, then) ==
    /\ At(now)
    /\ \E fs \in SUBSET Explored(v) :
          /\ Cardinality(fs) = Min({budget, Cardinality(Explored(v))})
          /\ LET wanted == (Roots(v) \cap exists[v]) \cup Imported(v, fs) IN
             /\ parsed' = [parsed EXCEPT ![v] = fs]
             /\ omitted' = [omitted EXCEPT ![v] = (wanted \cap Allowed(v)) \ fs]
             /\ outside' = [outside EXCEPT ![v] = wanted \ Allowed(v)]
    /\ Goto(then)
    /\ UNCHANGED <<tests, seeds, gaps, routes, selected, uncertain, observed>>

BuildBefore == BuildWorkset("before", "before", "after")
BuildAfter == BuildWorkset("after", "after", "seeds")

-----------------------------------------------------------------------------
(* The changes.                                                            *)

Modified(c) == c.path = c.old /\ \A v \in Version : c.path \in exists[v]
Edited(c, v) == IF v = "before" THEN c.before ELSE c.after

\* A rename, a test, a patch without lines; of Go files it is the package.
WholeFile(c, f) == ~Modified(c) \/ kind[f] = "test" \/ c.before \cup c.after = {}

\* selectSeeds: an edit inside declarations that could be read starts from them
\* and from whoever imports the module; anything else starts from the file. A
\* version in which no line changed contributes nothing.
Seeds(c, v) ==
    LET f == Side(c, v) IN
    IF f \notin exists[v] THEN {}
    ELSE IF WholeFile(c, f) THEN {<<f, "file">>}
    ELSE IF Edited(c, v) = {} THEN {}
    ELSE IF kind[f] # "source" \/ "top" \in Edited(c, v) \/ f \notin parsed[v] \ broken[v]
         THEN {<<f, "file">>}
    ELSE {<<f, x>> : x \in Edited(c, v) \cup {"module"}}

Referenced(f) == \E v \in Version : \E e \in imports[v] : e.to = f /\ e.from \in parsed[v] \ broken[v]

\* A changed configuration, and a resource nothing is known to use, can affect
\* any file of its Component.
ChangeGaps ==
    {[path |-> f, scope |-> "component"] :
        f \in {f \in {c.path : c \in changes} \cup {c.old : c \in changes} :
                kind[f] = "config" \/ (kind[f] = "asset" /\ ~Referenced(f))}}

CollectSeeds ==
    /\ At("seeds")
    /\ seeds' = [v \in Version |-> UNION {Seeds(c, v) : c \in changes}]
    /\ gaps' = ChangeGaps
    /\ Goto("query before")
    /\ UNCHANGED <<tests, parsed, omitted, outside, routes, selected, uncertain, observed>>

-----------------------------------------------------------------------------
(* The queries.                                                            *)

Edges(v, fs) ==
    (UNION {{<<<<e.from, "file">>, <<e.to, "file">>>>, <<<<e.from, "file">>, <<e.to, e.of>>>>} :
               e \in {e \in imports[v] : e.from \in fs}})
    \cup {<<<<k.file, k.from>>, <<k.file, k.to>>>> : k \in {k \in calls[v] : k.file \in fs}}

\* Mutant: one graph of both versions.
GraphOfBoth(v) == UNION {Edges(w, parsed[w] \ broken[w]) : w \in Version}

Graph(v) == Edges(v, parsed[v] \ broken[v])

Upstream(graph, ns) == Steps(graph, ns, 2 * NFile)
Reaching(graph, ns) == Upstream(graph, ns)[2 * NFile]
Distance(graph, ns, f) ==
    CHOOSE n \in 0..2 * NFile : /\ <<f, "file">> \in Upstream(graph, ns)[n]
                                /\ n > 0 => <<f, "file">> \notin Upstream(graph, ns)[n - 1]

Candidates == exists["after"]

\* Graph.Query from the seeds of the version; the nearer route stays, the one
\* before the change when they are as near. Its diagnostics become observations
\* or gaps.
Query(v, now, then) ==
    LET found == {f \in Candidates : <<f, "file">> \in Reaching(Graph(v), seeds[v])}
        route(f) == [version |-> v, distance |-> Distance(Graph(v), seeds[v], f)]
        nearer == {f \in found : f \in DOMAIN routes =>
                                    route(f).distance < routes[f].distance}
    IN
    /\ At(now)
    /\ routes' = [f \in DOMAIN routes \cup found |->
                    IF f \in nearer THEN route(f) ELSE routes[f]]
    /\ observed' = observed \cup outside[v] \cup (broken[v] \cap parsed[v])
    /\ gaps' = gaps \cup {[path |-> f, scope |-> "repository"] : f \in omitted[v]}
    /\ Goto(then)
    /\ UNCHANGED <<tests, parsed, omitted, outside, seeds, selected, uncertain>>

QueryBefore == Query("before", "query before", "query after")
QueryAfter == Query("after", "query after", "direct")

\* A changed file is affected, whatever could be read of it.
DirectChanges ==
    LET changed == {c.path : c \in changes} \cap exists["after"] IN
    /\ At("direct")
    /\ routes' = [f \in DOMAIN routes \cup changed |->
                    IF f \in changed THEN [version |-> "after", distance |-> 0] ELSE routes[f]]
    /\ Goto("gaps")
    /\ UNCHANGED <<tests, parsed, omitted, outside, seeds, gaps, selected, uncertain, observed>>

-----------------------------------------------------------------------------
(* The gaps.                                                               *)

\* Files of the Component in both versions, wherever the path has an owner.
SameComponent(f) ==
    UNION {{<<g, "file">> : g \in {g \in exists[v] : owner[v][g] = owner[v][f]}} : v \in Version}

Owned(f) == \A v \in Version : owner[v][f] # Nobody

\* Without named directories a gap may leave any affected file uncertain.
GapCandidates ==
    tests \cup (IF dirs THEN {} ELSE (parsed["before"] \cup parsed["after"]) \cap exists["after"])

\* boundGap: the candidates that the gap leaves uncertain. Beyond the budget, and
\* without an owner in some version, that is all of them.
Covered(gap) ==
    IF gap.scope = "repository" \/ ~Owned(gap.path) THEN GapCandidates
    ELSE {t \in GapCandidates : \E v \in Version :
             <<t, "file">> \in Reaching(Graph(v), SameComponent(gap.path))}

\* A gap that touches no candidate stays visible without making the answer partial.
BoundGaps ==
    /\ At("gaps")
    /\ uncertain' = UNION {Covered(gap) : gap \in gaps}
    /\ observed' = observed \cup {gap.path : gap \in {gap \in gaps :
                                Covered(gap) = {} /\ gap.scope # "repository" /\ Owned(gap.path)}}
    /\ Goto("tests")
    /\ UNCHANGED <<tests, parsed, omitted, outside, seeds, gaps, routes, selected>>

SelectTests ==
    /\ At("tests")
    /\ selected' = tests \cap DOMAIN routes
    /\ Goto("done")
    /\ UNCHANGED <<tests, parsed, omitted, outside, seeds, gaps, routes, uncertain, observed>>

-----------------------------------------------------------------------------
Blank ==
    /\ tests = {} /\ gaps = {} /\ routes = <<>> /\ selected = {}
    /\ uncertain = {} /\ observed = {}
    /\ parsed = [v \in Version |-> {}] /\ omitted = [v \in Version |-> {}]
    /\ outside = [v \in Version |-> {}] /\ seeds = [v \in Version |-> {}]

Change == [path : File, old : File, before : SUBSET (Symbol \cup {"top"}),
           after : SUBSET (Symbol \cup {"top"})]

\* A change is of a path that exists in some version; a rename has both names.
Possible(c) ==
    /\ c.path # c.old => c.path \in exists["after"] /\ c.old \in exists["before"]
    /\ c.path \in exists["after"] \/ c.old \in exists["before"]

Init ==
    /\ stage = "start" /\ Blank
    /\ exists \in [Version -> SUBSET File]
    /\ kind \in [File -> {"source", "test", "config", "asset"}]
    /\ imports \in [Version -> SUBSET [from : File, to : File, of : Symbol \cup {"module"}]]
    /\ calls \in [Version -> SUBSET [file : File, from : Symbol, to : Symbol]]
    /\ \A v \in Version : \A e \in imports[v] : {e.from, e.to} \subseteq exists[v]
    /\ owner \in [Version -> [File -> 0..NComponent]]
    /\ broken \in [Version -> SUBSET File]
    /\ changes \in SUBSET {c \in Change : Possible(c)}
    /\ dirs \in BOOLEAN /\ budget \in 1..NFile
    /\ listed \in SUBSET File /\ shared \in SUBSET File /\ support \in SUBSET File

Next ==
    \/ DiscoverTests \/ NoChange \/ BuildBefore \/ BuildAfter \/ CollectSeeds
    \/ QueryBefore \/ QueryAfter \/ DirectChanges \/ BoundGaps \/ SelectTests

Spec == Init /\ [][Next]_vars

-----------------------------------------------------------------------------
(* Properties.                                                             *)

\* All of a version, as if everything could be read.
Whole(v) == Edges(v, exists[v])

\* What really changed: the edited symbols and the module they are part of, the
\* whole file otherwise, and all of a Component whose configuration changed.
Changed(v) ==
    UNION {LET f == Side(c, v) IN
           IF f \notin exists[v] THEN {}
           ELSE IF kind[f] = "config" /\ owner[v][f] # Nobody
                THEN {<<g, "file">> : g \in {g \in exists[v] : owner[v][g] = owner[v][f]}}
           ELSE IF WholeFile(c, f) \/ "top" \in Edited(c, v) THEN {<<f, "file">>}
           ELSE {<<f, x>> : x \in Edited(c, v) \cup (IF Edited(c, v) = {} THEN {} ELSE {"module"})}
           : c \in changes}

DependsOn(v, t) == Steps({<<e.to, e.from>> : e \in imports[v]}, {t}, NFile)[NFile]

\* No test is passed over in silence. A candidate that depends, before the change
\* or after it, on something that changed is selected, or is left uncertain by a
\* gap, or depends on a file that is reported as outside the scope or unreadable.
SelectionComplete ==
    stage = "done" =>
        \A v \in Version : \A t \in tests \cap exists[v] :
            <<t, "file">> \in Reaching(Whole(v), Changed(v)) =>
                \/ t \in selected \cup uncertain
                \/ DependsOn(v, t) \cap observed # {}

\* No route is invented. What is called affected was changed itself or depends,
\* in the version the route names and over as many steps, on a change of that
\* version; a dependency that began only in one of them is not continued in the
\* other.
SelectionSound ==
    \A f \in DOMAIN routes :
        LET v == routes[f].version IN
        \/ f \in {c.path : c \in changes}
        \/ <<f, "file">> \in Upstream(Whole(v), seeds[v])[routes[f].distance]
=============================================================================
