-------------------------- MODULE MCComputations ---------------------------
(***************************************************************************)
(* The sequential computations of the Go toolkit, side by side: the workset*)
(* of a code graph, the query, the impact analysis over them, the division *)
(* of a patch into fragments, their grouping into units, and the planning  *)
(* of the checks.  Each behaviour is one of them from an input to its end; *)
(* `part' says which.  A variable that several of them name is declared    *)
(* once; those that a part does not use stay as they were.                 *)
(***************************************************************************)
EXTENDS MCImpactAnalysis, MCSourceWorkset, CheckPlanning

CONSTANTS NNode, MaxLine, Context, NFragment, NPath, NOwner, NNamespace, MaxSize,
          top, left, right, topFile, leftFile, rightFile, link

VARIABLES
    part,
    step,  \* of more than one
    edges, candidates, rank, distances, via, paths,
    hunks, elements, hunk, i, oldLine, newLine, out,
    path, size, owners, position, binds, facts, aliases, scopes, heights,
    fileOnly, maxUnits, relations, groups, at, loose, generation, merges

Q == INSTANCE MCPathQuery
E == INSTANCE MCEditSplit WITH stage <- step
G == INSTANCE MCUnitGrouping WITH stage <- step

\* A root, two Components below it, a file in each and a link; asked for are no
\* files, their own, a set with the link, and a file of another Component.
ThreeComponents == {top, left, right}
FourPaths == {topFile, leftFile, rightFile, link}
Files == {topFile, leftFile, rightFile}
OwnerByPath ==
    [p \in FourPaths |-> CASE p = topFile -> top [] p = rightFile -> right [] OTHER -> left]
AskedByComponent ==
    [c \in ThreeComponents |->
        CASE c = top -> {{}, {topFile}, {topFile, leftFile}}
          [] c = left -> {{}, {leftFile}, {leftFile, link}, {rightFile}}
          [] OTHER -> {{}, {rightFile}}]

worksetOnly == <<targets, package, content, status, roots, next, nextSubmission, submitted,
                 dependencies, visited, diagnostics, adds>>
queryOnly == <<edges, candidates, rank, distances, via, paths>>
impactOnly == <<exists, calls, broken, changes, dirs, listed, shared, support,
                budget, stage, tests, parsed, omitted, outside, gaps, routes,
                selected, uncertain, observed>>
editsOnly == <<hunks, elements, hunk, i, oldLine, newLine, out>>
unitsOnly == <<path, size, owners, position, binds, facts, aliases, scopes,
               heights, fileOnly, maxUnits, relations, groups, at, loose,
               generation, merges>>

\* Nothing was added.
WithoutWorkset ==
    targets = 0 /\ package = 0 /\ content = 0 /\ status = "idle" /\ roots = {} /\ next = 0
    /\ nextSubmission = 0 /\ submitted = 0 /\ dependencies = 0 /\ visited = {}
    /\ diagnostics = {} /\ adds = 0
WithoutQuery ==
    edges = 0 /\ candidates = 0 /\ rank = 0 /\ distances = 0 /\ via = 0
    /\ paths = 0
\* Before its start: no routes, and nothing is said of a plan that is empty.
WithoutImpact ==
    exists = 0 /\ calls = 0 /\ broken = 0 /\ changes = 0 /\ dirs = 0
    /\ listed = 0 /\ shared = 0 /\ support = 0 /\ budget = 0 /\ stage = "none" /\ tests = 0
    /\ parsed = 0 /\ omitted = 0 /\ outside = 0 /\ gaps = 0 /\ routes = <<>>
    /\ selected = 0 /\ uncertain = 0 /\ observed = 0
WithoutEdits ==
    hunks = 0 /\ elements = 0 /\ hunk = 0 /\ i = 0 /\ oldLine = 0
    /\ newLine = 0 /\ out = 0
WithoutUnits ==
    path = 0 /\ size = 0 /\ owners = 0 /\ position = 0 /\ binds = 0
    /\ facts = 0 /\ aliases = 0 /\ scopes = 0 /\ heights = 0 /\ fileOnly = 0
    /\ maxUnits = 0 /\ relations = 0 /\ groups = 0 /\ at = 0 /\ loose = 0
    /\ generation = 0 /\ merges = 0
WithoutPlan ==
    check = 0 /\ contract = 0 /\ request = 0 /\ pending = <<>>
    /\ plan = [c \in Component |-> NoCheck]

ComputationInit ==
    \/ /\ part = "workset" /\ WorksetMCInit
       /\ WithoutQuery /\ WithoutImpact /\ WithoutEdits /\ WithoutUnits /\ WithoutPlan
       /\ imports = 0 /\ kind = 0 /\ owner = 0 /\ seeds = 0 /\ step = 0
    \/ /\ part = "query" /\ Q!MCInit
       /\ WithoutWorkset /\ WithoutImpact /\ WithoutEdits /\ WithoutUnits /\ WithoutPlan
       /\ imports = 0 /\ kind = 0 /\ depths = 0 /\ step = 0
    \/ /\ part = "impact" /\ MCInit
       /\ WithoutWorkset /\ WithoutQuery /\ WithoutEdits /\ WithoutUnits /\ WithoutPlan
       /\ queue = 0 /\ depths = 0 /\ step = 0
    \/ /\ part = "edits" /\ E!MCInit
       /\ WithoutWorkset /\ WithoutQuery /\ WithoutImpact /\ WithoutUnits /\ WithoutPlan
       /\ imports = 0 /\ kind = 0 /\ queue = 0 /\ depths = 0 /\ owner = 0 /\ seeds = 0
    \/ /\ part = "units" /\ G!MCInit
       /\ WithoutWorkset /\ WithoutQuery /\ WithoutImpact /\ WithoutEdits /\ WithoutPlan
       /\ imports = 0 /\ owner = 0 /\ seeds = 0
    \/ /\ part = "plan" /\ PlanInit /\ Len(pending) = 3
       /\ WithoutWorkset /\ WithoutQuery /\ WithoutImpact /\ WithoutEdits /\ WithoutUnits
       /\ imports = 0 /\ kind = 0 /\ queue = 0 /\ depths = 0 /\ owner = 0 /\ seeds = 0 /\ step = 0

ComputationNext ==
    \/ /\ part = "workset" /\ WorksetMCNext
       /\ UNCHANGED <<part, queryOnly, impactOnly, editsOnly, unitsOnly, planVars,
                   imports, kind, owner, seeds, step>>
    \/ /\ part = "query" /\ Q!Next
       /\ UNCHANGED <<part, worksetOnly, impactOnly, editsOnly, unitsOnly, planVars,
                   imports, kind, depths, step>>
    \/ /\ part = "impact" /\ Next
       /\ UNCHANGED <<part, worksetOnly, queryOnly, editsOnly, unitsOnly, planVars,
                   queue, depths, step>>
    \/ /\ part = "edits" /\ E!Next
       /\ UNCHANGED <<part, worksetOnly, queryOnly, impactOnly, unitsOnly, planVars,
                   imports, kind, queue, depths, owner, seeds>>
    \/ /\ part = "units" /\ G!Next
       /\ UNCHANGED <<part, worksetOnly, queryOnly, impactOnly, editsOnly, planVars,
                   imports, owner, seeds>>
    \/ /\ part = "plan" /\ PlanNext
       /\ UNCHANGED <<part, worksetOnly, queryOnly, impactOnly, editsOnly, unitsOnly,
                   imports, kind, queue, depths, owner, seeds, step>>

computationVars ==
    <<part, imports, kind, queue, depths, owner, seeds, step,
      worksetOnly, queryOnly, impactOnly, editsOnly, unitsOnly, planVars>>
ComputationSpec == ComputationInit /\ [][ComputationNext]_computationVars

-----------------------------------------------------------------------------
(* Properties: those of the instances, each of its part.                   *)

\* A query finds, for every candidate that depends on a seed, the path of the
\* strongest evidence and of those the shortest (query.go, Query).
PathsAreBest == part = "query" => Q!PathsAreBest

\* Every edited line is in one fragment, with its declaration (units, splitChange).
EditsOwnedOnce == part = "edits" => E!EditsOwnedOnce

\* Every fragment is in a unit, code in just one, within the limits (units.Group).
UnitsCover == part = "units" => G!UnitsCover

\* A dependency is cut only where the limits of a unit cut it (mergeEdges).
RelationsExhausted == part = "units" => G!RelationsExhausted

\* Every merge by namespace is the one an exhaustive scan would choose
\* (mergeNamespaceGroups).  Other parts do not touch what it is about.
NamespaceChoiceIsBest == G!NamespaceChoiceIsBest
=============================================================================
