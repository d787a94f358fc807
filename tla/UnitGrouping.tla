---------------------------- MODULE UnitGrouping ----------------------------
(***************************************************************************)
(* The grouping of changed fragments into units of review                  *)
(* (toolkit/go/internal/units, Group): fragments of one declaration, then  *)
(* of related ones, are joined as far as the limits of a unit allow; then, *)
(* under a limit on their number, those of a file and of a namespace.      *)
(*                                                                         *)
(* Fragments are numbers: their order is the order of their identities.    *)
(***************************************************************************)
EXTENDS Integers, Sequences, FiniteSets, SequencesExt, FiniteSetsExt

CONSTANTS NFragment, NPath, NOwner, NNamespace,
          MaxSize,    \* limits of a unit: MaxChangedLines and MaxDiffSize
          MaxFiles    \* and the files of a unit

Fragment == 1..NFragment
Namespace == 1..NNamespace      \* in the order of their keys
GraphNode == {"x", "y", "alias"}

VARIABLES
    path, size, kind,   \* of each fragment: "code", "import" or "unknown"
    owners,     \* the declarations each fragment edits, of either version
    position,   \* the line a fragment's declarations are at; 0 without any
    binds,      \* the graph nodes of each fragment
    facts,      \* [source, target, kind, touched]: dependencies and containment
    aliases,    \* the nodes that the node "alias" is another name of
    scopes,     \* [fragment -> [namespace -> depth]], for its namespaces
    heights,    \* how many ancestors a namespace has
    fileOnly, maxUnits

input == <<path, size, kind, owners, position, binds, facts, aliases, scopes,
           heights, fileOnly, maxUnits>>

VARIABLES
    stage,
    relations,  \* in the order they are tried
    groups,     \* the sequence of the groups so far; {} where one was merged away
    at,         \* the owner, relation or import to look at next
    loose,      \* imports that no group took
    depths, generation, queue, merges   \* of the namespace stage

work == <<relations, groups, at, loose>>
namespaces == <<depths, generation, queue, merges>>
vars == <<input, stage, work, namespaces>>

-----------------------------------------------------------------------------
(* Limits.                                                                 *)

SizeOf(ids) == FoldSet(LAMBDA f, n : n + size[f], 0, ids)
Fits(ids) == Cardinality({path[f] : f \in ids}) <= MaxFiles /\ SizeOf(ids) <= MaxSize

Code == {f \in Fragment : kind[f] = "code"}
Imports == {f \in Fragment : kind[f] = "import"}
Unknown == {f \in Fragment : kind[f] = "unknown"}

-----------------------------------------------------------------------------
(* relations: which fragments a fact of the graph relates, through the     *)
(* names that its target is another name of.                               *)

Follow(node) == {node} \cup (IF node = "alias" THEN aliases ELSE {})

Related ==
    UNION {{[from |-> f, to |-> t, kind |-> fact.kind, touched |-> fact.touched] :
               <<f, t>> \in {p \in Fragment \X Fragment :
                    /\ p[1] # p[2] /\ fact.source \in binds[p[1]]
                    /\ binds[p[2]] \cap Follow(fact.target) # {}}} : fact \in facts}

Strength(e) ==
    IF e.kind = "contains" THEN 0 ELSE IF {e.from, e.to} \cap Imports # {} THEN 2 ELSE 1

Before(a, b) ==
    LET x == <<Strength(a), IF a.touched THEN 0 ELSE 1, a.from, a.to, IF a.kind = "calls" THEN 0 ELSE 1>>
        y == <<Strength(b), IF b.touched THEN 0 ELSE 1, b.from, b.to, IF b.kind = "calls" THEN 0 ELSE 1>>
    IN \E k \in 1..5 : x[k] < y[k] /\ \A j \in 1..k - 1 : x[j] = y[j]

Relate ==
    /\ stage = "relate"
    /\ relations' = SetToSortSeq(Related, Before)
    /\ groups' = IF fileOnly
                 THEN SelectSeq([p \in 1..NPath |-> {f \in Fragment : path[f] = p}], LAMBDA g : g # {})
                 ELSE [k \in 1..Cardinality(Code) |-> {SetToSortSeq(Code, <)[k]}]
    /\ stage' = IF fileOnly THEN "done" ELSE "owners"
    /\ at' = 1
    /\ UNCHANGED <<input, loose, namespaces>>

-----------------------------------------------------------------------------
(* The first two groups, in their order, that belong together and fit.     *)

Pairs(Together(_, _)) ==
    {<<i, j>> \in (1..Len(groups)) \X (1..Len(groups)) :
        i < j /\ Together(groups[i], groups[j]) /\ Fits(groups[i] \cup groups[j])}
First(pairs) ==
    CHOOSE p \in pairs : \A q \in pairs : p[1] < q[1] \/ (p[1] = q[1] /\ p[2] <= q[2])
Joined(p) == RemoveAt([groups EXCEPT ![p[1]] = @ \cup groups[p[2]]], p[2])

\* Join the first pair, or go on to the next owner or relation when none is left.
\* What did not fit together before does not fit later: groups only grow.
Exhaust(Together(_, _)) ==
    LET pairs == Pairs(Together) IN
    /\ groups' = IF pairs = {} THEN groups ELSE Joined(First(pairs))
    /\ at' = IF pairs = {} THEN at + 1 ELSE at
    /\ UNCHANGED <<input, stage, relations, loose, namespaces>>

Goto(s) == stage' = s /\ at' = 1 /\ UNCHANGED <<input, relations, namespaces>>

\* mergeOwners: edits of the same declaration of the same version. Files do not
\* share declarations, and localGroups goes through them one after the other.
JoinOwner ==
    /\ stage = "owners" /\ at <= NOwner
    /\ Exhaust(LAMBDA g, h : (\E f \in g : at \in owners[f]) /\ (\E f \in h : at \in owners[f]))

OwnersDone ==
    /\ stage = "owners" /\ at > NOwner
    /\ Goto("local") /\ UNCHANGED <<groups, loose>>

\* Mutant: a number of units that is low enough stops the merging.
AcceptedAboveLimit(e) ==
    /\ Strength(e) < 2 /\ ((path[e.from] = path[e.to]) <=> (stage = "local"))
    /\ maxUnits = 0 \/ Len(groups) > maxUnits

\* mergeEdges, first inside the files and then between them.
Accepted(e) == Strength(e) < 2 /\ ((path[e.from] = path[e.to]) <=> (stage = "local"))

JoinRelated ==
    /\ stage \in {"local", "relations"} /\ at <= Len(relations)
    /\ LET e == relations[at] IN
       Exhaust(LAMBDA g, h : /\ Accepted(e)
                             /\ \/ e.from \in g /\ e.to \in h
                                \/ e.from \in h /\ e.to \in g)

LocalDone ==
    /\ stage = "local" /\ at > Len(relations)
    /\ Goto("imports") /\ UNCHANGED <<groups, loose>>

\* Mutant: an import joins the groups of its file whether they use it or have room.
TakersAny(id) == {k \in 1..Len(groups) : \E f \in groups[k] : path[f] = path[id]}

\* An import joins every group of its file that is related to it and has room.
Takers(id) ==
    {k \in 1..Len(groups) :
        /\ \E f \in groups[k] : path[f] = path[id]
        /\ \E e \in ToSet(relations) : e.to = id /\ e.from \in groups[k]
        /\ Fits(groups[k] \cup {id})}

AttachImport ==
    LET id == SetToSortSeq(Imports, <)[at] IN
    /\ stage = "imports" /\ at <= Cardinality(Imports)
    /\ groups' = [k \in 1..Len(groups) |->
                    IF k \in Takers(id) THEN groups[k] \cup {id} ELSE groups[k]]
    /\ loose' = IF Takers(id) = {} THEN loose \cup {id} ELSE loose
    /\ at' = at + 1
    /\ UNCHANGED <<input, stage, relations, namespaces>>

Smaller(g, h) ==
    LET a == SetToSortSeq(g, <) b == SetToSortSeq(h, <) IN
    \/ IsPrefix(a, b)
    \/ \E k \in 1..Min({Len(a), Len(b)}) : a[k] < b[k] /\ \A j \in 1..k - 1 : a[j] = b[j]

\* What no group took stays together per file, whatever its size; then the groups
\* are put into the order of their fragments.
Unbound ==
    {g \in UNION {{{f \in loose : path[f] = p}, {f \in Unknown : path[f] = p}} : p \in 1..NPath} :
        g # {}}
GroupUnbound ==
    /\ stage = "imports" /\ at > Cardinality(Imports)
    /\ groups' = SortSeq(groups \o SetToSeq(Unbound), Smaller)
    /\ Goto("relations") /\ UNCHANGED loose

AfterRelations ==
    /\ stage = "relations" /\ at > Len(relations)
    /\ Goto(IF maxUnits > 0 THEN "files" ELSE "done")
    /\ UNCHANGED <<groups, loose>>

-----------------------------------------------------------------------------
(* coalesceFiles: the nearest two groups of one file that fit.             *)

Far == 1000
Distance(g, h) ==
    Min({Far} \cup {IF position[p[1]] < position[p[2]] THEN position[p[2]] - position[p[1]]
                                                       ELSE position[p[1]] - position[p[2]] :
            p \in {p \in g \X h : path[p[1]] = path[p[2]] /\ 0 \notin {position[p[1]], position[p[2]]}}})

SameFile == Pairs(LAMBDA g, h : {path[f] : f \in g} \cap {path[f] : f \in h} # {})
Nearest ==
    LET nearness(p) == Distance(groups[p[1]], groups[p[2]])
    IN First({p \in SameFile : \A q \in SameFile : nearness(p) <= nearness(q)})

JoinFile ==
    /\ stage = "files" /\ SameFile # {}
    /\ groups' = Joined(Nearest)
    /\ UNCHANGED <<input, stage, relations, at, loose, namespaces>>

-----------------------------------------------------------------------------
(* mergeNamespaceGroups: a queue of candidates, each for two slots.        *)

Common(gs) ==
    [n \in {n \in Namespace : \A f \in gs : n \in DOMAIN scopes[f]} |->
        Max({scopes[f][n] : f \in gs})]
Shared(d, e) == DOMAIN d \cap DOMAIN e
Depth(d, e, n) == Max({d[n], e[n]})

\* The narrowest namespace: the highest, then the nearest, then by its key.
Preferred(d, e) ==
    CHOOSE n \in Shared(d, e) : \A m \in Shared(d, e) \ {n} :
        \/ heights[n] > heights[m]
        \/ heights[n] = heights[m] /\ Depth(d, e, n) < Depth(d, e, m)
        \/ heights[n] = heights[m] /\ Depth(d, e, n) = Depth(d, e, m) /\ n < m

Candidates(gs, ds, gens, slots) ==
    {[left |-> p[1], right |-> p[2], gens |-> <<gens[p[1]], gens[p[2]]>>,
      key |-> Preferred(ds[p[1]], ds[p[2]]),
      depth |-> Depth(ds[p[1]], ds[p[2]], Preferred(ds[p[1]], ds[p[2]]))] :
        p \in {p \in (1..Len(gs)) \X (1..Len(gs)) :
                /\ p[1] < p[2] /\ {p[1], p[2]} \cap slots # {}
                /\ gs[p[1]] # {} /\ gs[p[2]] # {}
                /\ Shared(ds[p[1]], ds[p[2]]) # {} /\ Fits(gs[p[1]] \cup gs[p[2]])}}

FilesDone ==
    /\ stage = "files" /\ SameFile = {}
    /\ IF Len(groups) <= maxUnits
       THEN Goto("done")
       ELSE LET none == [k \in 1..Len(groups) |-> 0]
                common == [k \in 1..Len(groups) |-> Common(groups[k])]
            IN /\ stage' = "namespaces"
               /\ depths' = common /\ generation' = none
               /\ queue' = Candidates(groups, common, none, 1..Len(groups))
               /\ UNCHANGED <<input, relations, at, merges>>
    /\ UNCHANGED <<groups, loose>>

Better(a, b) ==
    LET x == <<-heights[a.key], a.depth, a.left, a.right>>
        y == <<-heights[b.key], b.depth, b.left, b.right>>
    IN \E k \in 1..4 : x[k] < y[k] /\ \A j \in 1..k - 1 : x[j] = y[j]
Head1 == CHOOSE c \in queue : \A d \in queue \ {c} : ~Better(d, c)

\* Mutant: candidates of what a group was before it grew are still taken.
CurrentSlots(c) == groups[c.left] # {} /\ groups[c.right] # {}

Current(c) ==
    /\ groups[c.left] # {} /\ groups[c.right] # {}
    /\ c.gens = <<generation[c.left], generation[c.right]>>

Remaining == Cardinality({k \in 1..Len(groups) : groups[k] # {}})
Merging == stage = "namespaces" /\ Remaining > maxUnits /\ queue # {}

DropOutdated ==
    /\ Merging /\ ~Current(Head1)
    /\ queue' = queue \ {Head1}
    /\ UNCHANGED <<input, stage, work, depths, generation, merges>>

\* Only the merged group gets new candidates; all others are kept.
JoinNamespace ==
    LET c == Head1
        gs == [groups EXCEPT ![c.left] = @ \cup groups[c.right], ![c.right] = {}]
        both == [n \in Shared(depths[c.left], depths[c.right]) |->
                    Depth(depths[c.left], depths[c.right], n)]
        ds == [depths EXCEPT ![c.left] = both, ![c.right] = <<>>]
        gens == [generation EXCEPT ![c.left] = @ + 1]
    IN
    /\ Merging /\ Current(c)
    /\ groups' = gs /\ depths' = ds /\ generation' = gens
    /\ merges' = Append(merges, <<c.left, c.right, c.key>>)
    /\ queue' = (queue \ {c}) \cup Candidates(gs, ds, gens, {c.left})
    /\ UNCHANGED <<input, stage, relations, at, loose>>

NamespacesDone ==
    /\ stage = "namespaces" /\ ~Merging
    /\ groups' = SelectSeq(groups, LAMBDA g : g # {})
    /\ Goto("done") /\ UNCHANGED loose

-----------------------------------------------------------------------------
Blank ==
    /\ relations = <<>> /\ groups = <<>> /\ at = 1 /\ loose = {}
    /\ depths = <<>> /\ generation = <<>> /\ queue = {} /\ merges = <<>>

Init ==
    /\ stage = "relate" /\ Blank
    /\ path \in [Fragment -> 1..NPath] /\ size \in [Fragment -> 1..MaxSize + 1]
    /\ kind \in [Fragment -> {"code", "import", "unknown"}]
    /\ owners \in [Fragment -> SUBSET (1..NOwner)]
    /\ \A f, g \in Fragment : owners[f] \cap owners[g] # {} => path[f] = path[g]
    /\ \A f \in Fragment : kind[f] # "code" => owners[f] = {}
    /\ position \in [Fragment -> 0..NFragment]
    /\ binds \in [Fragment -> SUBSET GraphNode]
    /\ \A f \in Unknown : binds[f] = {} /\ position[f] = 0
    /\ facts \in SUBSET [source : GraphNode, target : GraphNode,
                         kind : {"calls", "contains"}, touched : BOOLEAN]
    /\ aliases \in SUBSET (GraphNode \ {"alias"})
    /\ scopes \in [Fragment -> UNION {[ns -> 0..2] : ns \in SUBSET Namespace}]
    /\ heights \in [Namespace -> 0..2]
    /\ fileOnly \in BOOLEAN /\ maxUnits \in 0..NFragment

Next ==
    \/ Relate \/ JoinOwner \/ OwnersDone \/ JoinRelated \/ LocalDone
    \/ AttachImport \/ GroupUnbound \/ AfterRelations \/ JoinFile \/ FilesDone
    \/ DropOutdated \/ JoinNamespace \/ NamespacesDone

Spec == Init /\ [][Next]_vars

-----------------------------------------------------------------------------
(* Properties.                                                             *)

Units == ToSet(groups) \ {{}}

\* No edit is lost and none is counted twice: at the end every fragment is in a
\* unit, and only an import is in several. A unit over the limits was not made by
\* a merge: it is one fragment, or what was left of one file without evidence.
UnitsCover ==
    stage = "done" =>
        /\ UNION Units = Fragment
        /\ \A f \in Code \cup Unknown : Cardinality({g \in Units : f \in g}) = 1
        /\ fileOnly \/ \A g \in Units : Fits(g) \/ Cardinality(g) = 1 \/ g \in Unbound

\* A dependency is cut for the limits of a unit only, never because the units are
\* few enough: two units that a relation of code joins do not fit together
\* ("A count ceiling must not cut a supported dependency chain").
RelationsExhausted ==
    stage = "done" /\ ~fileOnly =>
        \A e \in ToSet(relations) : \A g, h \in Units :
            {e.from, e.to} \subseteq Code /\ e.from \in g /\ e.to \in h /\ g # h
                => ~Fits(g \cup h)

\* What an exhaustive scan of the groups there are would choose.
Eligible ==
    {p \in (1..Len(groups)) \X (1..Len(groups)) :
        /\ p[1] < p[2] /\ groups[p[1]] # {} /\ groups[p[2]] # {}
        /\ Fits(groups[p[1]] \cup groups[p[2]])
        /\ DOMAIN Common(groups[p[1]] \cup groups[p[2]]) # {}}
Scanned ==
    {<<p[1], p[2], n>> : <<p, n>> \in
        {<<p, n>> \in Eligible \X Namespace : n \in DOMAIN Common(groups[p[1]] \cup groups[p[2]])}}
ScanRank(c) == <<-heights[c[3]], Common(groups[c[1]] \cup groups[c[2]])[c[3]], c[1], c[2], c[3]>>

\* The queue forgets nothing and keeps nothing outdated: every merge is the one
\* that a new scan over all pairs of groups would choose, for the highest and
\* nearest namespace ("Stable slots preserve the exhaustive scan's pair order").
NamespaceChoiceIsBest ==
    [][merges' # merges =>
        LET chosen == merges'[Len(merges')] IN
        /\ chosen \in Scanned
        /\ \A c \in Scanned \ {chosen} :
              \E k \in 1..5 : /\ ScanRank(chosen)[k] < ScanRank(c)[k]
                              /\ \A j \in 1..k - 1 : ScanRank(chosen)[j] = ScanRank(c)[j]]_vars
=============================================================================
