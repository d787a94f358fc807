------------------------------ MODULE PathQuery ------------------------------
(***************************************************************************)
(* Graph.Query (toolkit/go/internal/codegraph/query.go): from the changed  *)
(* elements backwards to everything that depends on them, by the strongest *)
(* evidence first and then by the shortest way, in three searches.         *)
(*                                                                         *)
(* Nodes are numbers: their order is the order of their names.             *)
(***************************************************************************)
EXTENDS Integers, Sequences, FiniteSets, SequencesExt

CONSTANT NNode

Node == 1..NNode
Kind == {"contains", "calls"}   \* kinds of no length (contains, package_member,
                                \* reexports), of length 1 (imports, calls, ...)
Rank == 0..2                    \* exact, strong, weak

VARIABLES
    edges,      \* what AddRelation has put into the graph
    owner,      \* the file that a symbol or binding is in; 0 for other nodes
    seeds,      \* what the query starts from
    candidates, \* what it asks for
    rank,       \* the search under way; 3 when the query has returned
    distances,  \* <<distance, steps>> of what this search has reached
    via,        \* the edge by which it was reached, on the way to a seed
    queue,      \* routeQueue
    paths       \* result.Paths

graph == <<edges, owner, seeds, candidates>>
vars == <<graph, rank, distances, via, queue, paths>>

\* AddRelation keeps no edge from a node to itself, and no edge twice.
Edge == {e \in [from : Node, to : Node, kind : Kind, rank : Rank] : e.from # e.to}

EdgeLength(e) == IF e.kind = "contains" THEN 0 ELSE 1     \* dependencyStep
Incoming(n) == {e \in edges : e.to = n}

\* A seed that is a symbol must not widen to all of its file.
SeedFiles == {owner[n] : n \in seeds} \ {0}
Followed(e) == e.rank <= rank /\ ~(e.kind = "contains" /\ e.from \in SeedFiles)

Closer(a, b) == a[1] < b[1] \/ (a[1] = b[1] /\ a[2] < b[2])

-----------------------------------------------------------------------------
(* One search.                                                             *)

Begin ==
    /\ rank < 3 /\ distances = <<>>
    /\ distances' = [n \in seeds |-> <<0, 0>>]
    /\ via' = [n \in seeds |-> {}]
    /\ queue' = {<<n, 0, 0>> : n \in seeds}
    /\ UNCHANGED <<graph, rank, paths>>

\* heap.Pop: the nearest, by distance, then by steps, then by name.
Least == CHOOSE x \in queue : \A y \in queue \ {x} :
            \/ Closer(<<x[2], x[3]>>, <<y[2], y[3]>>)
            \/ <<x[2], x[3]>> = <<y[2], y[3]>> /\ x[1] < y[1]

\* The edges into a node are relaxed in the order of their sources, the strong
\* ones first; what a better edge replaces at once leaves no trace but a step in
\* the queue that is outdated when it is popped.
Step(e) == <<distances[e.to][1] + EdgeLength(e), distances[e.to][2] + 1>>
Preferred(n, from) ==
    LET usable == {e \in Incoming(n) : e.from = from /\ Followed(e)}
    IN {e \in usable : \A o \in usable \ {e} :
            \/ Closer(Step(e), Step(o))
            \/ (Step(e) = Step(o) /\ e.rank < o.rank)}
Improved(n) ==
    {e \in UNION {Preferred(n, from) : from \in Node} :
        e.from \in DOMAIN distances => Closer(Step(e), distances[e.from])}

Visit ==
    LET n == Least[1] better == Improved(n) IN
    /\ rank < 3 /\ queue # {}
    /\ distances[n] = <<Least[2], Least[3]>>
    /\ distances' = [x \in {e.from : e \in better} |->
                        Step(CHOOSE e \in better : e.from = x)] @@ distances
    /\ via' = [x \in {e.from : e \in better} |-> {e \in better : e.from = x}] @@ via
    /\ queue' = (queue \ {Least}) \cup {<<e.from, Step(e)[1], Step(e)[2]>> : e \in better}
    /\ UNCHANGED <<graph, rank, paths>>

Outdated ==
    /\ rank < 3 /\ queue # {}
    /\ distances[Least[1]] # <<Least[2], Least[3]>>
    /\ queue' = queue \ {Least}
    /\ UNCHANGED <<graph, rank, distances, via, paths>>

\* The way back to a seed, edge by edge.
Route(target) ==
    LET route[n \in Node, left \in 0..NNode] ==
            IF via[n] = {} \/ left = 0 THEN <<>>
            ELSE LET e == CHOOSE e \in via[n] : TRUE
                 IN <<e>> \o route[e.to, left - 1]
    IN route[target, NNode]

Strongest(route) == FoldLeft(LAMBDA r, e : IF e.rank > r THEN e.rank ELSE r, 0, route)

Path(target) ==
    [relations |-> Route(target), distance |-> distances[target][1],
     rank |-> Strongest(Route(target))]

\* Mutant: a later search replaces the path of an earlier one.
WantedAgain == candidates \cap DOMAIN distances

\* Only what no stricter search has found.
Wanted == (candidates \cap DOMAIN distances) \ DOMAIN paths

Collect ==
    /\ rank < 3 /\ distances # <<>> /\ queue = {}
    /\ paths' = [t \in Wanted |-> Path(t)] @@ paths
    /\ rank' = rank + 1
    /\ distances' = <<>> /\ via' = <<>>
    /\ UNCHANGED <<graph, queue>>

-----------------------------------------------------------------------------
Blank == distances = <<>> /\ via = <<>> /\ queue = {} /\ paths = <<>>

Init ==
    /\ edges \in SUBSET Edge
    /\ owner \in [Node -> Node \cup {0}]
    /\ seeds \in SUBSET Node \ {{}} /\ candidates \in SUBSET Node
    /\ rank = 0 /\ Blank

Next == Begin \/ Visit \/ Outdated \/ Collect

Spec == Init /\ [][Next]_vars

-----------------------------------------------------------------------------
(* Properties.                                                             *)

\* Every chain of usable edges from a node to a seed that visits no node twice.
Chains(target) ==
    LET usable == {e \in edges : ~(e.kind = "contains" /\ e.from \in SeedFiles)}
        from[n \in Node, unused \in SUBSET Node] ==
            (IF n \in seeds THEN {<<>>} ELSE {}) \cup
            UNION {{<<e>> \o chain : chain \in from[e.to, unused \ {n}]} :
                       e \in {e \in usable : e.from = n /\ e.to \in unused \ {n}}}
    IN from[target, Node]

Distance(chain) == FoldLeft(LAMBDA d, e : d + EdgeLength(e), 0, chain)
Weight(chain) == <<Strongest(chain), Distance(chain), Len(chain)>>
Lighter(a, b) ==
    \E i \in 1..3 : a[i] < b[i] /\ \A j \in 1..(i - 1) : a[j] = b[j]

\* The answer is the best there is. A candidate has a path just when it depends
\* on a seed at all; its path is a real chain of edges; and no other chain has
\* stronger evidence, or the same and is shorter, or as short in fewer steps,
\* also where the way to it by stronger evidence alone is longer.
PathsAreBest ==
    rank = 3 => \A t \in candidates :
        LET chains == Chains(t) IN
        /\ t \in DOMAIN paths <=> chains # {}
        /\ t \in DOMAIN paths =>
              /\ paths[t].relations \in chains
              /\ <<paths[t].rank, paths[t].distance>> =
                    <<Weight(paths[t].relations)[1], Weight(paths[t].relations)[2]>>
              /\ \A chain \in chains : ~Lighter(Weight(chain), Weight(paths[t].relations))
=============================================================================
