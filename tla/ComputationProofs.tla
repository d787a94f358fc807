------------------------- MODULE ComputationProofs -------------------------
(***************************************************************************)
(* What three of the sequential computations are worth.                    *)
(*                                                                         *)
(* The selection of tests, for any repository, change and budget: no route *)
(* is made up, and no test is passed over in silence.                      *)
(* A way from a test to a change leads over files that import each other.  *)
(* The test is a root of both explorations, so all files on the way are    *)
(* parsed and the query finds it, or else one of them was omitted (and all *)
(* candidates are uncertain), was outside the scope, or could not be read  *)
(* (and it is observed).  A change whose symbols could not be told starts  *)
(* from its file, which whoever reaches a symbol of it reaches as well.    *)
(*                                                                         *)
(* The planning of checks, for any Components and requests.                *)
(*                                                                         *)
(* The workset, at the end, for any captured version, roots and limits.    *)
(***************************************************************************)
EXTENDS ImpactAnalysis, CheckPlanning, SourceWorkset, TLAPS, FiniteSetTheorems, WellFoundedInduction

-----------------------------------------------------------------------------
(* Steps over a graph.                                                     *)

\* Induction up to a bound, for a set of numbers.
LEMMA Climb ==
    ASSUME NEW N \in Nat, NEW S, 0 \in S, \A n \in 0..N : n # 0 /\ n - 1 \in S => n \in S
    PROVE  0..N \subseteq S
<1> DEFINE T == {n \in 0..N : n \notin S}
<1>1. SUFFICES ASSUME T # {} PROVE FALSE
  OBVIOUS
<1>2. T \subseteq Nat
  OBVIOUS
<1>3. PICK x \in T : \A y \in T : ~(<<y, x>> \in OpToRel(<, Nat))
  BY <1>1, <1>2, NatLessThanWellFounded, WFMin
<1>4. x \in 0..N /\ x \notin S /\ x # 0 /\ x - 1 \in Nat /\ x - 1 < x
  OBVIOUS
<1>5. <<x - 1, x>> \in OpToRel(<, Nat)
  BY <1>4 DEF OpToRel
<1>6. x - 1 \in S
  BY <1>3, <1>4, <1>5 DEF OpToRel
<1> QED BY <1>4, <1>6

\* There is a least number in any set of them.
LEMMA Least ==
    ASSUME NEW T, T \subseteq Nat, T # {}
    PROVE  \E x \in T : \A y \in T : x <= y
<1>1. PICK x \in T : \A y \in T : ~(<<y, x>> \in OpToRel(<, Nat))
  BY NatLessThanWellFounded, WFMin
<1>2. ASSUME NEW y \in T, ~(x <= y) PROVE FALSE
  <2>1. y \in Nat /\ x \in Nat /\ y < x
    BY <1>2
  <2>2. <<y, x>> \in OpToRel(<, Nat)
    BY <2>1 DEF OpToRel
  <2> QED BY <1>1, <2>2 DEF OpToRel
<1> QED BY <1>2

\* One more step over a graph.
Further(graph, last) == last \cup {e[1] : e \in {e \in graph : e[2] \in last}}

\* The recursion is what it says.
LEMMA StepsUnfolded ==
    ASSUME NEW graph, NEW ns, NEW bound \in Nat
    PROVE  Steps(graph, ns, bound) =
             [n \in 0..bound |-> IF n = 0 THEN ns
                                 ELSE Further(graph, Steps(graph, ns, bound)[n - 1])]
<1> DEFINE Is(f, m) == f = [n \in 0..m |-> IF n = 0 THEN ns ELSE Further(graph, f[n - 1])]
<1> DEFINE S == {m \in 0..bound : \E f : Is(f, m)}
<1>1. 0 \in S
  <2>1. Is([n \in 0..0 |-> ns], 0)
    OBVIOUS
  <2> HIDE DEF Is
  <2> QED BY <2>1
<1>2. ASSUME NEW m \in 0..bound, m # 0, m - 1 \in S PROVE m \in S
  <2>1. PICK f : Is(f, m - 1)
    BY <1>2
  <2> DEFINE g == [n \in 0..m |-> IF n = m THEN Further(graph, f[m - 1]) ELSE f[n]]
  <2>2. Is(g, m)
    <3>1. \A n \in 0..m : g[n] = IF n = 0 THEN ns ELSE Further(graph, g[n - 1])
      BY <1>2, <2>1
    <3> QED BY <3>1
  <2> QED BY <2>2
<1>3. bound \in S
  <2> HIDE DEF S
  <2> QED BY <1>1, <1>2, Climb
<1>4. \E f : Is(f, bound)
  BY <1>3
<1>5. Steps(graph, ns, bound) = CHOOSE f : Is(f, bound)
  BY DEF Steps, Further
<1> HIDE DEF Is
<1>6. Is(Steps(graph, ns, bound), bound)
  BY <1>4, <1>5
<1> QED BY <1>6 DEF Is

\* No step, and one more.
LEMMA StepsAre ==
    ASSUME NEW graph, NEW ns, NEW bound \in Nat
    PROVE  /\ Steps(graph, ns, bound)[0] = ns
           /\ \A n \in 1..bound : Steps(graph, ns, bound)[n] =
                  Further(graph, Steps(graph, ns, bound)[n - 1])
<1> DEFINE f == Steps(graph, ns, bound)
<1>1. f = [n \in 0..bound |-> IF n = 0 THEN ns ELSE Further(graph, f[n - 1])]
  BY StepsUnfolded
<1> HIDE DEF f
<1>2. f[0] = ns /\ \A n \in 1..bound : f[n] = Further(graph, f[n - 1])
  BY <1>1
<1> QED BY <1>2 DEF f

\* What is reached stays reached.
LEMMA StepsGrow ==
    ASSUME NEW graph, NEW ns, NEW bound \in Nat
    PROVE  \A n \in 0..bound : Steps(graph, ns, bound)[n] \subseteq Steps(graph, ns, bound)[bound]
<1> DEFINE f == Steps(graph, ns, bound)
           S == {n \in 0..bound : f[bound - n] \subseteq f[bound]}
<1>1. \A n \in 1..bound : f[n - 1] \subseteq f[n]
  BY StepsAre DEF Further
<1> HIDE DEF f
<1>2. 0 \in S
  OBVIOUS
<1>3. ASSUME NEW n \in 0..bound, n # 0, n - 1 \in S PROVE n \in S
  <2>1. bound - (n - 1) \in 1..bound /\ (bound - (n - 1)) - 1 = bound - n
    BY <1>3
  <2>2. f[bound - n] \subseteq f[bound - (n - 1)]
    BY <1>1, <2>1
  <2> QED BY <1>3, <2>2
<1>4. 0..bound \subseteq S
  <2> HIDE DEF S
  <2> QED BY <1>2, <1>3, Climb
<1>5. ASSUME NEW n \in 0..bound PROVE f[n] \subseteq f[bound]
  <2>1. bound - n \in 0..bound /\ bound - (bound - n) = n
    OBVIOUS
  <2>2. bound - n \in S
    BY <1>4, <2>1
  <2> QED BY <2>1, <2>2
<1> QED BY <1>5 DEF f

\* More edges reach more.
LEMMA StepsOfMore ==
    ASSUME NEW graph, NEW more, graph \subseteq more, NEW ns, NEW bound \in Nat
    PROVE  \A n \in 0..bound : Steps(graph, ns, bound)[n] \subseteq Steps(more, ns, bound)[n]
<1> DEFINE f == Steps(graph, ns, bound)
           g == Steps(more, ns, bound)
           S == {n \in 0..bound : f[n] \subseteq g[n]}
<1>1. /\ f[0] = ns /\ \A n \in 1..bound : f[n] = Further(graph, f[n - 1])
      /\ g[0] = ns /\ \A n \in 1..bound : g[n] = Further(more, g[n - 1])
  BY StepsAre
<1> HIDE DEF f, g
<1>2. 0 \in S
  BY <1>1
<1>3. ASSUME NEW n \in 0..bound, n # 0, n - 1 \in S PROVE n \in S
  <2>1. f[n - 1] \subseteq g[n - 1] /\ n \in 1..bound
    BY <1>3
  <2>2. Further(graph, f[n - 1]) \subseteq Further(more, g[n - 1])
    BY <2>1 DEF Further
  <2> QED BY <1>1, <2>1, <2>2
<1>4. 0..bound \subseteq S
  <2> HIDE DEF S
  <2> QED BY <1>2, <1>3, Climb
<1> QED BY <1>4 DEF f, g

\* Steps stay in a set that no edge leaves.
LEMMA StepsWithin ==
    ASSUME NEW graph, NEW ns, NEW bound \in Nat, NEW All, ns \subseteq All,
           \A e \in graph : e[2] \in All => e[1] \in All
    PROVE  \A n \in 0..bound : Steps(graph, ns, bound)[n] \subseteq All
<1> DEFINE f == Steps(graph, ns, bound)
           S == {n \in 0..bound : f[n] \subseteq All}
<1>1. f[0] = ns /\ \A n \in 1..bound : f[n] = Further(graph, f[n - 1])
  BY StepsAre
<1> HIDE DEF f
<1>2. 0 \in S
  BY <1>1
<1>3. ASSUME NEW n \in 0..bound, n # 0, n - 1 \in S PROVE n \in S
  BY <1>1, <1>3 DEF Further
<1>4. 0..bound \subseteq S
  <2> HIDE DEF S
  <2> QED BY <1>2, <1>3, Climb
<1> QED BY <1>4 DEF f

\* As many steps as there are nodes reach all that can be reached.
LEMMA StepsClosed ==
    ASSUME NEW graph, NEW ns, NEW bound \in Nat, NEW All, IsFiniteSet(All),
           Cardinality(All) <= bound, ns \subseteq All, ns # {},
           \A e \in graph : e[1] \in All
    PROVE  \A e \in graph : e[2] \in Steps(graph, ns, bound)[bound] =>
                                e[1] \in Steps(graph, ns, bound)[bound]
<1> DEFINE f == Steps(graph, ns, bound)
           Closed(n) == \A e \in graph : e[2] \in f[n] => e[1] \in f[n]
           S == {n \in 0..bound : Closed(n) \/ Cardinality(f[n]) >= n + 1}
<1>1. f[0] = ns /\ \A n \in 1..bound : f[n] = Further(graph, f[n - 1])
  BY StepsAre
<1>2. \A n \in 0..bound : f[n] \subseteq All
  BY StepsWithin
<1> HIDE DEF f
<1>3. \A n \in 0..bound : IsFiniteSet(f[n]) /\ Cardinality(f[n]) \in Nat
                          /\ Cardinality(f[n]) <= Cardinality(All)
  BY <1>2, FS_Subset, FS_CardinalityType
<1>4. 0 \in S
  <2>1. Cardinality(f[0]) # 0
    BY <1>1, <1>3, FS_EmptySet
  <2> QED BY <1>3, <2>1
<1>5. ASSUME NEW n \in 0..bound, n # 0, n - 1 \in S PROVE n \in S
  <2>1. n \in 1..bound /\ n - 1 \in 0..bound /\ f[n] = Further(graph, f[n - 1])
    BY <1>1, <1>5
  <2>2. CASE Closed(n - 1)
    <3>1. f[n] = f[n - 1]
      BY <2>1, <2>2 DEF Further
    <3> QED BY <2>1, <2>2, <3>1
  <2>3. CASE ~Closed(n - 1)
    <3>1. Cardinality(f[n - 1]) >= n
      BY <1>5, <2>3
    <3>2. f[n - 1] \subseteq f[n] /\ f[n - 1] # f[n]
      BY <2>1, <2>3 DEF Further
    <3>3. Cardinality(f[n - 1]) < Cardinality(f[n])
      BY <1>3, <2>1, <3>2, FS_Subset
    <3>4. Cardinality(f[n]) >= n + 1
      BY <1>3, <2>1, <3>1, <3>3
    <3> QED BY <3>4
  <2> QED BY <2>2, <2>3
<1>6. bound \in S
  <2> HIDE DEF S
  <2> QED BY <1>4, <1>5, Climb
<1>7. Closed(bound)
  BY <1>3, <1>6, FS_CardinalityType
<1> QED BY <1>7 DEF f

-----------------------------------------------------------------------------
(* The invariant.                                                          *)

\* What is analysed does not change under the analysis.
RepoInv ==
    /\ exists \in [Version -> SUBSET File]
    /\ imports \in [Version -> SUBSET [from : File, to : File, of : Symbol \cup {"module"}]]
    /\ calls \in [Version -> SUBSET [file : File, from : Symbol, to : Symbol]]
    /\ \A v \in Version : \A e \in imports[v] : {e.from, e.to} \subseteq exists[v]

TypeInv ==
    /\ stage \in {"start", "before", "after", "seeds", "query before", "query after", "direct",
                  "gaps", "tests", "done"}
    /\ tests \subseteq exists["after"]
    /\ parsed \in [Version -> SUBSET File] /\ \A v \in Version : parsed[v] \subseteq exists[v]
    /\ omitted \in [Version -> SUBSET File] /\ outside \in [Version -> SUBSET File]

\* A version is explored: what was wanted is parsed or reported.
Wanted(v) == (Roots(v) \cap exists[v]) \cup Imported(v, parsed[v])
IsExplored(v) ==
    /\ omitted[v] = (Wanted(v) \cap Allowed(v)) \ parsed[v]
    /\ outside[v] = Wanted(v) \ Allowed(v)

\* A version is queried: what can be reached has a route, the rest is reported.
IsQueried(v) ==
    /\ \A f \in Candidates : <<f, "file">> \in Reaching(Graph(v), seeds[v]) => f \in DOMAIN routes
    /\ outside[v] \cup (broken[v] \cap parsed[v]) \subseteq observed
    /\ \A f \in omitted[v] : [path |-> f, scope |-> "repository"] \in gaps

ProgressInv ==
    /\ stage \notin {"start", "before"} => IsExplored("before")
    /\ stage \notin {"start", "before", "after"} => IsExplored("after")
    /\ stage \notin {"start", "before", "after", "seeds"} =>
           /\ seeds = [v \in Version |-> UNION {Seeds(c, v) : c \in changes}]
           /\ ChangeGaps \subseteq gaps
    /\ stage \in {"query after", "direct", "gaps", "tests", "done"} => IsQueried("before")
    /\ stage \in {"direct", "gaps", "tests", "done"} => IsQueried("after")
    /\ stage \in {"tests", "done"} => uncertain = UNION {Covered(gap) : gap \in gaps}
    /\ stage = "done" => selected = tests \cap DOMAIN routes

\* A route holds: its file was changed itself, or is as far from a change.
Routed(f) ==
    \/ f \in {c.path : c \in changes}
    \/ <<f, "file">> \in Upstream(Whole(routes[f].version), seeds[routes[f].version])
                            [routes[f].distance]

RouteInv ==
    /\ stage \in {"start", "before", "after", "seeds", "query before"} => DOMAIN routes = {}
    /\ \A f \in DOMAIN routes : Routed(f)

ImpactInv == RepoInv /\ TypeInv /\ (changes # {} => ProgressInv) /\ RouteInv

\* At first nothing is explored.
LEMMA InitImpact == Init => ImpactInv
<1> SUFFICES ASSUME Init PROVE ImpactInv
  OBVIOUS
<1>1. RepoInv
  BY DEF Init, RepoInv
<1>2. TypeInv
  BY DEF Init, Blank, TypeInv
<1>3. ProgressInv
  BY DEF Init, ProgressInv
<1>4. RouteInv
  <2>1. DOMAIN routes = {}
    BY DEF Init, Blank
  <2> QED BY <2>1 DEF RouteInv
<1> QED BY <1>1, <1>2, <1>3, <1>4 DEF ImpactInv

\* What is said of the repository alone stays.
LEMMA RepoKept ==
    ASSUME RepoInv, UNCHANGED repository
    PROVE  RepoInv' /\ (\A v : Whole(v)' = Whole(v)) /\ Candidates' = Candidates
  BY DEF repository, RepoInv, Whole, Edges, Candidates

\* A route that stays as it is holds while the repository and the seeds stay.
LEMMA RouteKept ==
    ASSUME RepoInv, UNCHANGED <<repository, seeds>>, NEW f, routes'[f] = routes[f], Routed(f)
    PROVE  Routed(f)'
  BY RepoKept DEF Routed, Upstream, repository

\* So all routes hold while they, the repository and the seeds stay.
LEMMA RoutesKept ==
    ASSUME RepoInv, \A f \in DOMAIN routes : Routed(f), UNCHANGED <<repository, seeds, routes>>
    PROVE  (\A f \in DOMAIN routes : Routed(f))'
  BY RouteKept

\* The roots, and what they may lead to, are set with the tests.
LEMMA ScopeKept ==
    ASSUME UNCHANGED <<repository, tests>>
    PROVE  \A v : Roots(v)' = Roots(v) /\ Allowed(v)' = Allowed(v)
<1>1. SelectedComponents' = SelectedComponents
  BY DEF repository, SelectedComponents, Side
<1>2. \A v, f : Selected(v, f)' = Selected(v, f)
  BY <1>1 DEF Selected, repository
<1> QED BY <1>2 DEF repository, Roots, Allowed, Side

\* What is explored stays explored.
LEMMA ExploredKept ==
    ASSUME UNCHANGED <<repository, tests>>, NEW v,
           parsed'[v] = parsed[v], omitted'[v] = omitted[v], outside'[v] = outside[v],
           IsExplored(v)
    PROVE  IsExplored(v)'
  BY ScopeKept DEF IsExplored, Wanted, Imported, repository

\* What is queried stays queried, whatever is added to the answer.
LEMMA QueriedKept ==
    ASSUME UNCHANGED <<repository, parsed, omitted, outside, seeds>>, NEW v,
           DOMAIN routes \subseteq DOMAIN routes', observed \subseteq observed', gaps \subseteq gaps',
           IsQueried(v)
    PROVE  IsQueried(v)'
<1>1. Graph(v)' = Graph(v) /\ Candidates' = Candidates
  BY DEF repository, Graph, Edges, Candidates
<1>2. Reaching(Graph(v), seeds[v])' = Reaching(Graph(v), seeds[v])
  BY <1>1 DEF Reaching, Upstream
<1> QED BY <1>1, <1>2 DEF IsQueried, repository

\* The seeds, and the gaps of the changes, are those of the worksets.
LEMMA SeedsKept ==
    ASSUME UNCHANGED <<repository, parsed>>
    PROVE  ChangeGaps' = ChangeGaps /\ \A c, v : Seeds(c, v)' = Seeds(c, v)
<1>1. \A f : Referenced(f)' = Referenced(f)
  BY DEF repository, Referenced
<1>2. ChangeGaps' = ChangeGaps
  BY <1>1 DEF repository, ChangeGaps
<1>3. \A c, v : Seeds(c, v)' = Seeds(c, v)
  BY DEF repository, Seeds, Side, WholeFile, Modified, Edited
<1> QED BY <1>2, <1>3

-----------------------------------------------------------------------------
(* The steps.                                                              *)

\* The candidates are tests that exist after the change (analyze.go, discoverTests).
LEMMA StepDiscover == ASSUME ImpactInv, DiscoverTests PROVE ImpactInv'
<1>1. /\ stage = "start" /\ stage' = "before" /\ UNCHANGED repository
      /\ UNCHANGED <<parsed, omitted, outside, seeds, routes>>
  BY DEF DiscoverTests, At, Goto
<1>2. tests' \subseteq exists["after"]
  BY DEF DiscoverTests, Tests
<1>3. RepoInv' /\ TypeInv'
  BY <1>1, <1>2, RepoKept DEF ImpactInv, TypeInv, repository
<1>4. ProgressInv'
  BY <1>1 DEF ProgressInv
<1>5. RouteInv'
  BY <1>1, RoutesKept DEF ImpactInv, RouteInv
<1> QED BY <1>3, <1>4, <1>5 DEF ImpactInv

\* Without a change there is nothing to say.
LEMMA StepNoChange == ASSUME ImpactInv, NoChange PROVE ImpactInv'
<1>1. /\ stage = "start" /\ stage' = "done" /\ UNCHANGED repository /\ changes = {}
      /\ UNCHANGED <<tests, parsed, omitted, outside, seeds, routes>>
  BY DEF NoChange, At, Goto, analysis
<1>2. RepoInv' /\ TypeInv'
  BY <1>1, RepoKept DEF ImpactInv, TypeInv, repository
<1>3. changes' = {}
  BY <1>1 DEF repository
<1>4. RouteInv'
  BY <1>1, RoutesKept DEF ImpactInv, RouteInv
<1> QED BY <1>2, <1>3, <1>4 DEF ImpactInv

\* What is explored of a version is allowed, so it exists in that version.
LEMMA ExploredExists ==
    ASSUME NFile \in Nat, NEW v
    PROVE  Explored(v) \subseteq Allowed(v)
<1> DEFINE graph == {<<e.to, e.from>> : e \in {e \in imports[v] : e.from \notin broken[v]
                                                               /\ e.to \in Allowed(v)}}
           ns == Roots(v) \cap Allowed(v)
<1>1. \A e \in graph : e[1] \in Allowed(v)
  OBVIOUS
<1>2. ns \subseteq Allowed(v)
  OBVIOUS
<1> HIDE DEF graph, ns
<1>3. Steps(graph, ns, NFile)[NFile] \subseteq Allowed(v)
  <2>1. NFile \in 0..NFile /\ \A e \in graph : e[2] \in Allowed(v) => e[1] \in Allowed(v)
    BY <1>1
  <2> QED BY <1>2, <2>1, StepsWithin
<1> QED BY <1>3 DEF Explored, graph, ns

\* A version is explored (workset.go:78-106).
LEMMA StepBuild ==
    ASSUME NFile \in Nat, ImpactInv, NEW v \in Version, NEW now, NEW then,
           <<v, now, then>> \in {<<"before", "before", "after">>, <<"after", "after", "seeds">>},
           BuildWorkset(v, now, then)
    PROVE  ImpactInv'
<1>1. /\ stage = now /\ stage' = then /\ UNCHANGED repository
      /\ UNCHANGED <<tests, seeds, gaps, routes, observed>>
  BY DEF BuildWorkset, At, Goto
<1> DEFINE wanted(fs) == (Roots(v) \cap exists[v]) \cup Imported(v, fs)
<1>2. PICK fs \in SUBSET Explored(v) :
        /\ parsed' = [parsed EXCEPT ![v] = fs]
        /\ omitted' = [omitted EXCEPT ![v] = (wanted(fs) \cap Allowed(v)) \ fs]
        /\ outside' = [outside EXCEPT ![v] = wanted(fs) \ Allowed(v)]
  BY DEF BuildWorkset
<1>3. fs \subseteq exists[v] /\ exists[v] \subseteq File
  BY <1>2, ExploredExists DEF Allowed, ImpactInv, RepoInv
<1>4. wanted(fs) \subseteq File
  BY <1>3 DEF Imported
<1>5. RepoInv'
  BY <1>1, RepoKept DEF ImpactInv
<1>6. TypeInv'
  <2>1. /\ parsed' \in [Version -> SUBSET File] /\ omitted' \in [Version -> SUBSET File]
        /\ outside' \in [Version -> SUBSET File]
    BY <1>2, <1>3, <1>4 DEF ImpactInv, TypeInv
  <2>2. \A w \in Version : parsed'[w] \subseteq exists[w]
    BY <1>2, <1>3 DEF ImpactInv, TypeInv
  <2> QED BY <1>1, <2>1, <2>2 DEF ImpactInv, TypeInv, repository
<1>7. IsExplored(v)'
  <2>1. parsed'[v] = fs /\ omitted'[v] = (wanted(fs) \cap Allowed(v)) \ fs
        /\ outside'[v] = wanted(fs) \ Allowed(v)
    BY <1>2 DEF ImpactInv, TypeInv
  <2>2. Wanted(v)' = wanted(fs)
    BY <1>1, <2>1, ScopeKept DEF Wanted, Imported, repository
  <2> QED BY <1>1, <2>1, <2>2, ScopeKept DEF IsExplored
<1>8. ASSUME changes # {} PROVE ProgressInv'
  <2>1. CASE v = "before"
    BY <1>1, <1>7, <2>1 DEF ProgressInv
  <2>2. CASE v = "after"
    <3>1. IsExplored("before")
      BY <1>1, <1>8, <2>2 DEF ImpactInv, ProgressInv
    <3>2. /\ parsed'["before"] = parsed["before"] /\ omitted'["before"] = omitted["before"]
          /\ outside'["before"] = outside["before"]
      BY <1>2, <2>2 DEF ImpactInv, TypeInv, Version
    <3>3. IsExplored("before")'
      BY <1>1, <3>1, <3>2, ExploredKept
    <3> QED BY <1>1, <1>7, <2>2, <3>3 DEF ProgressInv
  <2> QED BY <2>1, <2>2 DEF Version
<1>9. RouteInv'
  BY <1>1, RoutesKept DEF ImpactInv, RouteInv
<1> QED BY <1>1, <1>5, <1>6, <1>8, <1>9 DEF ImpactInv, repository

\* The seeds and the gaps of the changes (analyze.go:83-122).
LEMMA StepSeeds == ASSUME ImpactInv, CollectSeeds PROVE ImpactInv'
<1>1. /\ stage = "seeds" /\ stage' = "query before" /\ UNCHANGED repository
      /\ UNCHANGED <<tests, parsed, omitted, outside, routes>>
      /\ seeds' = [v \in Version |-> UNION {Seeds(c, v) : c \in changes}] /\ gaps' = ChangeGaps
  BY DEF CollectSeeds, At, Goto
<1>2. RepoInv' /\ TypeInv'
  BY <1>1, RepoKept DEF ImpactInv, TypeInv, repository
<1>3. ASSUME changes # {} PROVE ProgressInv'
  <2>1. IsExplored("before") /\ IsExplored("after")
    BY <1>1, <1>3 DEF ImpactInv, ProgressInv
  <2>2. IsExplored("before")' /\ IsExplored("after")'
    BY <1>1, <2>1, ExploredKept
  <2>3. /\ seeds' = [v \in Version |-> UNION {Seeds(c, v)' : c \in changes'}]
        /\ ChangeGaps' \subseteq gaps'
    BY <1>1, SeedsKept DEF repository
  <2> QED BY <1>1, <2>2, <2>3 DEF ProgressInv
<1>4. DOMAIN routes = {}
  BY <1>1 DEF ImpactInv, RouteInv
<1>5. RouteInv'
  BY <1>1, <1>4 DEF RouteInv
<1> QED BY <1>1, <1>2, <1>3, <1>5 DEF ImpactInv, repository

\* A distance is one at which the file is reached.
LEMMA DistanceReaches ==
    ASSUME NFile \in Nat, NEW graph, NEW ns, NEW f, <<f, "file">> \in Reaching(graph, ns)
    PROVE  /\ Distance(graph, ns, f) \in 0..2 * NFile
           /\ <<f, "file">> \in Upstream(graph, ns)[Distance(graph, ns, f)]
<1> DEFINE T == {n \in 0..2 * NFile : <<f, "file">> \in Upstream(graph, ns)[n]}
           Is(n) == /\ <<f, "file">> \in Upstream(graph, ns)[n]
                    /\ n > 0 => <<f, "file">> \notin Upstream(graph, ns)[n - 1]
<1>1. 2 * NFile \in T
  BY DEF Reaching
<1>2. PICK x \in T : \A y \in T : x <= y
  <2>1. T \subseteq Nat /\ T # {}
    BY <1>1
  <2> HIDE DEF T
  <2> QED BY <2>1, Least
<1>3. Is(x)
  <2>1. ASSUME x > 0, <<f, "file">> \in Upstream(graph, ns)[x - 1] PROVE FALSE
    <3>1. x - 1 \in T
      BY <2>1
    <3> QED BY <1>2, <3>1
  <2> QED BY <2>1
<1>4. Distance(graph, ns, f) = CHOOSE n \in 0..2 * NFile : Is(n)
  BY DEF Distance
<1> HIDE DEF Is
<1>5. \E n \in 0..2 * NFile : Is(n)
  BY <1>3
<1>6. Distance(graph, ns, f) \in 0..2 * NFile /\ Is(Distance(graph, ns, f))
  BY <1>4, <1>5
<1> QED BY <1>6 DEF Is

\* The graph of what was parsed is part of the whole.
LEMMA GraphIsPart ==
    ASSUME TypeInv, NEW v \in Version
    PROVE  Graph(v) \subseteq Whole(v)
<1>1. parsed[v] \ broken[v] \subseteq exists[v]
  BY DEF TypeInv
<1> QED BY <1>1 DEF Graph, Whole, Edges

\* A version is queried (uncertainty.go:89-152).
LEMMA StepQuery ==
    ASSUME NFile \in Nat, ImpactInv, NEW v, NEW now, NEW then, Query(v, now, then),
           \/ v = "before" /\ now = "query before" /\ then = "query after"
           \/ v = "after" /\ now = "query after" /\ then = "direct"
    PROVE  ImpactInv'
<1> DEFINE found == {f \in Candidates : <<f, "file">> \in Reaching(Graph(v), seeds[v])}
           route(f) == [version |-> v, distance |-> Distance(Graph(v), seeds[v], f)]
           nearer == {f \in found : f \in DOMAIN routes =>
                                    route(f).distance < routes[f].distance}
<1> v \in Version
  BY DEF Version
<1> 2 * NFile \in Nat
  BY ONLY NFile \in Nat
<1>1. /\ stage = now /\ stage' = then /\ UNCHANGED repository
      /\ UNCHANGED <<tests, parsed, omitted, outside, seeds>>
  BY DEF Query, At, Goto
<1>2. routes' = [f \in DOMAIN routes \cup found |-> IF f \in nearer THEN route(f) ELSE routes[f]]
  BY DEF Query
<1>3. /\ observed' = observed \cup outside[v] \cup (broken[v] \cap parsed[v])
      /\ gaps' = gaps \cup {[path |-> f, scope |-> "repository"] : f \in omitted[v]}
  BY DEF Query
<1>4. RepoInv' /\ TypeInv'
  BY <1>1, RepoKept DEF ImpactInv, TypeInv, repository
<1>5. IsQueried(v)'
  <2>1. Graph(v)' = Graph(v) /\ Candidates' = Candidates
    BY <1>1 DEF repository, Graph, Edges, Candidates
  <2>2. Reaching(Graph(v), seeds[v])' = Reaching(Graph(v), seeds[v])
    BY <1>1, <2>1 DEF Reaching, Upstream
  <2>3. DOMAIN routes' = DOMAIN routes \cup found
    BY <1>2
  <2> HIDE DEF nearer, route
  <2> QED BY <1>1, <1>3, <2>1, <2>2, <2>3 DEF IsQueried, repository
<1>6. ASSUME changes # {} PROVE ProgressInv'
  <2>1. /\ IsExplored("before") /\ IsExplored("after")
        /\ seeds = [w \in Version |-> UNION {Seeds(c, w) : c \in changes}]
        /\ ChangeGaps \subseteq gaps
    BY <1>1, <1>6 DEF ImpactInv, ProgressInv
  <2>2. IsExplored("before")' /\ IsExplored("after")'
    BY <1>1, <2>1, ExploredKept
  <2>3. /\ seeds' = [w \in Version |-> UNION {Seeds(c, w)' : c \in changes'}]
        /\ ChangeGaps' \subseteq gaps'
    BY <1>1, <1>3, <2>1, SeedsKept DEF repository
  <2>4. CASE v = "before"
    BY <1>1, <1>5, <2>2, <2>3, <2>4 DEF ProgressInv
  <2>5. CASE v = "after"
    <3>1. IsQueried("before")
      BY <1>1, <1>6, <2>5 DEF ImpactInv, ProgressInv
    <3>2. DOMAIN routes \subseteq DOMAIN routes' /\ observed \subseteq observed' /\ gaps \subseteq gaps'
      BY <1>2, <1>3
    <3>3. IsQueried("before")'
      BY <1>1, <3>1, <3>2, QueriedKept
    <3> QED BY <1>1, <1>5, <2>2, <2>3, <2>5, <3>3 DEF ProgressInv
  <2> QED BY <2>4, <2>5 DEF Version
<1>7. ASSUME NEW f \in DOMAIN routes' PROVE Routed(f)'
  <2>1. CASE f \in nearer
    <3> DEFINE d == Distance(Graph(v), seeds[v], f)
    <3>1. routes'[f] = [version |-> v, distance |-> d]
          /\ <<f, "file">> \in Reaching(Graph(v), seeds[v])
      BY <1>2, <2>1
    <3>2. d \in 0..2 * NFile /\ <<f, "file">> \in Upstream(Graph(v), seeds[v])[d]
      BY <3>1, DistanceReaches
    <3> HIDE DEF d, nearer, route, found
    <3>3. Graph(v) \subseteq Whole(v)
      BY GraphIsPart DEF ImpactInv
    <3>5. Upstream(Graph(v), seeds[v])[d] \subseteq Upstream(Whole(v), seeds[v])[d]
      BY <3>2, <3>3, StepsOfMore DEF Upstream
    <3>6. <<f, "file">> \in Upstream(Whole(v), seeds[v])[d]
      BY <3>2, <3>5
    <3>7. routes'[f].version = v /\ routes'[f].distance = d
      BY ONLY <3>1
    <3>8. Whole(v)' = Whole(v) /\ seeds' = seeds
      BY <1>1, RepoKept DEF ImpactInv
    <3> QED BY <3>6, <3>7, <3>8 DEF Routed, Upstream
  <2>2. CASE f \notin nearer
    <3>1. f \in DOMAIN routes /\ routes'[f] = routes[f]
      BY <1>2, <2>2
    <3>2. Routed(f)
      BY <3>1 DEF ImpactInv, RouteInv
    <3> QED BY <1>1, <3>1, <3>2, RouteKept DEF ImpactInv
  <2> QED BY <2>1, <2>2
<1>8. RouteInv'
  BY <1>1, <1>7 DEF RouteInv
<1> QED BY <1>1, <1>4, <1>6, <1>8 DEF ImpactInv, repository

\* What was changed itself is affected (uncertainty.go:153-160).
LEMMA StepDirect == ASSUME ImpactInv, DirectChanges PROVE ImpactInv'
<1> DEFINE changed == {c.path : c \in changes} \cap exists["after"]
<1>1. /\ stage = "direct" /\ stage' = "gaps" /\ UNCHANGED repository
      /\ UNCHANGED <<tests, parsed, omitted, outside, seeds, gaps, observed>>
      /\ routes' = [f \in DOMAIN routes \cup changed |->
                      IF f \in changed THEN [version |-> "after", distance |-> 0] ELSE routes[f]]
  BY DEF DirectChanges, At, Goto
<1>2. RepoInv' /\ TypeInv'
  BY <1>1, RepoKept DEF ImpactInv, TypeInv, repository
<1>3. ASSUME changes # {} PROVE ProgressInv'
  <2>1. /\ IsExplored("before") /\ IsExplored("after")
        /\ IsQueried("before") /\ IsQueried("after")
        /\ seeds = [w \in Version |-> UNION {Seeds(c, w) : c \in changes}]
        /\ ChangeGaps \subseteq gaps
    BY <1>1, <1>3 DEF ImpactInv, ProgressInv
  <2>2. IsExplored("before")' /\ IsExplored("after")'
    BY <1>1, <2>1, ExploredKept
  <2>3. IsQueried("before")' /\ IsQueried("after")'
    BY <1>1, <2>1, QueriedKept
  <2>4. /\ seeds' = [w \in Version |-> UNION {Seeds(c, w)' : c \in changes'}]
        /\ ChangeGaps' \subseteq gaps'
    BY <1>1, <2>1, SeedsKept DEF repository
  <2> QED BY <1>1, <2>2, <2>3, <2>4 DEF ProgressInv
<1>4. ASSUME NEW f \in DOMAIN routes' PROVE Routed(f)'
  <2>1. CASE f \in changed
    BY <1>1, <2>1 DEF Routed, repository
  <2>2. CASE f \notin changed
    <3>1. f \in DOMAIN routes /\ routes'[f] = routes[f]
      BY <1>1, <2>2
    <3>2. Routed(f)
      BY <3>1 DEF ImpactInv, RouteInv
    <3> QED BY <1>1, <3>1, <3>2, RouteKept DEF ImpactInv
  <2> QED BY <2>1, <2>2
<1>5. RouteInv'
  BY <1>1, <1>4 DEF RouteInv
<1> QED BY <1>1, <1>2, <1>3, <1>5 DEF ImpactInv, repository

\* What the gaps leave uncertain depends on what is parsed, and on nothing later.
LEMMA CoveredKept ==
    ASSUME UNCHANGED <<repository, tests, parsed>>
    PROVE  \A gap : Covered(gap)' = Covered(gap)
<1>1. \A v : Graph(v)' = Graph(v)
  BY DEF repository, Graph, Edges
<1>2. \A v, f : Reaching(Graph(v), SameComponent(f))' = Reaching(Graph(v), SameComponent(f))
  BY <1>1 DEF Reaching, Upstream, SameComponent, repository
<1>3. GapCandidates' = GapCandidates /\ \A f : Owned(f)' = Owned(f)
  BY DEF GapCandidates, Owned, repository
<1> QED BY <1>2, <1>3 DEF Covered, repository

\* The gaps are bounded, and the tests selected (uncertainty.go:161-227).
LEMMA StepAnswer == ASSUME ImpactInv, BoundGaps \/ SelectTests PROVE ImpactInv'
<1>1. /\ stage \in {"gaps", "tests"} /\ UNCHANGED repository
      /\ stage' \in {"tests", "done"} /\ (stage = "gaps" <=> stage' = "tests")
      /\ UNCHANGED <<tests, parsed, omitted, outside, seeds, gaps, routes>>
      /\ observed \subseteq observed'
  BY DEF BoundGaps, SelectTests, At, Goto
<1>2. RepoInv' /\ TypeInv'
  BY <1>1, RepoKept DEF ImpactInv, TypeInv, repository
<1>3. ASSUME changes # {} PROVE ProgressInv'
  <2>1. /\ IsExplored("before") /\ IsExplored("after")
        /\ IsQueried("before") /\ IsQueried("after")
        /\ seeds = [w \in Version |-> UNION {Seeds(c, w) : c \in changes}]
        /\ ChangeGaps \subseteq gaps
    BY <1>1, <1>3 DEF ImpactInv, ProgressInv
  <2>2. IsExplored("before")' /\ IsExplored("after")'
    BY <1>1, <2>1, ExploredKept
  <2>3. IsQueried("before")' /\ IsQueried("after")'
    BY <1>1, <2>1, QueriedKept
  <2>4. /\ seeds' = [w \in Version |-> UNION {Seeds(c, w)' : c \in changes'}]
        /\ ChangeGaps' \subseteq gaps'
    BY <1>1, <2>1, SeedsKept DEF repository
  <2>5. uncertain' = UNION {Covered(gap)' : gap \in gaps'}
    <3>1. uncertain' = UNION {Covered(gap) : gap \in gaps}
      BY <1>1, <1>3 DEF BoundGaps, SelectTests, At, ImpactInv, ProgressInv
    <3> QED BY <1>1, <3>1, CoveredKept
  <2>6. stage' = "done" => selected' = tests' \cap DOMAIN routes'
    BY <1>1 DEF BoundGaps, SelectTests, At
  <2> QED BY <1>1, <2>2, <2>3, <2>4, <2>5, <2>6 DEF ProgressInv
<1>4. RouteInv'
  BY <1>1, RoutesKept DEF ImpactInv, RouteInv
<1> QED BY <1>1, <1>2, <1>3, <1>4 DEF ImpactInv, repository

\* Every step keeps what the analysis has come to.
LEMMA StepImpact == ASSUME NFile \in Nat, ImpactInv, [Next]_vars PROVE ImpactInv'
<1>1. CASE BuildBefore
  BY <1>1, StepBuild DEF BuildBefore, Version
<1>2. CASE BuildAfter
  BY <1>2, StepBuild DEF BuildAfter, Version
<1>3. CASE QueryBefore
  BY <1>3, StepQuery DEF QueryBefore
<1>4. CASE QueryAfter
  BY <1>4, StepQuery DEF QueryAfter
<1>5. CASE UNCHANGED vars
  <2>1. /\ UNCHANGED repository /\ stage' = stage
        /\ UNCHANGED <<tests, parsed, omitted, outside, seeds, gaps, routes, selected, uncertain, observed>>
    BY <1>5 DEF vars, analysis
  <2>2. RepoInv' /\ TypeInv'
    BY <2>1, RepoKept DEF ImpactInv, TypeInv, repository
  <2>3. ASSUME changes # {} PROVE ProgressInv'
    <3>1. \A v : IsExplored(v) => IsExplored(v)'
      BY <2>1, ExploredKept
    <3>2. \A v : IsQueried(v) => IsQueried(v)'
      BY <2>1, QueriedKept
    <3>3. ChangeGaps' = ChangeGaps /\ \A c, v : Seeds(c, v)' = Seeds(c, v)
      BY <2>1, SeedsKept
    <3>4. \A gap : Covered(gap)' = Covered(gap)
      BY <2>1, CoveredKept
    <3>5. ProgressInv
      BY <2>3 DEF ImpactInv
    <3>6. /\ seeds' = [v \in Version |-> UNION {Seeds(c, v)' : c \in changes'}]
                        <=> seeds = [v \in Version |-> UNION {Seeds(c, v) : c \in changes}]
          /\ ChangeGaps' \subseteq gaps' <=> ChangeGaps \subseteq gaps
      BY <2>1, <3>3 DEF repository
    <3>7. uncertain' = UNION {Covered(gap)' : gap \in gaps'} <=>
            uncertain = UNION {Covered(gap) : gap \in gaps}
      BY <2>1, <3>4
    <3> QED BY <2>1, <3>1, <3>2, <3>5, <3>6, <3>7 DEF ProgressInv
  <2>4. RouteInv'
    BY <2>1, RoutesKept DEF ImpactInv, RouteInv
  <2> QED BY <2>1, <2>2, <2>3, <2>4 DEF ImpactInv, repository
<1> QED BY <1>1, <1>2, <1>3, <1>4, <1>5, StepDiscover, StepNoChange, StepSeeds, StepDirect,
           StepAnswer DEF Next

-----------------------------------------------------------------------------
(* Completeness.                                                           *)

Imports(v) == {<<e.to, e.from>> : e \in imports[v]}

\* A file that depends on another depends on what that one imports.
LEMMA DependsClosed ==
    ASSUME NFile \in Nat, RepoInv, NEW v \in Version, NEW t \in File
    PROVE  /\ t \in DependsOn(v, t)
           /\ \A e \in imports[v] : e.from \in DependsOn(v, t) => e.to \in DependsOn(v, t)
<1> DEFINE D == Steps(Imports(v), {t}, NFile)[NFile]
<1>1. DependsOn(v, t) = D
  BY DEF DependsOn, Imports
<1>2. IsFiniteSet(File) /\ Cardinality(File) = NFile
  BY FS_Interval DEF File
<1>3. \A e \in Imports(v) : e[1] \in File
  BY DEF RepoInv, Imports
<1>4. \A e \in Imports(v) : e[2] \in D => e[1] \in D
  <2>1. Cardinality(File) <= NFile /\ {t} \subseteq File /\ {t} # {}
    BY <1>2
  <2> QED BY <1>2, <1>3, <2>1, StepsClosed
<1>5. t \in D
  <2>1. Steps(Imports(v), {t}, NFile)[0] = {t} /\ 0 \in 0..NFile
    BY StepsAre
  <2> QED BY <2>1, StepsGrow
<1>6. ASSUME NEW e \in imports[v], e.from \in D PROVE e.to \in D
  <2>1. <<e.to, e.from>> \in Imports(v)
    BY DEF Imports
  <2> HIDE DEF D
  <2> QED BY <1>4, <1>6, <2>1
<1> HIDE DEF D
<1> QED BY <1>1, <1>5, <1>6

\* The exploration from a test stops at what is reported only: of a test with
\* nothing omitted, and nothing observed that it depends on, everything it depends
\* on could be read.
LEMMA AllRead ==
    ASSUME NFile \in Nat, RepoInv, TypeInv, NEW v \in Version, IsExplored(v), IsQueried(v),
           NEW t \in tests \cap exists[v], omitted[v] = {}, DependsOn(v, t) \cap observed = {}
    PROVE  DependsOn(v, t) \subseteq parsed[v] \ broken[v]
<1> DEFINE D == DependsOn(v, t)
           Read == D \cap (parsed[v] \ broken[v])
<1>1. t \in File
  BY DEF RepoInv
<1>2. t \in D /\ \A e \in imports[v] : e.from \in D => e.to \in D
  BY <1>1, DependsClosed
<1>3. ASSUME NEW f \in Wanted(v), f \in D PROVE f \in Read
  <2>1. f \notin outside[v]
    BY <1>3 DEF IsQueried
  <2>2. f \in parsed[v]
    BY <1>3, <2>1 DEF IsExplored
  <2> QED BY <1>3, <2>2 DEF IsQueried
<1>4. t \in Wanted(v)
  BY DEF Wanted, Roots
<1>5. ASSUME NEW e \in imports[v], e.from \in Read PROVE e.to \in Read
  <2>1. e.to \in Wanted(v)
    BY <1>5 DEF Wanted, Imported, RepoInv
  <2> QED BY <1>2, <1>3, <1>5, <2>1
<1> HIDE DEF Read
<1>6. {t} \subseteq Read
  BY <1>2, <1>3, <1>4
<1>7. \A e \in Imports(v) : e[2] \in Read => e[1] \in Read
  BY <1>5 DEF Imports
<1>8. Steps(Imports(v), {t}, NFile)[NFile] \subseteq Read
  <2>1. NFile \in 0..NFile
    OBVIOUS
  <2> QED BY <1>6, <1>7, <2>1, StepsWithin
<1> QED BY <1>8 DEF DependsOn, Imports, Read

\* What changed is a seed, or lies in a file that is one, or in a Component that a
\* changed configuration leaves open.
LEMMA ChangedIsSeeded ==
    ASSUME seeds = [w \in Version |-> UNION {Seeds(c, w) : c \in changes}],
           NEW v \in Version, NEW node \in Changed(v)
    PROVE  \/ node \in seeds[v] \/ <<node[1], "file">> \in seeds[v]
           \/ \E gap \in ChangeGaps : gap.scope = "component" /\ node \in SameComponent(gap.path)
<1> DEFINE Part(c) ==
        LET f == Side(c, v) IN
        IF f \notin exists[v] THEN {}
        ELSE IF kind[f] = "config" /\ owner[v][f] # Nobody
             THEN {<<g, "file">> : g \in {g \in exists[v] : owner[v][g] = owner[v][f]}}
        ELSE IF WholeFile(c, f) \/ "top" \in Edited(c, v) THEN {<<f, "file">>}
        ELSE {<<f, x>> : x \in Edited(c, v) \cup (IF Edited(c, v) = {} THEN {} ELSE {"module"})}
<1>1. PICK c \in changes : node \in Part(c)
  BY DEF Changed
<1> DEFINE f == Side(c, v)
<1>2. f \in exists[v]
  BY <1>1
<1>3. Seeds(c, v) \subseteq seeds[v]
  OBVIOUS
<1>4. CASE kind[f] = "config" /\ owner[v][f] # Nobody
  <2>1. PICK g \in exists[v] : node = <<g, "file">> /\ owner[v][g] = owner[v][f]
    BY <1>1, <1>2, <1>4
  <2>2. node \in SameComponent(f)
    BY <2>1 DEF SameComponent
  <2>3. [path |-> f, scope |-> "component"] \in ChangeGaps
    BY <1>4 DEF ChangeGaps, Side
  <2> QED BY <2>2, <2>3
<1>5. CASE ~(kind[f] = "config" /\ owner[v][f] # Nobody)
  <2>1. CASE WholeFile(c, f) \/ "top" \in Edited(c, v)
    <3>1. node = <<f, "file">>
      BY <1>1, <1>2, <1>5, <2>1
    <3>2. <<f, "file">> \in Seeds(c, v)
      BY <1>2, <2>1 DEF Seeds
    <3> QED BY <1>3, <3>1, <3>2
  <2>2. CASE ~(WholeFile(c, f) \/ "top" \in Edited(c, v))
    <3>1. PICK x \in Edited(c, v) \cup {"module"} : node = <<f, x>> /\ Edited(c, v) # {}
      BY <1>1, <1>2, <1>5, <2>2
    <3>2. <<f, x>> \in Seeds(c, v) \/ <<f, "file">> \in Seeds(c, v)
      BY <1>2, <2>2, <3>1 DEF Seeds
    <3>3. node[1] = f
      BY <3>1
    <3> HIDE DEF f
    <3> QED BY <1>3, <3>1, <3>2, <3>3
  <2> QED BY <2>1, <2>2
<1> QED BY <1>4, <1>5

\* The edges of files: those of their imports, and of the calls inside of them.
LEMMA EdgesAre ==
    ASSUME NEW v, NEW fs
    PROVE  /\ \A e \in imports[v] : e.from \in fs =>
                /\ <<<<e.from, "file">>, <<e.to, "file">>>> \in Edges(v, fs)
                /\ <<<<e.from, "file">>, <<e.to, e.of>>>> \in Edges(v, fs)
           /\ \A k \in calls[v] : k.file \in fs => <<<<k.file, k.from>>, <<k.file, k.to>>>> \in Edges(v, fs)
           /\ \A edge \in Edges(v, fs) :
                \/ \E e \in imports[v] : \/ edge = <<<<e.from, "file">>, <<e.to, "file">>>>
                                        \/ edge = <<<<e.from, "file">>, <<e.to, e.of>>>>
                \/ \E k \in calls[v] : edge = <<<<k.file, k.from>>, <<k.file, k.to>>>>
<1> DEFINE Pair(e) == {<<<<e.from, "file">>, <<e.to, "file">>>>, <<<<e.from, "file">>, <<e.to, e.of>>>>}
           Call(k) == <<<<k.file, k.from>>, <<k.file, k.to>>>>
           Pairs == UNION {Pair(e) : e \in {e \in imports[v] : e.from \in fs}}
           Calls == {Call(k) : k \in {k \in calls[v] : k.file \in fs}}
<1>1. Edges(v, fs) = Pairs \cup Calls
  BY DEF Edges
<1>2. /\ \A e \in imports[v] : e.from \in fs => Pair(e) \subseteq Pairs
      /\ \A edge \in Pairs : \E e \in imports[v] : edge \in Pair(e)
  <2> HIDE DEF Pair
  <2> QED OBVIOUS
<1>3. /\ \A k \in calls[v] : k.file \in fs => Call(k) \in Calls
      /\ \A edge \in Calls : \E k \in calls[v] : edge = Call(k)
  <2> HIDE DEF Call
  <2> QED OBVIOUS
<1> HIDE DEF Pairs, Calls
<1> QED BY <1>1, <1>2, <1>3

\* A node is met from one of the sources, or the file it belongs to is.
Met(v, Sources, n, node) ==
    \E src \in Sources : \/ node \in Steps(Graph(v), src, 2 * NFile)[n]
                         \/ <<node[1], "file">> \in Steps(Graph(v), src, 2 * NFile)[n]

\* One step back along an edge of the whole: the file it leaves could be read, so
\* the edge is in the graph, or its file was met already.
LEMMA StepBack ==
    ASSUME 2 * NFile \in Nat, NEW v \in Version, NEW Sources,
           NEW D, D \subseteq parsed[v] \ broken[v],
           \A e \in imports[v] : e.from \in D => e.to \in D,
           NEW n \in 1..2 * NFile, NEW edge \in Whole(v), edge[1][1] \in D,
           edge[2][1] \in D => Met(v, Sources, n - 1, edge[2])
    PROVE  Met(v, Sources, n, edge[1])
<1> DEFINE Near(src, m) == Steps(Graph(v), src, 2 * NFile)[m]
<1>1. ASSUME NEW src, NEW e \in Graph(v), e[2] \in Near(src, n - 1) PROVE e[1] \in Near(src, n)
  <2>1. Near(src, n) = Further(Graph(v), Near(src, n - 1))
    BY StepsAre
  <2> HIDE DEF Near
  <2> QED BY <1>1, <2>1 DEF Further
<1>2. \A src : Near(src, n - 1) \subseteq Near(src, n)
  BY StepsAre DEF Further
<1>3. \A node : Met(v, Sources, n, node) <=>
          \E src \in Sources : node \in Near(src, n) \/ <<node[1], "file">> \in Near(src, n)
  BY DEF Met
<1>4. \A node : Met(v, Sources, n - 1, node) <=>
          \E src \in Sources : node \in Near(src, n - 1) \/ <<node[1], "file">> \in Near(src, n - 1)
  BY DEF Met
<1> HIDE DEF Near
<1>5. CASE \E e \in imports[v] : \/ edge = <<<<e.from, "file">>, <<e.to, "file">>>>
                                 \/ edge = <<<<e.from, "file">>, <<e.to, e.of>>>>
  <2>1. PICK e \in imports[v] : \/ edge = <<<<e.from, "file">>, <<e.to, "file">>>>
                                \/ edge = <<<<e.from, "file">>, <<e.to, e.of>>>>
    BY <1>5
  <2>2. edge[1] = <<e.from, "file">> /\ edge[1][1] = e.from /\ edge[2][1] = e.to
        /\ edge[2] \in {<<e.to, "file">>, <<e.to, e.of>>}
    BY <2>1
  <2>3. e.from \in parsed[v] \ broken[v] /\ e.to \in D
    BY <2>2
  <2>4. /\ <<<<e.from, "file">>, <<e.to, "file">>>> \in Graph(v)
        /\ <<<<e.from, "file">>, <<e.to, e.of>>>> \in Graph(v)
    BY <2>3, EdgesAre DEF Graph
  <2>5. PICK src \in Sources : edge[2] \in Near(src, n - 1) \/ <<e.to, "file">> \in Near(src, n - 1)
    BY <1>4, <2>2, <2>3
  <2>6. CASE edge[2] = <<e.to, "file">> \/ <<e.to, "file">> \in Near(src, n - 1)
    <3>1. <<e.to, "file">> \in Near(src, n - 1)
      BY <2>5, <2>6
    <3>2. <<e.from, "file">> \in Near(src, n)
      BY <1>1, <2>4, <3>1
    <3> QED BY <1>3, <2>2, <3>2
  <2>7. CASE edge[2] = <<e.to, e.of>> /\ edge[2] \in Near(src, n - 1)
    <3>1. <<e.from, "file">> \in Near(src, n)
      BY <1>1, <2>4, <2>7
    <3> QED BY <1>3, <2>2, <3>1
  <2> QED BY <2>2, <2>5, <2>6, <2>7
<1>6. CASE \E k \in calls[v] : edge = <<<<k.file, k.from>>, <<k.file, k.to>>>>
  <2>1. PICK k \in calls[v] : edge = <<<<k.file, k.from>>, <<k.file, k.to>>>>
    BY <1>6
  <2>2. edge[1][1] = k.file /\ edge[2][1] = k.file
    BY <2>1
  <2>3. edge \in Graph(v)
    BY <2>1, <2>2, EdgesAre DEF Graph
  <2>4. PICK src \in Sources : edge[2] \in Near(src, n - 1) \/ <<k.file, "file">> \in Near(src, n - 1)
    BY <1>4, <2>2
  <2>5. edge[1] \in Near(src, n) \/ <<k.file, "file">> \in Near(src, n)
    BY <1>1, <1>2, <2>3, <2>4
  <2> QED BY <1>3, <2>2, <2>5
<1> QED BY <1>5, <1>6, EdgesAre DEF Whole

\* A way through files that could be read is found, from one source or another.
LEMMA WayIsFound ==
    ASSUME 2 * NFile \in Nat, NEW v \in Version, NEW Sources,
           NEW D, D \subseteq parsed[v] \ broken[v],
           \A e \in imports[v] : e.from \in D => e.to \in D,
           NEW ns, \A node \in ns :
               \E src \in Sources : node \in src \/ <<node[1], "file">> \in src,
           NEW t \in D, <<t, "file">> \in Reaching(Whole(v), ns)
    PROVE  \E src \in Sources : <<t, "file">> \in Reaching(Graph(v), src)
<1> DEFINE N == 2 * NFile
           Far(m) == Steps(Whole(v), ns, 2 * NFile)[m]
           S == {n \in 0..N : \A node \in Far(n) : node[1] \in D => Met(v, Sources, n, node)}
<1>1. Far(0) = ns /\ \A n \in 1..N : Far(n) = Further(Whole(v), Far(n - 1))
  BY StepsAre
<1>2. \A src : /\ Steps(Graph(v), src, 2 * NFile)[0] = src
               /\ \A n \in 1..N : Steps(Graph(v), src, 2 * NFile)[n - 1]
                                      \subseteq Steps(Graph(v), src, 2 * NFile)[n]
  BY StepsAre DEF Further
<1> HIDE DEF Far
<1>3. 0 \in S
  BY <1>1, <1>2 DEF Met
<1>4. ASSUME NEW n \in 0..N, n # 0, n - 1 \in S PROVE n \in S
  <2>1. n \in 1..N
    BY <1>4
  <2>2. ASSUME NEW node \in Far(n), node[1] \in D PROVE Met(v, Sources, n, node)
    <3>1. CASE node \in Far(n - 1)
      <4>1. Met(v, Sources, n - 1, node)
        BY <1>4, <2>2, <3>1
      <4> QED BY <1>2, <2>1, <4>1 DEF Met
    <3>2. CASE node \notin Far(n - 1)
      <4>1. PICK e \in Whole(v) : e[2] \in Far(n - 1) /\ node = e[1]
        BY <1>1, <2>1, <2>2, <3>2 DEF Further
      <4>2. e[2][1] \in D => Met(v, Sources, n - 1, e[2])
        BY <1>4, <4>1
      <4>3. e[1][1] \in D
        BY <2>2, <4>1
      <4> QED BY <2>1, <4>1, <4>2, <4>3, StepBack
    <3> QED BY <3>1, <3>2
  <2> QED BY <1>4, <2>2
<1>5. 0..N \subseteq S
  <2> HIDE DEF S
  <2> QED BY <1>3, <1>4, Climb
<1>6. N \in S /\ <<t, "file">> \in Far(N)
  BY <1>5 DEF Reaching, Upstream, Far
<1>7. Met(v, Sources, N, <<t, "file">>)
  <2>1. <<t, "file">>[1] = t
    OBVIOUS
  <2> QED BY <1>6, <2>1
<1>8. PICK src \in Sources : <<t, "file">> \in Steps(Graph(v), src, 2 * NFile)[N]
  BY <1>7 DEF Met
<1> QED BY <1>8 DEF Reaching, Upstream

\* An answer leaves nothing out.
LEMMA Complete ==
    ASSUME NFile \in Nat, ImpactInv
    PROVE  SelectionComplete
<1> SUFFICES ASSUME stage = "done", NEW v \in Version, NEW t \in tests \cap exists[v],
                    <<t, "file">> \in Reaching(Whole(v), Changed(v)),
                    t \notin selected \cup uncertain, DependsOn(v, t) \cap observed = {}
             PROVE  FALSE
  BY DEF SelectionComplete
<1>1. RepoInv /\ TypeInv
  BY DEF ImpactInv
<1>2. 2 * NFile \in Nat
  BY ONLY NFile \in Nat
<1>3. changes # {}
  <2> SUFFICES ASSUME changes = {} PROVE FALSE
    OBVIOUS
  <2>1. Changed(v) = {}
    BY DEF Changed
  <2>2. Steps(Whole(v), {}, 2 * NFile)[2 * NFile] \subseteq {}
    <3>1. 2 * NFile \in 0..2 * NFile
      BY <1>2
    <3> QED BY <1>2, <3>1, StepsWithin
  <2> QED BY <2>1, <2>2 DEF Reaching, Upstream
<1>4. /\ IsExplored(v) /\ IsQueried(v)
      /\ seeds = [w \in Version |-> UNION {Seeds(c, w) : c \in changes}] /\ ChangeGaps \subseteq gaps
      /\ uncertain = UNION {Covered(gap) : gap \in gaps} /\ selected = tests \cap DOMAIN routes
  BY <1>3 DEF ImpactInv, ProgressInv, Version
<1>5. t \in GapCandidates /\ t \in Candidates /\ t \in File
  BY <1>1 DEF GapCandidates, Candidates, TypeInv, RepoInv
<1>6. ASSUME NEW gap \in gaps PROVE t \notin Covered(gap)
  BY <1>4
<1>7. omitted[v] = {}
  <2> SUFFICES ASSUME NEW f \in omitted[v] PROVE FALSE
    OBVIOUS
  <2>1. [path |-> f, scope |-> "repository"] \in gaps
    BY <1>4 DEF IsQueried
  <2>2. Covered([path |-> f, scope |-> "repository"]) = GapCandidates
    BY DEF Covered
  <2> QED BY <1>5, <1>6, <2>1, <2>2
<1>8. DependsOn(v, t) \subseteq parsed[v] \ broken[v]
  BY <1>1, <1>4, <1>7, AllRead
<1>9. t \in DependsOn(v, t) /\ \A e \in imports[v] : e.from \in DependsOn(v, t) => e.to \in DependsOn(v, t)
  BY <1>1, <1>5, DependsClosed
<1> DEFINE Sources == {seeds[v]} \cup {SameComponent(gap.path) : gap \in ChangeGaps}
<1>10. \A node \in Changed(v) : \E src \in Sources : node \in src \/ <<node[1], "file">> \in src
  BY <1>4, ChangedIsSeeded
<1>11. PICK src \in Sources : <<t, "file">> \in Reaching(Graph(v), src)
  <2> HIDE DEF Sources
  <2> QED BY <1>2, <1>8, <1>9, <1>10, WayIsFound
<1>12. CASE src = seeds[v]
  BY <1>4, <1>5, <1>11, <1>12 DEF IsQueried
<1>13. CASE \E gap \in ChangeGaps : src = SameComponent(gap.path)
  <2>1. PICK gap \in ChangeGaps : src = SameComponent(gap.path)
    BY <1>13
  <2>2. t \in Covered(gap)
    BY <1>5, <1>11, <2>1 DEF Covered
  <2> QED BY <1>4, <1>6, <2>2
<1> QED BY <1>12, <1>13

\* No route is invented: the routes of each version are those of its own graph.
THEOREM SoundHolds == ASSUME NFile \in Nat PROVE Spec => []SelectionSound
<1>1. Init => ImpactInv
  BY InitImpact
<1>2. ImpactInv /\ [Next]_vars => ImpactInv'
  BY StepImpact
<1>3. ImpactInv => SelectionSound
  BY DEF ImpactInv, RouteInv, Routed, SelectionSound
<1> QED BY <1>1, <1>2, <1>3, PTL DEF Spec

\* No test is passed over in silence, in any repository and within any budget.
THEOREM CompleteHolds == ASSUME NFile \in Nat PROVE Spec => []SelectionComplete
<1>1. Init => ImpactInv
  BY InitImpact
<1>2. ImpactInv /\ [Next]_vars => ImpactInv'
  BY StepImpact
<1>3. ImpactInv => SelectionComplete
  BY Complete
<1> QED BY <1>1, <1>2, <1>3, PTL DEF Spec

-----------------------------------------------------------------------------
(* The planning of the checks (CheckPlanning): what a set of requests      *)
(* comes to, one after the other.  Those that meet at one executor are     *)
(* either all unavailable or none, since it is its Makefile that decides,  *)
(* so the order in which they are merged makes no difference.              *)

\* The plan so far is the reference for the Components that are in it.
PlanInv ==
    /\ plan = [e \in Component |-> Reference(e, Planned)]
    /\ pending \in Seq(Component)

\* What a Component asks for.
LEMMA ScopesAre ==
    ASSUME NEW c \in Component
    PROVE  /\ ScopeOf(c) \in {"skipped", "unavailable", "focused", "full"}
           /\ PlannedAt(c) \in Component
<1>1. ScopeOf(c) \in {"skipped", "unavailable", "focused", "full"}
  BY DEF ScopeOf
<1>2. PlannedAt(c) \in Component
  BY DEF PlannedAt, Executor, FallsBack
<1> QED BY <1>1, <1>2

\* One more request leads to what all of them come to.
LEMMA MergedIsReference ==
    ASSUME NEW D, NEW c, ScopeOf(c) \in {"skipped", "unavailable", "focused", "full"}
    PROVE  Merged(Reference(PlannedAt(c), D), SpecOf(c)) =
               Reference(PlannedAt(c), D \cup {c})
<1> DEFINE x == PlannedAt(c)
           asked == Requesters(x, D)
           more == Requesters(x, D \cup {c})
           active(s) == {d \in s : ScopeOf(d) # "skipped"}
           scope(s) == CASE active(s) = {} -> "skipped"
                         [] \E d \in active(s) : ScopeOf(d) = "full" -> "full"
                         [] \E d \in active(s) : ScopeOf(d) = "unavailable" -> "unavailable"
                         [] OTHER -> "focused"
           files(s) == IF scope(s) = "focused" THEN UNION {request[d].candidates : d \in active(s)} ELSE {}
<1>1. more = asked \cup {c}
  BY DEF Requesters
<1>2. Reference(x, D) = IF asked = {} THEN NoCheck
                          ELSE [scope |-> scope(asked), by |-> asked, files |-> files(asked)]
  BY DEF Reference
<1>3. Reference(x, D \cup {c}) = [scope |-> scope(more), by |-> more, files |-> files(more)]
  BY <1>1 DEF Reference
<1>4. active(more) = IF ScopeOf(c) = "skipped" THEN active(asked) ELSE active(asked) \cup {c}
  BY <1>1
<1>5. SpecOf(c) = [scope |-> ScopeOf(c), by |-> {c},
                     files |-> IF ScopeOf(c) = "focused" THEN request[c].candidates ELSE {}]
  BY DEF SpecOf
<1>6. scope(asked) \in {"skipped", "unavailable", "focused", "full"}
  OBVIOUS
<1>7. SpecOf(c).scope = ScopeOf(c) /\ SpecOf(c).by = {c}
      /\ SpecOf(c).files = IF ScopeOf(c) = "focused" THEN request[c].candidates ELSE {}
  BY <1>5
<1>8. ASSUME ScopeOf(c) # "skipped", NEW d \in active(asked)
       PROVE  ScopeOf(d) = "unavailable" <=> ScopeOf(c) = "unavailable"
  <2>1. PlannedAt(c) = Executor(c) /\ request[c].relevant
        /\ PlannedAt(d) = Executor(d) /\ request[d].relevant
    BY <1>8 DEF PlannedAt, ScopeOf, Requesters
  <2>2. Executor(d) = Executor(c)
    BY <2>1 DEF Requesters
  <2> QED BY <2>1, <2>2 DEF ScopeOf
<1> HIDE DEF x, asked, more
<1>9. /\ ScopeOf(c) = "skipped" => active(more) = active(asked) /\ scope(more) = scope(asked)
      /\ ScopeOf(c) # "skipped" /\ active(asked) = {} => scope(more) = ScopeOf(c)
      /\ ScopeOf(c) = "full" => scope(more) = "full"
      /\ ScopeOf(c) = "unavailable" /\ active(asked) # {} =>
            scope(more) = "unavailable" /\ scope(asked) = "unavailable"
      /\ ScopeOf(c) = "focused" /\ active(asked) # {} => scope(more) = scope(asked)
  <2> DEFINE s == active(asked)
             m == active(more)
  <2>1. m = IF ScopeOf(c) = "skipped" THEN s ELSE s \cup {c}
    BY <1>4
  <2>2. scope(more) = CASE m = {} -> "skipped"
                         [] \E d \in m : ScopeOf(d) = "full" -> "full"
                         [] \E d \in m : ScopeOf(d) = "unavailable" -> "unavailable"
                         [] OTHER -> "focused"
    OBVIOUS
  <2>3. scope(asked) = CASE s = {} -> "skipped"
                         [] \E d \in s : ScopeOf(d) = "full" -> "full"
                         [] \E d \in s : ScopeOf(d) = "unavailable" -> "unavailable"
                         [] OTHER -> "focused"
    OBVIOUS
  <2> HIDE DEF scope, active
  <2>4. CASE ScopeOf(c) = "skipped"
    BY <2>1, <2>2, <2>3, <2>4
  <2>5. CASE ScopeOf(c) # "skipped"
    <3>1. m = s \cup {c}
      BY <2>1, <2>5
    <3> HIDE DEF m, s
    <3>2. s = {} => scope(more) = ScopeOf(c)
      BY <2>2, <2>5, <3>1
    <3>3. ASSUME ScopeOf(c) = "full" PROVE scope(more) = "full"
      <4>1. c \in m /\ m # {} /\ \E d \in m : ScopeOf(d) = "full"
        BY <3>1, <3>3
      <4>2. ~(\E d \in m : ScopeOf(d) = "unavailable")
        BY <1>8, <3>1, <3>3 DEF s
      <4> QED BY <2>2, <4>1, <4>2
    <3>4. ASSUME ScopeOf(c) = "unavailable", s # {}
          PROVE  scope(more) = "unavailable" /\ scope(asked) = "unavailable"
      <4>1. \A d \in s : ScopeOf(d) = "unavailable"
        BY <1>8, <3>4 DEF s
      <4>2. m # {} /\ \A d \in m : ScopeOf(d) = "unavailable"
        BY <3>1, <3>4, <4>1
      <4>3. (\E d \in m : ScopeOf(d) = "unavailable") /\ ~(\E d \in m : ScopeOf(d) = "full")
        BY <4>2
      <4>4. (\E d \in s : ScopeOf(d) = "unavailable") /\ ~(\E d \in s : ScopeOf(d) = "full")
        BY <3>4, <4>1
      <4> QED BY <2>2, <2>3, <3>4, <4>2, <4>3, <4>4
    <3>5. ScopeOf(c) = "focused" /\ s # {} => scope(more) = scope(asked)
      BY <2>2, <2>3, <3>1
    <3> QED BY <2>5, <3>2, <3>3, <3>4, <3>5 DEF s
  <2> QED BY <2>4, <2>5
<1>10. scope(asked) = "skipped" <=> active(asked) = {}
  OBVIOUS
<1>11. CASE asked = {}
  <2>1. Merged(Reference(x, D), SpecOf(c)) = SpecOf(c)
    BY <1>2, <1>11 DEF Merged
  <2>2. active(asked) = {} /\ scope(more) = ScopeOf(c) /\ more = {c}
    BY <1>1, <1>9, <1>10, <1>11
  <2>3. files(more) = IF ScopeOf(c) = "focused" THEN request[c].candidates ELSE {}
    BY <1>4, <2>2
  <2> HIDE DEF scope, files
  <2> QED BY <1>3, <1>5, <2>1, <2>2, <2>3 DEF x
<1>12. CASE asked # {}
  <2> DEFINE old == [scope |-> scope(asked), by |-> asked, files |-> files(asked)]
             new == SpecOf(c)
  <2>1. Reference(x, D) = old /\ old.scope = scope(asked) /\ old.by = asked /\ old.files = files(asked)
    BY <1>2, <1>12
  <2>2. old # NoCheck
    <3>1. NoCheck.scope = "none"
      BY DEF NoCheck
    <3> QED BY <1>6, <2>1, <3>1
  <2> HIDE DEF old, new
  <2>3. Merged(old, new) = [scope |-> Combined(old, new).scope, by |-> more,
                              files |-> Combined(old, new).files]
    BY <1>1, <1>7, <2>1, <2>2 DEF Merged, new
  <2>4. Combined(old, new).scope = scope(more) /\ Combined(old, new).files = files(more)
    <3>1. CASE ScopeOf(c) = "skipped"
      <4>1. files(more) = files(asked)
        BY <1>9, <3>1
      <4>2. scope(asked) = "skipped" => files(asked) = {}
        OBVIOUS
      <4> HIDE DEF scope, files, active
      <4> QED BY <1>6, <1>7, <1>9, <2>1, <3>1, <4>1, <4>2 DEF Combined, new
    <3>2. CASE ScopeOf(c) # "skipped" /\ active(asked) = {}
      <4>1. active(more) = {c} /\ scope(more) = ScopeOf(c)
        BY <1>4, <1>9, <3>2
      <4>2. files(more) = IF ScopeOf(c) = "focused" THEN request[c].candidates ELSE {}
        BY <4>1
      <4> HIDE DEF scope, files, active
      <4> QED BY <1>7, <1>10, <2>1, <3>2, <4>1, <4>2 DEF Combined, new
    <3>3. CASE ScopeOf(c) = "full" /\ active(asked) # {}
      <4>1. scope(more) = "full" /\ files(more) = {}
        BY <1>9, <3>3
      <4> HIDE DEF scope, files, active
      <4> QED BY <1>7, <1>10, <2>1, <3>3, <4>1 DEF Combined, new
    <3>4. CASE ScopeOf(c) = "unavailable" /\ active(asked) # {}
      <4>1. scope(more) = "unavailable" /\ scope(asked) = "unavailable"
        BY <1>9, <3>4
      <4>2. files(more) = {} /\ files(asked) = {}
        BY <4>1
      <4> HIDE DEF scope, files, active
      <4> QED BY <1>7, <1>10, <2>1, <3>4, <4>1, <4>2 DEF Combined, new
    <3>5. CASE ScopeOf(c) = "focused" /\ active(asked) # {}
      <4>1. scope(more) = scope(asked) /\ active(more) = active(asked) \cup {c}
        BY <1>4, <1>9, <3>5
      <4>2. files(more) = IF scope(asked) = "focused" THEN files(asked) \cup request[c].candidates ELSE {}
        BY <4>1
      <4>3. scope(asked) # "focused" => files(asked) = {}
        OBVIOUS
      <4> HIDE DEF scope, files, active
      <4> QED BY <1>6, <1>7, <1>10, <2>1, <3>5, <4>1, <4>2, <4>3 DEF Combined, new
    <3> QED BY <3>1, <3>2, <3>3, <3>4, <3>5
  <2> HIDE DEF scope, files
  <2> QED BY <1>3, <2>1, <2>3, <2>4 DEF new, x
<1> QED BY <1>11, <1>12

\* The check of a Component names those that asked for it, and without any there
\* is none.
LEMMA ReferenceNames ==
    ASSUME NEW e, NEW done
    PROVE  /\ Reference(e, done) = NoCheck <=> Requesters(e, done) = {}
           /\ Requesters(e, done) # {} => Reference(e, done).by = Requesters(e, done)
<1> DEFINE asked == Requesters(e, done)
<1>1. CASE asked = {}
  BY <1>1 DEF Reference
<1>2. CASE asked # {}
  <2> DEFINE active == {c \in asked : ScopeOf(c) # "skipped"}
             scope == CASE active = {} -> "skipped"
                        [] \E c \in active : ScopeOf(c) = "full" -> "full"
                        [] \E c \in active : ScopeOf(c) = "unavailable" -> "unavailable"
                        [] OTHER -> "focused"
  <2>1. Reference(e, done) =
            [scope |-> scope, by |-> asked,
             files |-> IF scope = "focused" THEN UNION {request[c].candidates : c \in active} ELSE {}]
    BY <1>2 DEF Reference
  <2>4. scope # "none"
    OBVIOUS
  <2> HIDE DEF scope
  <2>2. Reference(e, done).scope = scope /\ Reference(e, done).by = asked
    BY <2>1
  <2>3. NoCheck.scope = "none"
    BY DEF NoCheck
  <2> HIDE DEF asked
  <2> QED BY <1>2, <2>2, <2>3, <2>4 DEF asked
<1> QED BY <1>1, <1>2

\* The Components that a plan names, and those of a set whose check has a place.
NamedBy(p) == UNION {p[e].by : e \in {e \in Component : p[e] # NoCheck}}
Placed(done) == {c \in done : PlannedAt(c) \in Component}

\* So the Components that are planned are those whose requests the plan has.
LEMMA SelectedAre ==
    ASSUME NEW done, NEW p, p = [e \in Component |-> Reference(e, done)]
    PROVE  NamedBy(p) = Placed(done)
<1> DEFINE planned == {e \in Component : p[e] # NoCheck}
<1>1. \A e \in Component : p[e] # NoCheck <=> Requesters(e, done) # {}
  BY ReferenceNames
<1>2. \A e \in planned : p[e].by = Requesters(e, done)
  BY <1>1, ReferenceNames
<1>3. UNION {p[e].by : e \in planned} = UNION {Requesters(e, done) : e \in planned}
  BY <1>2
<1>4. planned = {e \in Component : Requesters(e, done) # {}}
  BY <1>1
<1> HIDE DEF planned
<1>5. ASSUME NEW c \in done, PlannedAt(c) \in Component
      PROVE  c \in UNION {Requesters(e, done) : e \in planned}
  <2>1. c \in Requesters(PlannedAt(c), done)
    BY DEF Requesters
  <2> QED BY <1>4, <1>5, <2>1
<1>6. ASSUME NEW c \in UNION {Requesters(e, done) : e \in planned}
      PROVE  c \in done /\ PlannedAt(c) \in Component
  BY <1>4 DEF Requesters
<1> QED BY <1>3, <1>5, <1>6 DEF planned, NamedBy, Placed

\* At first nothing is planned.
LEMMA InitPlan == PlanInit => PlanInv
<1> SUFFICES ASSUME PlanInit PROVE PlanInv
  OBVIOUS
<1>1. \A e : Reference(e, {}) = NoCheck
  BY ReferenceNames DEF Requesters
<1>2. plan = [e \in Component |-> Reference(e, {})]
  BY <1>1 DEF PlanInit
<1>3. Planned = {}
  <2>1. Planned = NamedBy(plan)
    BY DEF Planned, NamedBy
  <2> QED BY <1>2, <2>1, SelectedAre DEF Placed
<1>4. pending \in Seq(Component)
  BY DEF PlanInit, Selections
<1> QED BY <1>2, <1>3, <1>4 DEF PlanInv

\* What is asked for does not change while it is planned.
LEMMA ReferenceKept ==
    ASSUME UNCHANGED <<check, contract, request>>
    PROVE  \A e, done : Reference(e, done)' = Reference(e, done)
<1>1. \A c : Executor(c)' = Executor(c)
  BY DEF Executor, FallsBack
<1>2. \A c : ScopeOf(c)' = ScopeOf(c)
  BY <1>1 DEF ScopeOf, Representable
<1>3. \A c : PlannedAt(c)' = PlannedAt(c)
  BY <1>1, <1>2 DEF PlannedAt
<1>4. \A e, done : Requesters(e, done)' = Requesters(e, done)
  BY <1>3 DEF Requesters
<1> QED BY <1>2, <1>4 DEF Reference, NoCheck

\* One more request is merged (entrypoint.go, appendValidationCheck).
LEMMA StepPlan ==
    ASSUME PlanInv, PlanComponent
    PROVE  PlanInv'
<1> DEFINE c == Head(pending)
           x == PlannedAt(c)
<1> PICK D : D = Planned
  OBVIOUS
<1>1. c \in Component /\ Tail(pending) \in Seq(Component)
  BY DEF PlanInv, PlanComponent
<1>2. pending' = Tail(pending) /\ UNCHANGED <<check, contract, request>>
      /\ plan' = [plan EXCEPT ![x] = Merged(plan[x], SpecOf(c))]
  BY DEF PlanComponent, given
<1>3. x \in Component /\ ScopeOf(c) \in {"skipped", "unavailable", "focused", "full"}
  BY <1>1, ScopesAre
<1>4. plan = [e \in Component |-> Reference(e, D)]
  BY DEF PlanInv
<1>5. Merged(plan[x], SpecOf(c)) = Reference(x, D \cup {c})
  BY <1>3, <1>4, MergedIsReference
<1>6. ASSUME NEW e \in Component, e # x PROVE Reference(e, D \cup {c}) = Reference(e, D)
  <2>1. Requesters(e, D \cup {c}) = Requesters(e, D)
    BY <1>6 DEF Requesters
  <2> QED BY <2>1 DEF Reference
<1>7. plan' = [e \in Component |-> Reference(e, D \cup {c})]
  <2> HIDE DEF c, x
  <2> QED BY <1>2, <1>3, <1>4, <1>5, <1>6
<1>8. \A e, done : Reference(e, done)' = Reference(e, done)
  BY <1>2, ReferenceKept
<1>9. Planned' = D \cup {c}
  <2>1. Planned = NamedBy(plan) /\ Planned' = NamedBy(plan')
    BY DEF Planned, NamedBy, NoCheck
  <2>2. NamedBy(plan') = Placed(D \cup {c}) /\ NamedBy(plan) = Placed(D)
    BY <1>4, <1>7, SelectedAre
  <2> QED BY <1>3, <2>1, <2>2 DEF Placed
<1> QED BY <1>1, <1>2, <1>7, <1>8, <1>9 DEF PlanInv

\* The plan does not depend on the order in which the requests are met.
THEOREM PlanHolds == PlanSpec => []PlanIsReference
<1>1. PlanInit => PlanInv
  BY InitPlan
<1>2. PlanInv /\ [PlanNext]_planVars => PlanInv'
  <2>1. CASE PlanComponent
    BY <2>1, StepPlan
  <2>2. CASE UNCHANGED planVars
    <3>1. \A e, done : Reference(e, done)' = Reference(e, done)
      BY <2>2, ReferenceKept DEF planVars, given
    <3>2. Planned' = Planned
      BY <2>2 DEF planVars, Planned, NoCheck
    <3> QED BY <2>2, <3>1, <3>2 DEF PlanInv, planVars
  <2> QED BY <2>1, <2>2 DEF PlanNext
<1>3. PlanInv => PlanIsReference
  BY DEF PlanInv, PlanIsReference
<1> QED BY <1>1, <1>2, <1>3, PTL DEF PlanSpec

-----------------------------------------------------------------------------
(* The workset of a code graph.  What is submitted to the parser is        *)
(* visited before the budget ends, and what was seen is parsed or accounted*)
(* for unless its nearest visit is still to come.                          *)

\* By name: the recursion of AtDepth is what it says.
LEMMA AtDepthUnfolded ==
    ASSUME NEW fs, NEW d
    PROVE  \E up : /\ up = [n \in 0..NSource |-> IF n = 0 THEN <<>>
                               ELSE IF n \in fs THEN Append(up[n - 1], <<n, d>>) ELSE up[n - 1]]
                   /\ AtDepth(fs, d) = up[NSource]
<1> DEFINE Is(f, m) == f = [n \in 0..m |-> IF n = 0 THEN <<>>
                               ELSE IF n \in fs THEN Append(f[n - 1], <<n, d>>) ELSE f[n - 1]]
           S == {m \in 0..NSource : \E f : Is(f, m)}
<1>0. NSource \in Nat
  BY WorksetAssumption
<1>1. 0 \in S
  <2>1. Is([n \in 0..0 |-> <<>>], 0)
    OBVIOUS
  <2> HIDE DEF Is
  <2> QED BY <1>0, <2>1
<1>2. ASSUME NEW m \in 0..NSource, m # 0, m - 1 \in S PROVE m \in S
  <2>1. PICK f : Is(f, m - 1)
    BY <1>2
  <2> DEFINE g == [n \in 0..m |-> IF n = m THEN IF m \in fs THEN Append(f[m - 1], <<m, d>>) ELSE f[m - 1]
                                  ELSE f[n]]
  <2>2. Is(g, m)
    <3>1. \A n \in 0..m : g[n] = IF n = 0 THEN <<>>
                               ELSE IF n \in fs THEN Append(g[n - 1], <<n, d>>) ELSE g[n - 1]
      <4>1. ASSUME NEW n \in 0..m, n = 0 PROVE g[n] = <<>>
        <5>1. g[n] = f[0] /\ 0 \in 0..(m - 1)
          BY <1>0, <1>2, <4>1
        <5> QED BY <2>1, <5>1
      <4>2. ASSUME NEW n \in 0..m, n # 0
            PROVE  g[n] = IF n \in fs THEN Append(g[n - 1], <<n, d>>) ELSE g[n - 1]
        <5>1. g[n - 1] = f[n - 1]
          BY <1>0, <4>2
        <5>2. CASE n = m
          BY <5>1, <5>2
        <5>3. CASE n # m
          <6>1. n \in 0..(m - 1) /\ g[n] = f[n]
            BY <1>0, <1>2, <4>2, <5>3
          <6> QED BY <2>1, <4>2, <5>1, <6>1
        <5> QED BY <5>2, <5>3
      <4> QED BY <4>1, <4>2
    <3> QED BY <3>1
  <2> QED BY <2>2
<1>3. NSource \in S
  <2> HIDE DEF S
  <2> QED BY <1>0, <1>1, <1>2, Climb
<1>4. \E f : Is(f, NSource)
  BY <1>3
<1> DEFINE up == CHOOSE f : Is(f, NSource)
<1>5. AtDepth(fs, d) = up[NSource]
  BY DEF AtDepth
<1>6. Is(up, NSource)
  <2> HIDE DEF Is
  <2> QED BY <1>4
<1> HIDE DEF up
<1> QED BY <1>5, <1>6

\* What it lists is each of the files, at that depth.
LEMMA AtDepthIs ==
    ASSUME NEW fs, fs \subseteq Source, NEW d \in Nat
    PROVE  /\ AtDepth(fs, d) \in Seq(Source \X Nat)
           /\ \A k \in 1..Len(AtDepth(fs, d)) : AtDepth(fs, d)[k][1] \in fs /\ AtDepth(fs, d)[k][2] = d
           /\ \A f \in fs : \E k \in 1..Len(AtDepth(fs, d)) : AtDepth(fs, d)[k] = <<f, d>>
<1>0. NSource \in Nat
  BY WorksetAssumption
<1>1. PICK up : /\ up = [n \in 0..NSource |-> IF n = 0 THEN <<>>
                               ELSE IF n \in fs THEN Append(up[n - 1], <<n, d>>) ELSE up[n - 1]]
                /\ AtDepth(fs, d) = up[NSource]
  BY AtDepthUnfolded
<1> DEFINE Lists(s, n) ==
               /\ s \in Seq(Source \X Nat)
               /\ \A k \in 1..Len(s) : s[k][1] \in fs /\ s[k][2] = d
               /\ \A f \in fs : f <= n => \E k \in 1..Len(s) : s[k] = <<f, d>>
           S == {n \in 0..NSource : Lists(up[n], n)}
<1>2. 0 \in S
  <2>1. up[0] = <<>>
    BY <1>0, <1>1
  <2>2. \A f \in fs : ~(f <= 0)
    BY <1>0 DEF Source
  <2>3. Lists(<<>>, 0)
    BY <2>2
  <2> HIDE DEF Lists
  <2> QED BY <1>0, <2>1, <2>3
<1>3. ASSUME NEW n \in 0..NSource, n # 0, n - 1 \in S PROVE n \in S
  <2>1. up[n] = IF n \in fs THEN Append(up[n - 1], <<n, d>>) ELSE up[n - 1]
    BY <1>0, <1>1, <1>3
  <2> DEFINE s == up[n - 1]
  <2>2. Lists(s, n - 1)
    BY <1>3
  <2>3. \A f \in fs : f \in Nat /\ (f <= n => f <= n - 1 \/ f = n)
    BY <1>0, <1>3 DEF Source
  <2> HIDE DEF s
  <2>4. CASE n \in fs
    <3>1. n \in Source /\ <<n, d>> \in Source \X Nat
      BY <2>4
    <3>2. up[n] = Append(s, <<n, d>>)
      BY <2>1, <2>4 DEF s
    <3>3. Append(s, <<n, d>>) \in Seq(Source \X Nat) /\ Len(Append(s, <<n, d>>)) = Len(s) + 1
          /\ Len(s) \in Nat
      BY <2>2, <3>1
    <3>4. /\ \A k \in 1..Len(s) : Append(s, <<n, d>>)[k] = s[k]
          /\ Append(s, <<n, d>>)[Len(s) + 1] = <<n, d>>
      BY <2>2, <3>1
    <3>5. Lists(Append(s, <<n, d>>), n)
      <4>1. \A k \in 1..Len(Append(s, <<n, d>>)) :
                Append(s, <<n, d>>)[k][1] \in fs /\ Append(s, <<n, d>>)[k][2] = d
        BY <2>2, <2>4, <3>3, <3>4
      <4>2. ASSUME NEW f \in fs, f <= n
            PROVE  \E k \in 1..Len(Append(s, <<n, d>>)) : Append(s, <<n, d>>)[k] = <<f, d>>
        <5>1. CASE f <= n - 1
          <6>1. PICK k \in 1..Len(s) : s[k] = <<f, d>>
            BY <2>2, <5>1
          <6>2. k \in 1..(Len(s) + 1) /\ Append(s, <<n, d>>)[k] = <<f, d>>
            BY <3>3, <3>4, <6>1
          <6> QED BY <3>3, <6>2
        <5>2. CASE f = n
          <6>1. Len(s) + 1 \in 1..(Len(s) + 1)
            BY <3>3
          <6> QED BY <3>3, <3>4, <5>2, <6>1
        <5> QED BY <2>3, <4>2, <5>1, <5>2
      <4> QED BY <3>3, <4>1, <4>2
    <3> QED BY <3>2, <3>5
  <2>5. CASE n \notin fs
    <3>1. up[n] = s
      BY <2>1, <2>5 DEF s
    <3>2. Lists(s, n)
      BY <2>2, <2>3, <2>5
    <3> QED BY <3>1, <3>2
  <2> QED BY <2>4, <2>5
<1>4. NSource \in S
  <2> HIDE DEF S
  <2> QED BY <1>0, <1>2, <1>3, Climb
<1>5. Lists(AtDepth(fs, d), NSource)
  BY <1>1, <1>4
<1>6. \A f \in fs : f <= NSource
  BY <1>0 DEF Source
<1> QED BY <1>5, <1>6

\* What is known of the frontier.
Frontier(d, q, issues) == [depths |-> d, queue |-> q, diagnostics |-> issues]
IsFrontier(s) == s.depths \in [Source -> 0..Unseen] /\ s.queue \in Seq(Source \X Nat)

\* Whether the nearest visit of a file lies at n or behind it.
Due(q, n, d, f) == \E i \in n..Len(q) : q[i] = <<f, d[f]>>

\* What enqueuing does: files come nearer, and what has come nearer is due, or
\* reported for being out of scope.
LeadsTo(s, t) ==
    /\ \A f \in Source : t.depths[f] <= s.depths[f]
    /\ Len(s.queue) <= Len(t.queue) /\ \A i \in 1..Len(s.queue) : t.queue[i] = s.queue[i]
    /\ \A i \in (Len(s.queue) + 1)..Len(t.queue) :
          /\ ~OutOfScope(t.queue[i][1]) /\ t.depths[t.queue[i][1]] <= t.queue[i][2]
          /\ Due(t.queue, i, t.depths, t.queue[i][1])
    /\ \A f \in Source : t.depths[f] # s.depths[f] =>
          IF OutOfScope(f) THEN s.depths[f] = Unseen => <<f, "source_scope">> \in t.diagnostics
          ELSE Due(t.queue, Len(s.queue) + 1, t.depths, f)
    /\ s.diagnostics \subseteq t.diagnostics
    /\ t.diagnostics \subseteq s.diagnostics \cup {<<f, "source_scope">> : f \in Source}

\* Nothing enqueued is the least of it.
LEMMA LeadsToItself ==
    ASSUME NEW s, IsFrontier(s)
    PROVE  LeadsTo(s, s)
<1>1. Len(s.queue) \in Nat
  BY DEF IsFrontier
<1>2. \A f \in Source : s.depths[f] \in Int
  BY WorksetAssumption DEF IsFrontier, Unseen
<1> QED BY <1>1, <1>2 DEF LeadsTo

\* One more item keeps to it, and has come as near as it says.
LEMMA LeadsOneFurther ==
    ASSUME NEW s, NEW t, IsFrontier(s), IsFrontier(t), LeadsTo(s, t), NEW item \in Source \X Nat
    PROVE  /\ IsFrontier(Enqueue(t, item)) /\ LeadsTo(s, Enqueue(t, item))
           /\ Enqueue(t, item).depths[item[1]] <= item[2]
           /\ \A f \in Source : Enqueue(t, item).depths[f] <= t.depths[f]
<1> DEFINE f == item[1] d == item[2] u == Enqueue(t, item)
<1>0. /\ f \in Source /\ d \in Nat /\ item = <<f, d>> /\ Unseen \in Nat
      /\ \A g \in Source : t.depths[g] \in 0..Unseen /\ s.depths[g] \in 0..Unseen
      /\ t.queue \in Seq(Source \X Nat) /\ Len(t.queue) \in Nat /\ Len(s.queue) \in Nat
  BY WorksetAssumption DEF IsFrontier, Unseen
<1>1. CASE t.depths[f] <= d
  <2>1. u = t
    BY <1>1 DEF Enqueue
  <2> QED BY <1>0, <1>1, <2>1
<1>2. CASE ~(t.depths[f] <= d)
  <2>1. /\ u.depths = [t.depths EXCEPT ![f] = d]
        /\ u.queue = IF OutOfScope(f) THEN t.queue ELSE Append(t.queue, item)
        /\ u.diagnostics = IF OutOfScope(f) /\ t.depths[f] = Unseen
                           THEN t.diagnostics \cup {<<f, "source_scope">>} ELSE t.diagnostics
    BY <1>2 DEF Enqueue
  <2> HIDE DEF u
  <2>2. d \in 0..Unseen /\ d < t.depths[f]
    BY <1>0, <1>2
  <2>3. /\ u.depths \in [Source -> 0..Unseen] /\ u.depths[f] = d
        /\ \A g \in Source : g # f => u.depths[g] = t.depths[g]
    BY <1>0, <2>1, <2>2 DEF IsFrontier
  <2>4. \A g \in Source : u.depths[g] <= t.depths[g]
    BY <1>0, <2>2, <2>3
  <2>5. u.queue \in Seq(Source \X Nat)
    BY <1>0, <2>1
  <2>6. /\ Len(t.queue) <= Len(u.queue) /\ Len(u.queue) \in Nat
        /\ \A i \in 1..Len(t.queue) : u.queue[i] = t.queue[i]
        /\ ~OutOfScope(f) => Len(u.queue) = Len(t.queue) + 1 /\ u.queue[Len(u.queue)] = <<f, u.depths[f]>>
        /\ OutOfScope(f) => u.queue = t.queue
    BY <1>0, <2>1, <2>3
  <2>7. \A g \in Source : u.depths[g] <= s.depths[g]
    <3>1. \A g \in Source : t.depths[g] <= s.depths[g]
      BY DEF LeadsTo
    <3>2. \A g \in Source : u.depths[g] \in 0..Unseen
      BY <2>3
    <3> QED BY <1>0, <2>4, <3>1, <3>2
  <2>8. Len(s.queue) <= Len(u.queue) /\ \A i \in 1..Len(s.queue) : u.queue[i] = s.queue[i]
    <3>1. Len(s.queue) <= Len(t.queue) /\ \A i \in 1..Len(s.queue) : t.queue[i] = s.queue[i]
      BY DEF LeadsTo
    <3>2. \A i \in 1..Len(s.queue) : i \in 1..Len(t.queue)
      BY <1>0, <3>1
    <3>3. Len(s.queue) <= Len(u.queue)
      BY <1>0, <2>6, <3>1
    <3> QED BY <2>6, <3>1, <3>2, <3>3
  \* What was due is due still: at the same place, or as the last one.
  <2>9. ASSUME NEW n \in Nat \ {0}, n <= Len(t.queue) + 1, NEW g \in Source, ~OutOfScope(g), 
               g = f \/ Due(t.queue, n, t.depths, g)
        PROVE  Due(u.queue, n, u.depths, g)
    <3>1. CASE g = f
      <4>1. Len(u.queue) \in n..Len(u.queue)
        BY <1>0, <2>6, <2>9, <3>1
      <4> QED BY <2>6, <2>9, <3>1, <4>1 DEF Due
    <3>2. CASE g # f
      <4>1. PICK i \in n..Len(t.queue) : t.queue[i] = <<g, t.depths[g]>>
        BY <2>9, <3>2 DEF Due
      <4>2. i \in n..Len(u.queue) /\ i \in 1..Len(t.queue)
        BY <1>0, <2>6, <2>9
      <4>3. u.queue[i] = <<g, u.depths[g]>>
        BY <2>3, <2>6, <3>2, <4>1, <4>2
      <4> QED BY <4>2, <4>3 DEF Due
    <3> QED BY <3>1, <3>2
  <2>10. ASSUME NEW i \in (Len(s.queue) + 1)..Len(u.queue)
         PROVE  /\ ~OutOfScope(u.queue[i][1]) /\ u.depths[u.queue[i][1]] <= u.queue[i][2]
                /\ Due(u.queue, i, u.depths, u.queue[i][1])
    <3>1. CASE i <= Len(t.queue)
      <4>1. i \in (Len(s.queue) + 1)..Len(t.queue) /\ i \in 1..Len(t.queue) /\ i \in Nat \ {0}
        BY <1>0, <3>1
      <4>2. u.queue[i] = t.queue[i] /\ t.queue[i][1] \in Source /\ t.queue[i][2] \in Nat
        <5>1. t.queue[i] \in Source \X Nat
          BY <1>0, <4>1
        <5> QED BY <2>6, <4>1, <5>1
      <4>3. /\ ~OutOfScope(t.queue[i][1]) /\ t.depths[t.queue[i][1]] <= t.queue[i][2]
            /\ Due(t.queue, i, t.depths, t.queue[i][1])
        BY <4>1 DEF LeadsTo
      <4>4. i <= Len(t.queue) + 1
        BY <1>0, <3>1
      <4>5. u.depths[t.queue[i][1]] <= t.queue[i][2]
        <5>1. u.depths[t.queue[i][1]] \in 0..Unseen /\ t.depths[t.queue[i][1]] \in 0..Unseen
              /\ u.depths[t.queue[i][1]] <= t.depths[t.queue[i][1]]
          BY <1>0, <2>3, <2>4, <4>2
        <5> QED BY <1>0, <4>2, <4>3, <5>1
      <4> QED BY <2>9, <4>1, <4>2, <4>3, <4>4, <4>5
    <3>2. CASE ~(i <= Len(t.queue))
      <4>1. ~OutOfScope(f) /\ i = Len(u.queue) /\ i = Len(t.queue) + 1
        BY <1>0, <2>6, <3>2
      <4>2. u.queue[i][1] = f /\ u.queue[i][2] = u.depths[f] /\ i \in Nat \ {0} /\ i <= Len(t.queue) + 1
        BY <1>0, <2>6, <4>1
      <4>3. u.depths[f] <= u.depths[f]
        BY <1>0, <2>3
      <4> QED BY <1>0, <2>9, <4>1, <4>2, <4>3
    <3> QED BY <3>1, <3>2
  <2>11. ASSUME NEW g \in Source, u.depths[g] # s.depths[g]
         PROVE  IF OutOfScope(g) THEN s.depths[g] = Unseen => <<g, "source_scope">> \in u.diagnostics
                ELSE Due(u.queue, Len(s.queue) + 1, u.depths, g)
    <3>1. t.diagnostics \subseteq u.diagnostics
      BY <2>1
    <3>2. CASE OutOfScope(g)
      <4>1. CASE t.depths[g] # s.depths[g]
        BY <3>1, <3>2, <4>1 DEF LeadsTo
      <4>2. CASE t.depths[g] = s.depths[g]
        <5>1. g = f
          BY <2>3, <2>11, <4>2
        <5> QED BY <2>1, <3>2, <4>2, <5>1
      <4> QED BY <3>2, <4>1, <4>2
    <3>3. CASE ~OutOfScope(g)
      <4>1. g = f \/ t.depths[g] # s.depths[g]
        BY <2>3, <2>11
      <4>2. g = f \/ Due(t.queue, Len(s.queue) + 1, t.depths, g)
        BY <3>3, <4>1 DEF LeadsTo
      <4>3. Len(s.queue) + 1 \in Nat \ {0} /\ Len(s.queue) + 1 <= Len(t.queue) + 1
        BY <1>0 DEF LeadsTo
      <4>4. Due(u.queue, Len(s.queue) + 1, u.depths, g)
        BY <2>9, <3>3, <4>2, <4>3
      <4> QED BY <3>3, <4>4
    <3> QED BY <3>2, <3>3
  <2>12. /\ s.diagnostics \subseteq u.diagnostics
         /\ u.diagnostics \subseteq s.diagnostics \cup {<<g, "source_scope">> : g \in Source}
    BY <1>0, <2>1 DEF LeadsTo
  <2>13. LeadsTo(s, u)
    BY <2>7, <2>8, <2>10, <2>11, <2>12 DEF LeadsTo
  <2>14. IsFrontier(u)
    BY <2>3, <2>5 DEF IsFrontier
  <2>15. u.depths[f] <= d
    BY <2>2, <2>3
  <2> QED BY <2>4, <2>13, <2>14, <2>15 DEF u
<1> QED BY <1>1, <1>2

\* The recursion of Enqueued is what it says.
LEMMA EnqueuedUnfolded ==
    ASSUME NEW items, NEW issues, Len(items) \in Nat
    PROVE  \E up : /\ up = [n \in 0..Len(items) |-> IF n = 0 THEN Frontier(depths, queue, issues)
                                                    ELSE Enqueue(up[n - 1], items[n])]
                   /\ Enqueued(items, issues) = up[Len(items)]
<1> DEFINE N == Len(items)
           Is(f, m) == f = [n \in 0..m |-> IF n = 0 THEN Frontier(depths, queue, issues)
                                           ELSE Enqueue(f[n - 1], items[n])]
           S == {m \in 0..N : \E f : Is(f, m)}
<1>1. 0 \in S
  <2>1. Is([n \in 0..0 |-> Frontier(depths, queue, issues)], 0)
    OBVIOUS
  <2> HIDE DEF Is
  <2> QED BY <2>1
<1>2. ASSUME NEW m \in 0..N, m # 0, m - 1 \in S PROVE m \in S
  <2>1. PICK f : Is(f, m - 1)
    BY <1>2
  <2> DEFINE last == Enqueue(f[m - 1], items[m])
             g == [n \in 0..m |-> IF n = m THEN last ELSE f[n]]
  <2> HIDE DEF last
  <2>2. \A n \in 0..m : g[n] = IF n = 0 THEN Frontier(depths, queue, issues)
                               ELSE Enqueue(g[n - 1], items[n])
    <3>1. ASSUME NEW n \in 0..m, n = 0 PROVE g[n] = Frontier(depths, queue, issues)
      <4>1. g[n] = f[0] /\ 0 \in 0..(m - 1)
        BY <1>2, <3>1
      <4> QED BY <2>1, <4>1
    <3>2. ASSUME NEW n \in 0..m, n # 0 PROVE g[n] = Enqueue(g[n - 1], items[n])
      <4>1. g[n - 1] = f[n - 1]
        BY <3>2
      <4>2. CASE n = m
        BY <4>1, <4>2 DEF last
      <4>3. CASE n # m
        <5>1. n \in 0..(m - 1) /\ g[n] = f[n]
          BY <1>2, <3>2, <4>3
        <5> QED BY <2>1, <3>2, <4>1, <5>1
      <4> QED BY <4>2, <4>3
    <3> QED BY <3>1, <3>2
  <2>3. Is(g, m)
    BY <2>2
  <2> QED BY <2>3
<1>3. N \in S
  <2>1. N \in Nat
    OBVIOUS
  <2> HIDE DEF S, N
  <2> QED BY <2>1, <1>1, <1>2, Climb
<1>4. \E f : Is(f, N)
  BY <1>3
<1> DEFINE up == CHOOSE f : Is(f, N)
<1>5. Enqueued(items, issues) = up[N]
  BY DEF Enqueued, Frontier
<1>6. Is(up, N)
  <2> HIDE DEF Is
  <2> QED BY <1>4
<1> HIDE DEF up
<1> QED BY <1>5, <1>6

\* What enqueuing leads to, and that it has brought each item as near as it is.
LEMMA EnqueuedLeads ==
    ASSUME NEW items, items \in Seq(Source \X Nat), NEW issues,
           IsFrontier(Frontier(depths, queue, issues))
    PROVE  /\ IsFrontier(Enqueued(items, issues))
           /\ LeadsTo(Frontier(depths, queue, issues), Enqueued(items, issues))
           /\ \A k \in 1..Len(items) : Enqueued(items, issues).depths[items[k][1]] <= items[k][2]
<1> DEFINE s == Frontier(depths, queue, issues) N == Len(items)
<1>0. N \in Nat
  OBVIOUS
<1>1. PICK up : /\ up = [n \in 0..N |-> IF n = 0 THEN s ELSE Enqueue(up[n - 1], items[n])]
                /\ Enqueued(items, issues) = up[N]
  BY <1>0, EnqueuedUnfolded
<1> DEFINE Good(t, n) == /\ IsFrontier(t) /\ LeadsTo(s, t)
                         /\ \A k \in 1..n : t.depths[items[k][1]] <= items[k][2]
           S == {n \in 0..N : Good(up[n], n)}
<1> HIDE DEF s
<1>2. 0 \in S
  <2>1. up[0] = s
    BY <1>0, <1>1
  <2> QED BY <1>0, <2>1, LeadsToItself DEF s
<1>3. ASSUME NEW n \in 0..N, n # 0, n - 1 \in S PROVE n \in S
  <2>1. up[n] = Enqueue(up[n - 1], items[n])
    BY <1>0, <1>1, <1>3
  <2> DEFINE t == up[n - 1] u == Enqueue(t, items[n])
  <2>2. Good(t, n - 1)
    BY <1>3
  <2>3. items[n] \in Source \X Nat /\ \A k \in 1..n : items[k] \in Source \X Nat
    BY <1>0, <1>3
  <2> HIDE DEF t
  <2>4. /\ IsFrontier(u) /\ LeadsTo(s, u) /\ u.depths[items[n][1]] <= items[n][2]
        /\ \A f \in Source : u.depths[f] <= t.depths[f]
    BY <2>2, <2>3, LeadsOneFurther DEF s
  <2>5. \A f \in Source : u.depths[f] \in Int /\ t.depths[f] \in Int
    <3>1. Unseen \in Nat
      BY WorksetAssumption DEF Unseen
    <3>2. u.depths \in [Source -> 0..Unseen] /\ t.depths \in [Source -> 0..Unseen]
      BY <2>2, <2>4 DEF IsFrontier
    <3> QED BY <3>1, <3>2
  <2> HIDE DEF u
  <2>6. ASSUME NEW k \in 1..n PROVE u.depths[items[k][1]] <= items[k][2]
    <3>1. CASE k = n
      BY <2>4, <3>1
    <3>2. CASE k # n
      <4>1. k \in 1..(n - 1) /\ items[k][1] \in Source /\ items[k][2] \in Int
        BY <1>0, <2>3, <3>2
      <4>2. t.depths[items[k][1]] <= items[k][2] /\ u.depths[items[k][1]] <= t.depths[items[k][1]]
        BY <2>2, <2>4, <4>1
      <4> QED BY <2>5, <4>1, <4>2
    <3> QED BY <3>1, <3>2
  <2>7. Good(u, n)
    BY <2>4, <2>6
  <2> QED BY <2>1, <2>7 DEF t, u
<1>4. N \in S
  <2>1. N \in Nat
    OBVIOUS
  <2> HIDE DEF S, N
  <2>2. \A n \in 0..N : n # 0 /\ n - 1 \in S => n \in S
    BY <1>3
  <2>3. 0..N \subseteq S
    BY ONLY <2>1, <1>2, <2>2, Climb
  <2> QED BY <2>1, <2>3
<1>5. Good(up[N], N)
  BY <1>4
<1> QED BY <1>1, <1>5 DEF s

\* What is due stays due until its turn has come.
LEMMA StillDue ==
    ASSUME NEW s, NEW t, IsFrontier(s), IsFrontier(t), LeadsTo(s, t),
           NEW n \in Nat \ {0}, n <= Len(s.queue) + 1, NEW f \in Source, ~OutOfScope(f),
           Due(s.queue, n, s.depths, f) \/ t.depths[f] # s.depths[f]
    PROVE  Due(t.queue, n, t.depths, f)
<1>0. Len(s.queue) \in Nat /\ Len(t.queue) \in Nat /\ Len(s.queue) <= Len(t.queue)
  BY DEF IsFrontier, LeadsTo
<1>1. CASE t.depths[f] # s.depths[f]
  <2>1. Due(t.queue, Len(s.queue) + 1, t.depths, f)
    BY <1>1 DEF LeadsTo
  <2>2. PICK i \in (Len(s.queue) + 1)..Len(t.queue) : t.queue[i] = <<f, t.depths[f]>>
    BY <2>1 DEF Due
  <2>3. i \in n..Len(t.queue)
    BY <1>0
  <2> QED BY <2>2, <2>3 DEF Due
<1>2. CASE t.depths[f] = s.depths[f]
  <2>1. PICK i \in n..Len(s.queue) : s.queue[i] = <<f, s.depths[f]>>
    BY <1>2 DEF Due
  <2>2. i \in n..Len(t.queue) /\ i \in 1..Len(s.queue)
    BY <1>0
  <2>3. t.queue[i] = s.queue[i]
    BY <2>2 DEF LeadsTo
  <2> QED BY <1>2, <2>1, <2>2, <2>3 DEF Due
<1> QED BY <1>1, <1>2

\* Of each file in the frontier the nearest visit is to come, and none is out of
\* scope.
Ahead(q, n, d) ==
    \A i \in n..Len(q) :
        ~OutOfScope(q[i][1]) /\ d[q[i][1]] <= q[i][2] /\ Due(q, i, d, q[i][1])

\* What was ahead is ahead after enqueuing.
LEMMA StillAhead ==
    ASSUME NEW s, NEW t, IsFrontier(s), IsFrontier(t), LeadsTo(s, t),
           NEW n \in Nat \ {0}, n <= Len(s.queue) + 1, Ahead(s.queue, n, s.depths)
    PROVE  Ahead(t.queue, n, t.depths)
<1>0. /\ Len(s.queue) \in Nat /\ Len(t.queue) \in Nat /\ Len(s.queue) <= Len(t.queue)
      /\ \A i \in 1..Len(s.queue) : t.queue[i] = s.queue[i] /\ s.queue[i][1] \in Source
  <2>1. s.queue \in Seq(Source \X Nat) /\ t.queue \in Seq(Source \X Nat)
    BY DEF IsFrontier
  <2>2. \A i \in 1..Len(s.queue) : s.queue[i] \in Source \X Nat
    BY <2>1
  <2>3. Len(s.queue) <= Len(t.queue) /\ \A i \in 1..Len(s.queue) : t.queue[i] = s.queue[i]
    BY DEF LeadsTo
  <2>4. \A i \in 1..Len(s.queue) : s.queue[i][1] \in Source
    BY <2>2
  <2> QED BY <2>1, <2>3, <2>4
<1> SUFFICES ASSUME NEW i \in n..Len(t.queue)
             PROVE  /\ ~OutOfScope(t.queue[i][1]) /\ t.depths[t.queue[i][1]] <= t.queue[i][2]
                    /\ Due(t.queue, i, t.depths, t.queue[i][1])
  BY DEF Ahead
<1>1. CASE i <= Len(s.queue)
  <2>1. i \in n..Len(s.queue) /\ i \in 1..Len(s.queue) /\ i \in Nat \ {0} /\ i <= Len(s.queue) + 1
    BY <1>0, <1>1
  <2>2. /\ ~OutOfScope(s.queue[i][1]) /\ s.depths[s.queue[i][1]] <= s.queue[i][2]
        /\ Due(s.queue, i, s.depths, s.queue[i][1])
    BY <2>1 DEF Ahead
  <2>3. t.depths[s.queue[i][1]] <= s.queue[i][2]
    <3>1. s.queue[i] \in Source \X Nat
      BY <2>1 DEF IsFrontier
    <3>2. s.queue[i][2] \in Nat /\ s.queue[i][1] \in Source
      BY <3>1
    <3>3. /\ t.depths[s.queue[i][1]] \in 0..Unseen /\ s.depths[s.queue[i][1]] \in 0..Unseen
          /\ t.depths[s.queue[i][1]] <= s.depths[s.queue[i][1]] /\ Unseen \in Nat
      <4>1. Unseen \in Nat
        BY WorksetAssumption DEF Unseen
      <4>2. s.depths \in [Source -> 0..Unseen] /\ t.depths \in [Source -> 0..Unseen]
        BY DEF IsFrontier
      <4>3. \A f \in Source : t.depths[f] <= s.depths[f]
        BY DEF LeadsTo
      <4> QED BY <3>2, <4>1, <4>2, <4>3
    <3> QED BY <2>2, <3>2, <3>3
  <2> QED BY <1>0, <2>1, <2>2, <2>3, StillDue
<1>2. CASE ~(i <= Len(s.queue))
  <2>1. i \in (Len(s.queue) + 1)..Len(t.queue)
    BY <1>0, <1>2
  <2> QED BY <2>1 DEF LeadsTo
<1> QED BY <1>1, <1>2

-----------------------------------------------------------------------------
(* The submission.                                                         *)

\* Contents of the variables that the other invariants need.
WorksetTypes ==
    /\ content \in [Source -> Parsed \cup {"outside", "gitlink", "vendored", "absent"}]
    /\ targets \in [Source -> SUBSET Source]
    /\ \A f \in Source : targets[f] # {} => content[f] \in Parsed
    /\ package \subseteq {f \in Source : content[f] = "source"}
    /\ status \in {"idle", "adding"}
    /\ roots \subseteq Source /\ visited \subseteq Source /\ submitted \subseteq Source
    /\ queue \in Seq(Source \X Nat) /\ depths \in [Source -> 0..Unseen]
    /\ dependencies \in [Source -> SUBSET Source]
    /\ next \in Nat \ {0} /\ nextSubmission \in Nat \ {0}
    /\ next <= nextSubmission /\ nextSubmission <= Len(queue) + 1
    /\ status = "idle" => queue = <<>> /\ submitted = {}

\* A visit that would parse the file.
Visits(q, i, f) == q[i][1] = f /\ q[i][2] <= MaxDepth

\* At item i the file is parsed or under way, or there is no reason to parse it,
\* or the budget is used up by what comes before it.
Settled(i, from, under) ==
    LET f == queue[i][1] IN
    \/ f \in visited \cup under \/ ~Available(f) \/ ~(queue[i][2] <= MaxDepth)
    \/ /\ Cardinality(visited) + Cardinality(under) = MaxFiles
       /\ \A g \in under : \E j \in from..(i - 1) : Visits(queue, j, g)

\* What is under way is to be visited, and everything submitted is settled, up
\* to the item that is not.
UnderWay(from, to, under) ==
    /\ visited \cap under = {} /\ under \subseteq Source
    /\ Cardinality(visited) + Cardinality(under) <= MaxFiles
    /\ \A g \in under : Available(g) /\ \E i \in from..(to - 1) : Visits(queue, i, g)
    /\ \A i \in from..(to - 1) : Settled(i, from, under)

SubmittedInv == UnderWay(next, nextSubmission, submitted)

\* The recursion of Batch is what it says.
Extended(batch, n) ==
    IF /\ Cardinality(visited) + Cardinality(submitted) + Cardinality(batch) < MaxFiles
       /\ Submittable(queue[n][1], queue[n][2], batch)
    THEN batch \cup {queue[n][1]} ELSE batch

LEMMA BatchUnfolded ==
    ASSUME Len(queue) \in Nat, nextSubmission \in Nat \ {0}
    PROVE  \E up : /\ up = [n \in 0..Len(queue) |-> IF n < nextSubmission THEN {}
                                                    ELSE Extended(up[n - 1], n)]
                   /\ Batch = up[Len(queue)]
<1> DEFINE N == Len(queue)
           Is(f, m) == f = [n \in 0..m |-> IF n < nextSubmission THEN {} ELSE Extended(f[n - 1], n)]
           S == {m \in 0..N : \E f : Is(f, m)}
<1>1. 0 \in S
  <2> DEFINE f == [n \in 0..0 |-> {}]
  <2>1. \A n \in 0..0 : n < nextSubmission
    OBVIOUS
  <2>2. Is(f, 0)
    BY <2>1
  <2> HIDE DEF Is
  <2> QED BY <2>2
<1>2. ASSUME NEW m \in 0..N, m # 0, m - 1 \in S PROVE m \in S
  <2>1. PICK f : Is(f, m - 1)
    BY <1>2
  <2> DEFINE last == IF m < nextSubmission THEN {} ELSE Extended(f[m - 1], m)
             g == [n \in 0..m |-> IF n = m THEN last ELSE f[n]]
  <2> HIDE DEF last
  <2>2. \A n \in 0..m : g[n] = IF n < nextSubmission THEN {} ELSE Extended(g[n - 1], n)
    <3>1. ASSUME NEW n \in 0..m, n # m
          PROVE  g[n] = IF n < nextSubmission THEN {} ELSE Extended(g[n - 1], n)
      <4>1. n \in 0..(m - 1) /\ g[n] = f[n]
        BY <1>2, <3>1
      <4>2. CASE n < nextSubmission
        BY <2>1, <4>1, <4>2
      <4>3. CASE ~(n < nextSubmission)
        <5>1. n - 1 \in 0..(m - 1) /\ n - 1 # m /\ n - 1 \in 0..m
          BY <4>1, <4>3
        <5>2. g[n - 1] = f[n - 1]
          BY <5>1
        <5> QED BY <2>1, <4>1, <4>3, <5>2
      <4> QED BY <4>2, <4>3
    <3>2. g[m] = IF m < nextSubmission THEN {} ELSE Extended(g[m - 1], m)
      <4>1. g[m] = last /\ g[m - 1] = f[m - 1]
        BY <1>2
      <4> QED BY <4>1 DEF last
    <3> QED BY <3>1, <3>2
  <2>3. Is(g, m)
    BY <2>2
  <2> QED BY <2>3
<1>3. N \in S
  <2>1. N \in Nat
    OBVIOUS
  <2> HIDE DEF S, N
  <2>2. \A n \in 0..N : n # 0 /\ n - 1 \in S => n \in S
    BY <1>2
  <2>3. 0..N \subseteq S
    BY ONLY <2>1, <1>1, <2>2, Climb
  <2> QED BY <2>1, <2>3
<1>4. \E f : Is(f, N)
  BY <1>3
<1> DEFINE up == CHOOSE f : Is(f, N)
<1>5. Batch = up[N]
  BY DEF Batch, Extended
<1>6. Is(up, N)
  <2> HIDE DEF Is
  <2> QED BY <1>4
<1> HIDE DEF up
<1> QED BY <1>5, <1>6

\* What is submitted is new, fits into the budget and is in the new part of the
\* frontier, and all of that part is settled by it.
LEMMA BatchSettles ==
    ASSUME WorksetTypes, SubmittedInv
    PROVE  UnderWay(next, Len(queue) + 1, submitted \cup Batch)
<1> DEFINE N == Len(queue)
<1>0. /\ N \in Nat /\ nextSubmission \in Nat \ {0} /\ next \in Nat \ {0} /\ next <= nextSubmission
      /\ nextSubmission <= N + 1 /\ \A i \in 1..N : queue[i] \in Source \X Nat
      /\ NSource \in Nat /\ MaxFiles \in Nat /\ MaxDepth \in Nat
  BY WorksetAssumption DEF WorksetTypes
<1>1. PICK up : /\ up = [n \in 0..N |-> IF n < nextSubmission THEN {} ELSE Extended(up[n - 1], n)]
                /\ Batch = up[N]
  BY <1>0, BatchUnfolded
<1>2. IsFiniteSet(Source) /\ visited \subseteq Source /\ submitted \subseteq Source
  <2>1. 1 \in Int /\ NSource \in Int
    BY <1>0
  <2>2. IsFiniteSet(Source)
    BY <2>1, FS_Interval DEF Source
  <2> QED BY <2>2 DEF WorksetTypes
<1>3. IsFiniteSet(visited) /\ IsFiniteSet(submitted)
  BY <1>2, FS_Subset
<1> DEFINE v == Cardinality(visited) w == Cardinality(submitted)
           Fits(b, n) ==
               /\ b \subseteq Source /\ b \cap (visited \cup submitted) = {}
               /\ v + w + Cardinality(b) <= MaxFiles
               /\ \A g \in b : Available(g) /\ \E i \in nextSubmission..n : Visits(queue, i, g)
               /\ \A i \in nextSubmission..n :
                     \/ queue[i][1] \in visited \cup submitted \cup b
                     \/ ~Available(queue[i][1]) \/ ~(queue[i][2] <= MaxDepth)
                     \/ /\ v + w + Cardinality(b) = MaxFiles
                        /\ \A g \in b : \E j \in nextSubmission..(i - 1) : Visits(queue, j, g)
           S == {n \in 0..N : Fits(up[n], n)}
<1>4. v \in Nat /\ w \in Nat /\ v + w <= MaxFiles
  BY <1>3, FS_CardinalityType DEF SubmittedInv, UnderWay
<1>5. ASSUME NEW n \in 0..N, n < nextSubmission PROVE Fits({}, n)
  <2>1. Cardinality({}) = 0
    BY FS_EmptySet
  <2>2. \A i \in nextSubmission..n : FALSE
    BY <1>0, <1>5
  <2>3. {} \subseteq Source /\ {} \cap (visited \cup submitted) = {}
    OBVIOUS
  <2>4. v + w + Cardinality({}) <= MaxFiles
    <3> HIDE DEF v, w
    <3> QED BY <1>0, <1>4, <2>1
  <2> HIDE DEF v, w
  <2> QED BY ONLY <2>2, <2>3, <2>4
<1> HIDE DEF v, w
<1>6. ASSUME NEW n \in 0..N, ~(n < nextSubmission), NEW b, Fits(b, n - 1)
      PROVE  Fits(Extended(b, n), n)
  <2> DEFINE f == queue[n][1] d == queue[n][2] c == b \cup {f}
  <2>0. /\ n \in 1..N /\ f \in Source /\ d \in Nat /\ n \in nextSubmission..n
        /\ \A i \in nextSubmission..n : i \in nextSubmission..(n - 1) \/ i = n
        /\ \A i \in nextSubmission..(n - 1) : i \in nextSubmission..n
    BY <1>0, <1>6
  <2>1. IsFiniteSet(b) /\ Cardinality(b) \in Nat
    BY <1>2, <1>6, FS_Subset, FS_CardinalityType
  <2>2. CASE v + w + Cardinality(b) < MaxFiles /\ Submittable(f, d, b)
    <3>1. Extended(b, n) = c
      BY <2>2 DEF Extended, v, w
    <3>2. f \notin visited \cup submitted \cup b /\ Available(f) /\ d <= MaxDepth
      BY <2>2 DEF Submittable
    <3>3. Cardinality(c) = Cardinality(b) + 1
      BY <2>1, <3>2, FS_AddElement
    <3>4. v + w + Cardinality(c) <= MaxFiles
      BY <1>0, <1>4, <2>1, <2>2, <3>3
    <3>5. c \subseteq Source /\ c \cap (visited \cup submitted) = {}
      BY <1>6, <2>0, <3>2
    <3>6. ASSUME NEW g \in c PROVE Available(g) /\ \E i \in nextSubmission..n : Visits(queue, i, g)
      <4>1. CASE g \in b
        BY <1>6, <2>0, <4>1
      <4>2. CASE g = f
        BY <2>0, <3>2, <4>2 DEF Visits
      <4> QED BY <3>6, <4>1, <4>2
    <3>7. ASSUME NEW i \in nextSubmission..n
          PROVE  \/ queue[i][1] \in visited \cup submitted \cup c
                 \/ ~Available(queue[i][1]) \/ ~(queue[i][2] <= MaxDepth)
      <4>1. CASE i = n
        BY <4>1
      <4>2. CASE i \in nextSubmission..(n - 1)
        <5>1. v + w + Cardinality(b) # MaxFiles
          BY <1>0, <1>4, <2>1, <2>2
        <5> QED BY <1>6, <4>2, <5>1
      <4> QED BY <2>0, <4>1, <4>2
    <3> HIDE DEF c, f, d
    <3> QED BY <3>1, <3>4, <3>5, <3>6, <3>7
  <2>3. CASE ~(v + w + Cardinality(b) < MaxFiles /\ Submittable(f, d, b))
    <3>1. Extended(b, n) = b
      BY <2>3 DEF Extended, v, w
    <3>2. \A g \in b : Available(g) /\ \E i \in nextSubmission..n : Visits(queue, i, g)
      BY <1>6, <2>0
    <3>3. ASSUME NEW i \in nextSubmission..n
          PROVE  \/ queue[i][1] \in visited \cup submitted \cup b
                 \/ ~Available(queue[i][1]) \/ ~(queue[i][2] <= MaxDepth)
                 \/ /\ v + w + Cardinality(b) = MaxFiles
                    /\ \A g \in b : \E j \in nextSubmission..(i - 1) : Visits(queue, j, g)
      <4>1. CASE i \in nextSubmission..(n - 1)
        BY <1>6, <4>1
      <4>2. CASE i = n
        <5>1. CASE Submittable(f, d, b)
          <6>1. v + w + Cardinality(b) = MaxFiles
            <7>1. v + w + Cardinality(b) <= MaxFiles
              BY <1>6
            <7>2. ~(v + w + Cardinality(b) < MaxFiles)
              BY <2>3, <5>1
            <7>3. v \in Int /\ w \in Int /\ Cardinality(b) \in Int /\ MaxFiles \in Int
              BY <1>0, <1>4, <2>1
            <7> HIDE DEF Fits, c, f, d
            <7> QED BY <7>1, <7>2, <7>3
          <6>2. \A g \in b : \E j \in nextSubmission..(n - 1) : Visits(queue, j, g)
            BY <1>6
          <6> QED BY <4>2, <6>1, <6>2
        <5>2. CASE ~Submittable(f, d, b)
          BY <4>2, <5>2 DEF Submittable
        <5> QED BY <5>1, <5>2
      <4> QED BY <2>0, <4>1, <4>2
    <3> QED BY <1>6, <3>1, <3>2, <3>3
  <2> QED BY <2>2, <2>3
<1>7. 0 \in S
  <2>1. up[0] = {} /\ 0 \in 0..N /\ 0 < nextSubmission
    BY <1>0, <1>1
  <2>2. Fits(up[0], 0)
    BY <1>5, <2>1
  <2> HIDE DEF Fits
  <2> QED BY <2>1, <2>2
<1>8. ASSUME NEW n \in 0..N, n # 0, n - 1 \in S PROVE n \in S
  <2> HIDE DEF Fits
  <2>1. CASE n < nextSubmission
    <3>1. up[n] = {}
      BY <1>1, <2>1
    <3> QED BY <1>5, <2>1, <3>1
  <2>2. CASE ~(n < nextSubmission)
    <3>1. up[n] = Extended(up[n - 1], n)
      BY <1>1, <2>2
    <3>2. Fits(up[n - 1], n - 1)
      BY <1>8
    <3>3. Fits(Extended(up[n - 1], n), n)
      BY <1>6, <2>2, <3>2
    <3> QED BY <3>1, <3>3
  <2> QED BY <2>1, <2>2
<1>9. Fits(Batch, N)
  <2> HIDE DEF S, N, Fits
  <2>2. \A n \in 0..N : n # 0 /\ n - 1 \in S => n \in S
    BY <1>8
  <2>3. 0..N \subseteq S
    BY ONLY <1>0, <1>7, <2>2, Climb
  <2>4. N \in S
    BY <1>0, <2>3
  <2> QED BY <1>1, <2>4 DEF S
<1> DEFINE both == submitted \cup Batch
<1>10. Cardinality(both) = w + Cardinality(Batch) /\ Cardinality(Batch) \in Nat
  <2>1. IsFiniteSet(Batch)
    BY <1>2, <1>9, FS_Subset
  <2>2. submitted \cap Batch = {}
    BY <1>9
  <2>3. Cardinality(submitted \cup Batch) = Cardinality(submitted) + Cardinality(Batch) - Cardinality(submitted \cap Batch)
    BY <1>3, <2>1, FS_Union
  <2>4. Cardinality({}) = 0 /\ Cardinality(Batch) \in Nat
    BY <2>1, FS_EmptySet, FS_CardinalityType
  <2>5. Cardinality(submitted) = w
    BY DEF w
  <2>6. Cardinality(both) = w + Cardinality(Batch)
    <3>1. Cardinality(both) = w + Cardinality(Batch) - Cardinality({})
      BY <2>2, <2>3, <2>5
    <3> HIDE DEF both
    <3> QED BY <1>4, <2>4, <3>1
  <2> QED BY <2>4, <2>6
<1>11. visited \cap both = {} /\ both \subseteq Source
  BY <1>2, <1>9 DEF SubmittedInv, UnderWay
<1>12. v + Cardinality(both) <= MaxFiles
  BY <1>0, <1>4, <1>9, <1>10
<1>13. ASSUME NEW g \in both PROVE Available(g) /\ \E i \in next..N : Visits(queue, i, g)
  <2>1. CASE g \in submitted
    <3>1. Available(g) /\ \E i \in next..(nextSubmission - 1) : Visits(queue, i, g)
      BY <2>1 DEF SubmittedInv, UnderWay
    <3>2. \A i \in next..(nextSubmission - 1) : i \in next..N
      BY <1>0
    <3> QED BY <3>1, <3>2
  <2>2. CASE g \in Batch
    <3>1. \A i \in nextSubmission..N : i \in next..N
      BY <1>0
    <3> QED BY <1>9, <2>2, <3>1
  <2> QED BY <1>13, <2>1, <2>2
<1>14. ASSUME NEW i \in next..N PROVE Settled(i, next, both)
  <2>1. CASE i < nextSubmission
    <3>1. i \in next..(nextSubmission - 1)
      BY <1>0, <2>1
    <3>2. Settled(i, next, submitted)
      BY <3>1 DEF SubmittedInv, UnderWay
    <3>3. CASE v + w = MaxFiles /\ \A g \in submitted : \E j \in next..(i - 1) : Visits(queue, j, g)
      <4>1. Cardinality(Batch) = 0
        BY <1>0, <1>4, <1>9, <1>10, <3>3
      <4>2. Batch = {}
        BY <1>2, <1>9, <4>1, FS_Subset, FS_EmptySet
      <4> QED BY <3>2, <4>2
    <3>4. CASE ~(v + w = MaxFiles /\ \A g \in submitted : \E j \in next..(i - 1) : Visits(queue, j, g))
      BY <3>2, <3>4 DEF Settled, v, w
    <3> QED BY <3>3, <3>4
  <2>2. CASE ~(i < nextSubmission)
    <3>1. i \in nextSubmission..N
      BY <1>0, <2>2
    <3>2. CASE v + w + Cardinality(Batch) = MaxFiles
               /\ \A g \in Batch : \E j \in nextSubmission..(i - 1) : Visits(queue, j, g)
      <4>1. v + Cardinality(both) = MaxFiles
        BY <1>4, <1>10, <3>2
      <4>2. \A g \in both : \E j \in next..(i - 1) : Visits(queue, j, g)
        <5>1. ASSUME NEW g \in submitted PROVE \E j \in next..(i - 1) : Visits(queue, j, g)
          <6>1. \E j \in next..(nextSubmission - 1) : Visits(queue, j, g)
            BY DEF SubmittedInv, UnderWay
          <6>2. \A j \in next..(nextSubmission - 1) : j \in next..(i - 1)
            BY <1>0, <2>2
          <6> QED BY <6>1, <6>2
        <5>2. \A j \in nextSubmission..(i - 1) : j \in next..(i - 1)
          BY <1>0
        <5> QED BY <3>2, <5>1, <5>2
      <4> HIDE DEF both
      <4> QED BY <4>1, <4>2 DEF Settled, v
    <3>3. CASE ~(v + w + Cardinality(Batch) = MaxFiles
               /\ \A g \in Batch : \E j \in nextSubmission..(i - 1) : Visits(queue, j, g))
      BY <1>9, <3>1, <3>3 DEF Settled
    <3> QED BY <3>2, <3>3
  <2> QED BY <2>1, <2>2
<1> DEFINE M == N + 1
<1>15. M - 1 = N
  BY <1>0
<1> HIDE DEF M
<1>16. \A g \in both : Available(g) /\ \E i \in next..(M - 1) : Visits(queue, i, g)
  BY <1>13, <1>15
<1>17. \A i \in next..(M - 1) : Settled(i, next, both)
  BY <1>14, <1>15
<1>18. Cardinality(visited) + Cardinality(both) <= MaxFiles
  BY <1>12 DEF v
<1>19. UnderWay(next, M, both)
  BY <1>11, <1>16, <1>17, <1>18, Zenon DEF UnderWay
<1> QED BY <1>19 DEF both, M

\* A turn takes from what is under way the file it parses, and adds to what is
\* parsed just that; what is under way still lies ahead.
LEMMA SubmitStep ==
    ASSUME WorksetTypes, SubmittedInv, next <= Len(queue),
           NEW V, V \subseteq {Item[1]} \cap (submitted \cup Batch),
           Item[2] <= MaxDepth /\ Item[1] \in submitted \cup Batch => Item[1] \in V,
           visited' = visited \cup V, submitted' = (submitted \cup Batch) \ V,
           next' = next + 1, nextSubmission' = Len(queue) + 1,
           \A i \in 1..Len(queue) : queue'[i] = queue[i], content' = content
    PROVE  SubmittedInv'
<1> DEFINE N == Len(queue) both == submitted \cup Batch left == both \ V
<1>1. PICK M : M = N + 1
  OBVIOUS
<1>2. UnderWay(next, M, both)
  BY <1>1, BatchSettles
<1>3. N \in Nat /\ next \in 1..N /\ M - 1 = N /\ M \in Nat /\ nextSubmission' = M /\ next' = next + 1
  BY <1>1 DEF WorksetTypes
<1>4. /\ visited \cap both = {} /\ both \subseteq Source /\ visited \subseteq Source
      /\ Cardinality(visited) + Cardinality(both) <= MaxFiles
      /\ \A g \in both : Available(g) /\ \E i \in next..N : Visits(queue, i, g)
      /\ \A i \in next..N : Settled(i, next, both)
  BY <1>2, <1>3 DEF UnderWay, WorksetTypes
<1> HIDE DEF both
<1>5. Cardinality(visited \cup V) + Cardinality(left) = Cardinality(visited) + Cardinality(both)
  <2>1. CASE V = {}
    <3>1. visited \cup V = visited /\ left = both
      BY <2>1
    <3> QED BY <3>1
  <2>2. CASE V # {}
    <3>1. V = {Item[1]} /\ Item[1] \in both /\ Item[1] \notin visited
      BY <1>4, <2>2 DEF both
    <3>2. IsFiniteSet(Source)
      <4>1. 1 \in Int /\ NSource \in Int
        BY WorksetAssumption
      <4> QED BY <4>1, FS_Interval DEF Source
    <3>3. IsFiniteSet(visited) /\ IsFiniteSet(both)
      BY <1>4, <3>2, FS_Subset
    <3>4. Cardinality(visited) \in Nat /\ Cardinality(both) \in Nat
      BY <3>3, FS_CardinalityType
    <3>5. Cardinality(visited \cup {Item[1]}) = Cardinality(visited) + 1
      BY <3>1, <3>3, FS_AddElement
    <3>6. Cardinality(both \ {Item[1]}) = Cardinality(both) - 1
      BY <3>1, <3>3, FS_RemoveElement
    <3>7. visited \cup V = visited \cup {Item[1]} /\ left = both \ {Item[1]}
      BY <3>1
    <3>8. Cardinality(visited \cup V) = Cardinality(visited) + 1 /\ Cardinality(left) = Cardinality(both) - 1
      BY <3>5, <3>6, <3>7
    <3> HIDE DEF left
    <3> QED BY <3>4, <3>8
  <2> QED BY <2>1, <2>2
\* It is not this turn that what is left waits for.
<1>6. ASSUME NEW g \in left, NEW i \in Nat, i <= N + 1, \E j \in next..(i - 1) : Visits(queue, j, g)
      PROVE  \E j \in next'..(i - 1) : queue'[j][1] = g /\ queue'[j][2] <= MaxDepth
  <2>1. PICK j \in next..(i - 1) : Visits(queue, j, g)
    BY <1>6
  <2>2. j # next
    BY <1>6, <2>1 DEF Visits, Item, both
  <2>3. j \in next'..(i - 1) /\ j \in 1..N
    BY <1>3, <1>6, <2>1, <2>2
  <2> QED BY <2>1, <2>3 DEF Visits
<1>7. ASSUME NEW g \in left
      PROVE  Available(g) /\ \E i \in next'..N : queue'[i][1] = g /\ queue'[i][2] <= MaxDepth
  <2>1. g \in both /\ M \in Nat /\ M <= N + 1
    BY <1>1, <1>3
  <2>2. \E j \in next..(M - 1) : Visits(queue, j, g)
    BY <1>3, <1>4, <2>1
  <2>3. \E i \in next'..(M - 1) : queue'[i][1] = g /\ queue'[i][2] <= MaxDepth
    BY <1>6, <2>1, <2>2
  <2> QED BY <1>3, <1>4, <2>1, <2>3 DEF Available
<1>8. ASSUME NEW i \in next'..N
      PROVE  \/ queue'[i][1] \in visited' \cup left \/ ~Available(queue'[i][1]) \/ ~(queue'[i][2] <= MaxDepth)
             \/ /\ Cardinality(visited') + Cardinality(left) = MaxFiles
                /\ \A g \in left : \E j \in next'..(i - 1) : queue'[j][1] = g /\ queue'[j][2] <= MaxDepth
  <2>1. i \in next..N /\ i \in 1..N /\ i \in Nat /\ i <= N + 1
    BY <1>3
  <2>2. Settled(i, next, both) /\ queue'[i] = queue[i]
    BY <1>4, <2>1
  <2>3. CASE Cardinality(visited) + Cardinality(both) = MaxFiles
             /\ \A g \in both : \E j \in next..(i - 1) : Visits(queue, j, g)
    <3>1. \A g \in left : \E j \in next'..(i - 1) : queue'[j][1] = g /\ queue'[j][2] <= MaxDepth
      BY <1>6, <2>1, <2>3
    <3> QED BY <1>5, <2>3, <3>1
  <2>4. CASE ~(Cardinality(visited) + Cardinality(both) = MaxFiles
             /\ \A g \in both : \E j \in next..(i - 1) : Visits(queue, j, g))
    <3>1. queue[i][1] \in visited \cup both \/ ~Available(queue[i][1]) \/ ~(queue[i][2] <= MaxDepth)
      BY <2>2, <2>4 DEF Settled
    <3>2. visited \cup both \subseteq visited' \cup left
      OBVIOUS
    <3> QED BY <2>2, <3>1, <3>2
  <2> QED BY <2>3, <2>4
<1>9. visited' \cap left = {} /\ left \subseteq Source /\ submitted' = left
      /\ Cardinality(visited') + Cardinality(left) <= MaxFiles
  BY <1>4, <1>5 DEF both
<1>10. \A g \in left : Available(g) /\ \E i \in next'..(nextSubmission' - 1) : queue'[i][1] = g /\ queue'[i][2] <= MaxDepth
  BY <1>3, <1>7
<1>11. \A i \in next'..(nextSubmission' - 1) :
             \/ queue'[i][1] \in visited' \cup left \/ ~Available(queue'[i][1]) \/ ~(queue'[i][2] <= MaxDepth)
             \/ /\ Cardinality(visited') + Cardinality(left) = MaxFiles
                /\ \A g \in left : \E j \in next'..(i - 1) : queue'[j][1] = g /\ queue'[j][2] <= MaxDepth
  <2>1. nextSubmission' - 1 = N
    BY <1>3
  <2> HIDE DEF N
  <2> QED BY <1>8, <2>1
<1> HIDE DEF left
<1>12. ASSUME NEW f PROVE Available(f)' <=> Available(f)
  BY DEF Available
<1>13. UnderWay(next, nextSubmission, submitted)'
  <2>1. (visited \cap submitted = {} /\ submitted \subseteq Source
         /\ Cardinality(visited) + Cardinality(submitted) <= MaxFiles)'
    BY <1>9
  <2>2. (\A g \in submitted : Available(g) /\ \E i \in next..(nextSubmission - 1) : Visits(queue, i, g))'
    BY <1>9, <1>10, <1>12 DEF Visits
  <2>3. (\A i \in next..(nextSubmission - 1) : Settled(i, next, submitted))'
    <3> SUFFICES ASSUME NEW i \in next'..(nextSubmission' - 1)
                 PROVE  Settled(i, next, submitted)'
      OBVIOUS
    <3>1. Available(queue[i][1])' <=> Available(queue'[i][1])
      BY DEF Available
    <3> HIDE DEF N
    <3>2. CASE queue'[i][1] \in visited' \cup left \/ ~Available(queue'[i][1]) \/ ~(queue'[i][2] <= MaxDepth)
      <4>1. (queue[i][1] \in visited \cup submitted \/ ~Available(queue[i][1]) \/ ~(queue[i][2] <= MaxDepth))'
        BY <1>9, <3>1, <3>2
      <4> QED BY <4>1 DEF Settled
    <3>3. CASE /\ Cardinality(visited') + Cardinality(left) = MaxFiles
               /\ \A g \in left : \E j \in next'..(i - 1) : queue'[j][1] = g /\ queue'[j][2] <= MaxDepth
      <4>1. (Cardinality(visited) + Cardinality(submitted) = MaxFiles
             /\ \A g \in submitted : \E j \in next..(i - 1) : Visits(queue, j, g))'
        BY <1>9, <3>3 DEF Visits
      <4> QED BY <4>1 DEF Settled
    <3> QED BY <1>11, <3>2, <3>3
  <2> QED BY <2>1, <2>2, <2>3 DEF UnderWay
<1> QED BY <1>13 DEF SubmittedInv

-----------------------------------------------------------------------------
(* The frontier.                                                           *)

Come(f) == Due(queue, next, depths, f)

RootsNear == \A f \in roots : depths[f] = 0

\* What was seen is parsed or accounted for, or its turn will come.
Accounted ==
    \A f \in Source : depths[f] # Unseen =>
        f \in visited \/ Reported(f) \/ content[f] \in {"gitlink", "absent"} \/ Come(f)

\* What was parsed has passed its depth on, or will once more.
PassedOn ==
    \A f \in visited :
        /\ content[f] \in Parsed /\ depths[f] <= MaxDepth
        /\ dependencies[f] = Siblings(f) \cup targets[f]
        /\ \A g \in dependencies[f] : depths[g] # Unseen /\ (depths[g] <= depths[f] + 1 \/ Come(f))

\* What is near enough is parsed, unless the number of files is exhausted.
Expanded ==
    \A f \in Source : depths[f] <= MaxDepth /\ content[f] \in Parsed =>
        f \in visited \/ <<f, "file_limit">> \in diagnostics \/ Come(f)

OmittedOnly ==
    \A f \in Source : <<f, "expansion_limit">> \in diagnostics => f \notin visited /\ content[f] \in Parsed

FrontierInv ==
    Ahead(queue, next, depths) /\ RootsNear /\ Accounted /\ PassedOn /\ Expanded /\ OmittedOnly

\* A turn: what enqueues, and what parses the file of the item or accounts for it.
LEMMA FrontierStep ==
    ASSUME WorksetTypes, FrontierInv, next <= Len(queue), next' = next + 1,
           content' = content, targets' = targets, package' = package, roots' = roots,
           NEW issues, IsFrontier(Frontier(depths', queue', diagnostics')),
           LeadsTo(Frontier(depths, queue, issues), Frontier(depths', queue', diagnostics')),
           visited \subseteq visited', visited' \subseteq visited \cup {Item[1]},
           \A x \in diagnostics : x \in issues \/ x[1] \in visited',
           \/ Item[1] \in visited' \/ content[Item[1]] \in {"gitlink", "absent"}
           \/ \E x \in diagnostics' : x[1] = Item[1],
           Item[2] <= MaxDepth /\ content[Item[1]] \in Parsed
               => Item[1] \in visited' \/ <<Item[1], "file_limit">> \in diagnostics',
           Item[1] \in visited' =>
               /\ content[Item[1]] \in Parsed /\ depths'[Item[1]] <= MaxDepth
               /\ dependencies'[Item[1]] = Siblings(Item[1]) \cup targets[Item[1]]
               /\ \A g \in dependencies'[Item[1]] : depths'[g] # Unseen /\ depths'[g] <= Item[2] + 1,
           \A f \in Source : f # Item[1] => dependencies'[f] = dependencies[f],
           \A f \in Source : <<f, "expansion_limit">> \in issues => f \notin visited' /\ content[f] \in Parsed
    PROVE  FrontierInv'
<1> DEFINE s == Frontier(depths, queue, issues) t == Frontier(depths', queue', diagnostics')
           n == next + 1 f0 == Item[1] d0 == Item[2]
<1>1. /\ s.depths = depths /\ s.queue = queue /\ s.diagnostics = issues
      /\ t.depths = depths' /\ t.queue = queue' /\ t.diagnostics = diagnostics'
      /\ IsFrontier(s) /\ IsFrontier(t) /\ LeadsTo(s, t)
  BY DEF Frontier, IsFrontier, WorksetTypes
<1>2. /\ n \in Nat \ {0} /\ n <= Len(queue) + 1 /\ Len(queue) \in Nat /\ next \in 1..Len(queue)
      /\ queue \in Seq(Source \X Nat) /\ MaxDepth \in Nat /\ Unseen \in Nat /\ MaxDepth < Unseen
      /\ \A f \in Source : depths[f] \in 0..Unseen /\ depths'[f] \in 0..Unseen /\ depths'[f] <= depths[f]
      /\ visited \subseteq Source /\ roots \subseteq Source
      /\ \A f \in Source : dependencies[f] \subseteq Source /\ Siblings(f) \cup targets[f] \subseteq Source
  <2>1. MaxDepth \in Nat /\ Unseen \in Nat /\ MaxDepth < Unseen
    BY WorksetAssumption DEF Unseen
  <2>2. depths \in [Source -> 0..Unseen] /\ depths' \in [Source -> 0..Unseen]
    BY <1>1 DEF IsFrontier
  <2>3. \A f \in Source : depths'[f] <= depths[f]
    BY <1>1 DEF LeadsTo
  <2>4. /\ n \in Nat \ {0} /\ n <= Len(queue) + 1 /\ Len(queue) \in Nat /\ next \in 1..Len(queue)
        /\ queue \in Seq(Source \X Nat)
    BY DEF WorksetTypes
  <2>5. /\ visited \subseteq Source /\ roots \subseteq Source
        /\ \A f \in Source : dependencies[f] \subseteq Source /\ Siblings(f) \cup targets[f] \subseteq Source
    BY DEF WorksetTypes, Siblings
  <2>6. \A f \in Source : depths[f] \in 0..Unseen /\ depths'[f] \in 0..Unseen
    BY <2>2
  <2> QED BY <2>1, <2>3, <2>4, <2>5, <2>6
<1>3. Item = <<f0, d0>> /\ f0 \in Source /\ d0 \in Nat /\ Item = queue[next]
  BY <1>2 DEF Item
<1>4. /\ Ahead(queue, next, depths) /\ Ahead(queue, n, depths)
      /\ ~OutOfScope(f0) /\ depths[f0] <= d0 /\ Due(queue, next, depths, f0)
  <2>1. Ahead(queue, next, depths) /\ next \in next..Len(queue)
    BY <1>2 DEF FrontierInv
  <2>2. \A i \in n..Len(queue) : i \in next..Len(queue)
    BY <1>2
  <2> QED BY <1>3, <2>1, <2>2 DEF Ahead
<1> HIDE DEF s, t, f0, d0
\* What was to come and is not this item is still to come.
<1>5. ASSUME NEW f \in Source, Come(f) PROVE Due(queue, n, depths, f) \/ (f = f0 /\ d0 = depths[f])
  <2>1. PICK i \in next..Len(queue) : queue[i] = <<f, depths[f]>>
    BY <1>5 DEF Come, Due
  <2>2. CASE i = next
    BY <1>3, <2>1, <2>2
  <2>3. CASE i # next
    <3>1. i \in n..Len(queue)
      BY <1>2, <2>3
    <3> QED BY <2>1, <3>1 DEF Due
  <2> QED BY <2>2, <2>3
<1>6. ASSUME NEW f \in Source, ~OutOfScope(f), Due(queue, n, depths, f) \/ depths'[f] # depths[f]
      PROVE  Come(f)'
  <2>1. Due(t.queue, n, t.depths, f)
    BY <1>1, <1>2, <1>6, StillDue
  <2> QED BY <1>1, <2>1 DEF Come, Due
<1>7. Ahead(queue, next, depths)'
  <2>1. Ahead(t.queue, n, t.depths)
    BY <1>1, <1>2, <1>4, StillAhead
  <2>2. Ahead(queue', n, depths')
    BY <1>1, <2>1
  <2> QED BY <2>2 DEF Ahead, Due, OutOfScope
<1>8. RootsNear'
  BY <1>2 DEF FrontierInv, RootsNear
<1>9. ASSUME NEW f \in Source, depths'[f] # Unseen
      PROVE  (f \in visited \/ Reported(f) \/ content[f] \in {"gitlink", "absent"} \/ Come(f))'
  <2>1. CASE depths'[f] # depths[f]
    <3>1. CASE ~OutOfScope(f)
      BY <1>6, <2>1, <3>1
    <3>2. CASE OutOfScope(f) /\ depths[f] = Unseen
      <4>1. <<f, "source_scope">> \in diagnostics'
        BY <1>1, <2>1, <3>2 DEF LeadsTo
      <4> QED BY <4>1 DEF Reported
    <3>3. CASE OutOfScope(f) /\ depths[f] # Unseen
      <4>1. f \in visited \/ Reported(f) \/ content[f] \in {"gitlink", "absent"} \/ Come(f)
        BY <3>3 DEF FrontierInv, Accounted
      <4>2. ~Come(f)
        <5>1. ASSUME NEW i \in next..Len(queue) PROVE queue[i] # <<f, depths[f]>>
          BY <1>4, <3>3, <5>1 DEF Ahead
        <5> QED BY <5>1 DEF Come, Due
      <4>3. CASE Reported(f)
        <5>1. PICK x \in diagnostics : x[1] = f
          BY <4>3 DEF Reported
        <5>2. x \in diagnostics' \/ f \in visited'
          BY <1>1, <5>1 DEF LeadsTo
        <5> QED BY <5>1, <5>2 DEF Reported
      <4> QED BY <4>1, <4>2, <4>3
    <3> QED BY <3>1, <3>2, <3>3
  <2>2. CASE depths'[f] = depths[f]
    <3>1. f \in visited \/ Reported(f) \/ content[f] \in {"gitlink", "absent"} \/ Come(f)
      BY <1>9, <2>2 DEF FrontierInv, Accounted
    <3>2. CASE Reported(f)
      <4>1. PICK x \in diagnostics : x[1] = f
        BY <3>2 DEF Reported
      <4>2. x \in diagnostics' \/ f \in visited'
        BY <1>1, <4>1 DEF LeadsTo
      <4> QED BY <4>1, <4>2 DEF Reported
    <3>3. CASE Come(f)
      <4>1. CASE f = f0
        BY <4>1 DEF Reported, f0
      <4>2. CASE f # f0
        <5>1. Due(queue, n, depths, f)
          BY <1>5, <3>3, <4>2
        <5>2. ~OutOfScope(f)
          <6>1. PICK i \in next..Len(queue) : queue[i] = <<f, depths[f]>>
            BY <3>3 DEF Come, Due
          <6> QED BY <1>4, <6>1 DEF Ahead
        <5> QED BY <1>6, <5>1, <5>2
      <4> QED BY <4>1, <4>2
    <3> QED BY <3>1, <3>2, <3>3
  <2> QED BY <2>1, <2>2
<1>10. ASSUME NEW f \in visited'
       PROVE  /\ content[f] \in Parsed /\ depths'[f] <= MaxDepth
              /\ dependencies'[f] = Siblings(f) \cup targets[f]
              /\ \A g \in dependencies'[f] : depths'[g] # Unseen /\ (depths'[g] <= depths'[f] + 1 \/ Come(f)')
  <2>1. CASE f = f0
    <3>1. /\ content[f] \in Parsed /\ depths'[f] <= MaxDepth
          /\ dependencies'[f] = Siblings(f) \cup targets[f]
          /\ \A g \in dependencies'[f] : depths'[g] # Unseen /\ depths'[g] <= d0 + 1
      BY <1>10, <2>1 DEF f0, d0
    <3>2. depths'[f] = d0 \/ Come(f)'
      <4>1. Due(queue, n, depths, f) \/ d0 = depths[f]
        BY <1>3, <1>4, <1>5, <2>1 DEF Come
      <4> QED BY <1>3, <1>4, <1>6, <2>1, <4>1
    <3> QED BY <3>1, <3>2
  <2>2. CASE f # f0
    <3>1. f \in visited /\ f \in Source /\ dependencies'[f] = dependencies[f]
      BY <1>2, <2>2 DEF f0
    <3>2. /\ content[f] \in Parsed /\ depths[f] <= MaxDepth
          /\ dependencies[f] = Siblings(f) \cup targets[f]
          /\ \A g \in dependencies[f] : depths[g] # Unseen /\ (depths[g] <= depths[f] + 1 \/ Come(f))
      BY <3>1 DEF FrontierInv, PassedOn
    <3>3. ~OutOfScope(f)
      BY <3>2 DEF OutOfScope, Parsed
    <3>4. depths'[f] <= MaxDepth
      BY <1>2, <3>1, <3>2
    <3>5. Come(f) => Come(f)'
      BY <1>5, <1>6, <2>2, <3>1, <3>3
    <3>6. depths'[f] = depths[f] \/ Come(f)'
      BY <1>6, <3>1, <3>3
    <3>7. ASSUME NEW g \in dependencies[f]
          PROVE  depths'[g] # Unseen /\ (depths'[g] <= depths'[f] + 1 \/ Come(f)')
      <4>1. g \in Source /\ depths[g] \in 0..Unseen /\ depths'[g] \in 0..Unseen /\ depths'[g] <= depths[g]
        BY <1>2, <3>1
      <4>2. depths[g] # Unseen /\ (depths[g] <= depths[f] + 1 \/ Come(f))
        BY <3>2
      <4>3. depths'[g] # Unseen
        BY <1>2, <4>1, <4>2
      <4>4. CASE depths[g] <= depths[f] + 1 /\ depths'[f] = depths[f]
        <5>1. depths[f] \in Int
          BY <1>2, <3>1
        <5>2. depths'[g] <= depths'[f] + 1
          BY <1>2, <4>1, <4>4, <5>1
        <5> QED BY <4>3, <5>2
      <4>5. CASE ~(depths[g] <= depths[f] + 1 /\ depths'[f] = depths[f])
        BY <3>5, <3>6, <4>2, <4>3, <4>5
      <4> QED BY <4>4, <4>5
    <3> QED BY <3>1, <3>2, <3>4, <3>7
  <2> QED BY <2>1, <2>2
<1>11. ASSUME NEW f \in Source, depths'[f] <= MaxDepth, content[f] \in Parsed
       PROVE  f \in visited' \/ <<f, "file_limit">> \in diagnostics' \/ Come(f)'
  <2>1. ~OutOfScope(f)
    BY <1>11 DEF OutOfScope, Parsed
  <2>2. CASE depths'[f] # depths[f]
    BY <1>6, <2>1, <2>2
  <2>3. CASE depths'[f] = depths[f]
    <3>1. f \in visited \/ <<f, "file_limit">> \in diagnostics \/ Come(f)
      BY <1>11, <2>3 DEF FrontierInv, Expanded
    <3>2. CASE <<f, "file_limit">> \in diagnostics
      <4>1. <<f, "file_limit">> \in issues \/ f \in visited'
        <5>1. <<f, "file_limit">>[1] = f
          OBVIOUS
        <5> QED BY <3>2, <5>1
      <4> QED BY <1>1, <4>1 DEF LeadsTo
    <3>3. CASE Come(f)
      <4>1. CASE f = f0 /\ d0 = depths[f]
        BY <1>11, <2>3, <4>1 DEF f0, d0
      <4>2. CASE ~(f = f0 /\ d0 = depths[f])
        BY <1>5, <1>6, <2>1, <3>3, <4>2
      <4> QED BY <4>1, <4>2
    <3> QED BY <3>1, <3>2, <3>3
  <2> QED BY <2>2, <2>3
<1>12. ASSUME NEW f \in Source, <<f, "expansion_limit">> \in diagnostics'
       PROVE  f \notin visited' /\ content[f] \in Parsed
  <2>1. <<f, "expansion_limit">> \in issues
    BY <1>1, <1>12 DEF LeadsTo
  <2> QED BY <2>1
<1>13. Accounted'
  BY <1>9 DEF Accounted
<1>14. PassedOn'
  BY <1>10 DEF PassedOn, Siblings
<1>15. Expanded'
  BY <1>11 DEF Expanded
<1>16. OmittedOnly'
  BY <1>12 DEF OmittedOnly
<1> QED BY <1>7, <1>8, <1>13, <1>14, <1>15, <1>16 DEF FrontierInv

-----------------------------------------------------------------------------
(* The steps.                                                              *)

\* What the definitions that follow Enqueued come to.
LEMMA EnqueueAllLeads ==
    ASSUME WorksetTypes, NEW items, items \in Seq(Source \X Nat), NEW issues, EnqueueAll(items, issues)
    PROVE  /\ IsFrontier(Frontier(depths', queue', diagnostics'))
           /\ LeadsTo(Frontier(depths, queue, issues), Frontier(depths', queue', diagnostics'))
           /\ Len(queue) <= Len(queue') /\ \A i \in 1..Len(queue) : queue'[i] = queue[i]
           /\ \A k \in 1..Len(items) : depths'[items[k][1]] <= items[k][2]
<1> DEFINE s == Frontier(depths, queue, issues) e == Enqueued(items, issues)
           t == Frontier(depths', queue', diagnostics')
<1>1. s.depths = depths /\ s.queue = queue /\ s.diagnostics = issues
  BY DEF Frontier
<1>2. IsFrontier(s)
  BY <1>1 DEF IsFrontier, WorksetTypes
<1>3. /\ IsFrontier(e) /\ LeadsTo(s, e)
      /\ \A k \in 1..Len(items) : e.depths[items[k][1]] <= items[k][2]
  BY <1>2, EnqueuedLeads
<1>4. depths' = e.depths /\ queue' = e.queue /\ diagnostics' = e.diagnostics
  BY DEF EnqueueAll
<1>5. t.depths = e.depths /\ t.queue = e.queue /\ t.diagnostics = e.diagnostics
  BY <1>4 DEF Frontier
<1> HIDE DEF s, e, t
<1>6. IsFrontier(t)
  BY <1>3, <1>5 DEF IsFrontier
<1>7. LeadsTo(s, t)
  BY <1>3, <1>5 DEF LeadsTo
<1>8. Len(queue) <= Len(queue') /\ \A i \in 1..Len(queue) : queue'[i] = queue[i]
  BY <1>1, <1>3, <1>4 DEF LeadsTo
<1> QED BY <1>3, <1>4, <1>6, <1>7, <1>8 DEF s, t

\* What a file that is parsed enqueues.
LEMMA DiscoveredIs ==
    ASSUME WorksetTypes, NEW f \in Source, NEW d \in Nat
    PROVE  /\ Discovered(f, d) \in Seq(Source \X Nat)
           /\ \A g \in Siblings(f) : \E k \in 1..Len(Discovered(f, d)) : Discovered(f, d)[k] = <<g, d>>
           /\ \A g \in targets[f] : \E k \in 1..Len(Discovered(f, d)) : Discovered(f, d)[k] = <<g, d + 1>>
<1> DEFINE near == Siblings(f) far == targets[f] e == d + 1 a == AtDepth(near, d) b == AtDepth(far, e)
<1>0. near \subseteq Source /\ far \subseteq Source /\ e \in Nat
  BY DEF WorksetTypes, Siblings
<1> HIDE DEF near, far, e
<1>1. a \in Seq(Source \X Nat) /\ \A g \in near : \E k \in 1..Len(a) : a[k] = <<g, d>>
  BY <1>0, AtDepthIs
<1>2. b \in Seq(Source \X Nat) /\ \A g \in far : \E k \in 1..Len(b) : b[k] = <<g, e>>
  BY <1>0, AtDepthIs
<1> HIDE DEF a, b
<1>3. a \o b \in Seq(Source \X Nat) /\ Len(a \o b) = Len(a) + Len(b) /\ Len(a) \in Nat /\ Len(b) \in Nat
  BY <1>1, <1>2
<1>4. ASSUME NEW g \in near PROVE \E k \in 1..Len(a \o b) : (a \o b)[k] = <<g, d>>
  <2>1. PICK k \in 1..Len(a) : a[k] = <<g, d>>
    BY <1>1
  <2>2. k \in 1..Len(a \o b) /\ (a \o b)[k] = a[k]
    BY <1>1, <1>2, <1>3
  <2> QED BY <2>1, <2>2
<1>5. ASSUME NEW g \in far PROVE \E k \in 1..Len(a \o b) : (a \o b)[k] = <<g, e>>
  <2>1. PICK k \in 1..Len(b) : b[k] = <<g, e>>
    BY <1>2
  <2>2. Len(a) + k \in 1..Len(a \o b) /\ (a \o b)[Len(a) + k] = b[k]
    BY <1>1, <1>2, <1>3
  <2> QED BY <2>1, <2>2
<1>6. Discovered(f, d) = a \o b
  BY DEF Discovered, a, b, near, far, e
<1> QED BY <1>3, <1>4, <1>5, <1>6 DEF near, far, e

\* The item of a turn is a file and a depth.
LEMMA ItemIs ==
    ASSUME WorksetTypes, next <= Len(queue)
    PROVE  /\ Item = queue[next] /\ Item[1] \in Source /\ Item[2] \in Nat
           /\ Len(queue) \in Nat /\ next \in 1..Len(queue)
<1>1. queue \in Seq(Source \X Nat) /\ Len(queue) \in Nat /\ next \in 1..Len(queue)
  BY DEF WorksetTypes
<1>2. queue[next] \in Source \X Nat
  BY <1>1
<1> QED BY <1>1, <1>2 DEF Item

\* What every turn keeps.
LEMMA TurnTypes ==
    ASSUME WorksetTypes, SubmittedInv, Turn, IsFrontier(Frontier(depths', queue', diagnostics')),
           Len(queue) <= Len(queue'), visited' \subseteq visited \cup {Item[1]},
           submitted' \subseteq submitted \cup Batch, dependencies' \in [Source -> SUBSET Source],
           status' = "adding"
    PROVE  WorksetTypes'
<1>1. next <= Len(queue) /\ next' = next + 1 /\ nextSubmission' = Len(queue) + 1
      /\ content' = content /\ targets' = targets /\ package' = package /\ roots' = roots
  BY DEF Turn, input
<1>2. Item[1] \in Source /\ Len(queue) \in Nat /\ next \in 1..Len(queue)
  BY <1>1, ItemIs
<1>3. submitted \cup Batch \subseteq Source
  BY BatchSettles DEF UnderWay
<1>4. queue' \in Seq(Source \X Nat) /\ depths' \in [Source -> 0..Unseen] /\ Len(queue') \in Nat
  BY DEF IsFrontier, Frontier
<1>5. /\ next' \in Nat \ {0} /\ nextSubmission' \in Nat \ {0}
      /\ next' <= nextSubmission' /\ nextSubmission' <= Len(queue') + 1
  BY <1>1, <1>2, <1>4
<1>6. visited' \subseteq Source /\ submitted' \subseteq Source /\ roots' \subseteq Source
  BY <1>1, <1>2, <1>3 DEF WorksetTypes
<1>7. (/\ content \in [Source -> Parsed \cup {"outside", "gitlink", "vendored", "absent"}]
       /\ targets \in [Source -> SUBSET Source]
       /\ \A f \in Source : targets[f] # {} => content[f] \in Parsed
       /\ package \subseteq {f \in Source : content[f] = "source"})'
  BY <1>1 DEF WorksetTypes, Parsed
<1> QED BY <1>4, <1>5, <1>6, <1>7 DEF WorksetTypes

\* What the steps keep.
WorksetInv == WorksetTypes /\ SubmittedInv /\ FrontierInv

\* A file that may be parsed was submitted: with the batch of its turn everything
\* before the end of the budget is.
LEMMA Waiting ==
    ASSUME WorksetTypes, SubmittedInv, next <= Len(queue)
    PROVE  /\ \A f \in submitted \cup Batch : Available(f) /\ f \notin visited /\ f \in Source
           /\ Cardinality(visited) >= MaxFiles => submitted \cup Batch = {}
           /\ Item[1] \notin visited /\ Available(Item[1]) /\ Limit(Item[1], Item[2]) = "none"
                => Item[1] \in submitted \cup Batch
<1> DEFINE both == submitted \cup Batch
<1>1. PICK M : M = Len(queue) + 1
  OBVIOUS
<1>2. UnderWay(next, M, both)
  BY <1>1, BatchSettles
<1>3. next \in next..(M - 1) /\ next \in Nat
  BY <1>1, ItemIs
<1>4. /\ visited \cap both = {} /\ both \subseteq Source
      /\ Cardinality(visited) + Cardinality(both) <= MaxFiles
      /\ \A f \in both : Available(f) /\ Settled(next, next, both)
  BY <1>2, <1>3 DEF UnderWay
<1>5. Settled(next, next, both)
  BY <1>2, <1>3 DEF UnderWay
<1>6. IsFiniteSet(Source)
  <2>1. 1 \in Int /\ NSource \in Int
    BY WorksetAssumption
  <2> QED BY <2>1, FS_Interval DEF Source
<1>7. Cardinality(visited) \in Nat /\ Cardinality(both) \in Nat /\ IsFiniteSet(both) /\ MaxFiles \in Nat
  <2>1. IsFiniteSet(visited) /\ IsFiniteSet(both)
    BY <1>4, <1>6, FS_Subset DEF WorksetTypes
  <2> QED BY <2>1, FS_CardinalityType, WorksetAssumption
<1> HIDE DEF both
<1>8. ASSUME Cardinality(visited) >= MaxFiles PROVE both = {}
  <2>1. Cardinality(both) = 0
    BY <1>4, <1>7, <1>8
  <2> QED BY <1>7, <2>1, FS_EmptySet
<1>9. ASSUME Item[1] \notin visited, Available(Item[1]), Limit(Item[1], Item[2]) = "none"
      PROVE  Item[1] \in both
  <2>1. Item[2] <= MaxDepth /\ ~(Cardinality(visited) >= MaxFiles)
    BY <1>9, ItemIs, WorksetAssumption DEF Limit
  <2>2. CASE \A g \in both : \E j \in next..(next - 1) : Visits(queue, j, g)
    <3>1. \A j \in next..(next - 1) : FALSE
      BY <1>3
    <3>2. both = {}
      BY <2>2, <3>1
    <3>3. Cardinality(both) = 0
      BY <3>2, FS_EmptySet
    <3>4. ~(Cardinality(visited) + Cardinality(both) = MaxFiles)
      BY <1>7, <2>1, <3>3
    <3> QED BY <1>5, <1>9, <2>1, <3>4 DEF Settled, Item
  <2>3. CASE ~(\A g \in both : \E j \in next..(next - 1) : Visits(queue, j, g))
    BY <1>5, <1>9, <2>1, <2>3 DEF Settled, Item
  <2> QED BY <2>2, <2>3
<1> QED BY <1>4, <1>8, <1>9 DEF both

\* The item of a turn is in scope and its file no deeper than it says.
LEMMA ItemAhead ==
    ASSUME WorksetInv, next <= Len(queue)
    PROVE  ~OutOfScope(Item[1]) /\ depths[Item[1]] <= Item[2]
<1>1. next \in next..Len(queue) /\ Item = queue[next]
  BY ItemIs DEF WorksetInv
<1> QED BY <1>1 DEF WorksetInv, FrontierInv, Ahead

\* What a turn does in any case.
LEMMA TurnIs ==
    ASSUME Turn
    PROVE  /\ status = "adding" /\ next <= Len(queue)
           /\ next' = next + 1 /\ nextSubmission' = Len(queue) + 1
           /\ targets' = targets /\ package' = package /\ content' = content
           /\ roots' = roots /\ adds' = adds
BY DEF Turn, input

\* Nothing is enqueued: the frontier leads to itself.
LEMMA NothingEnqueued ==
    ASSUME WorksetTypes, depths' = depths, queue' = queue
    PROVE  /\ IsFrontier(Frontier(depths', queue', diagnostics'))
           /\ LeadsTo(Frontier(depths, queue, diagnostics'), Frontier(depths', queue', diagnostics'))
           /\ Len(queue) <= Len(queue')
<1> DEFINE t == Frontier(depths', queue', diagnostics')
<1>1. IsFrontier(t)
  BY DEF IsFrontier, Frontier, WorksetTypes
<1>2. LeadsTo(t, t)
  BY <1>1, LeadsToItself
<1>3. Len(queue) \in Nat
  BY DEF WorksetTypes
<1> HIDE DEF t
<1>4. t = Frontier(depths, queue, diagnostics')
  BY DEF t
<1> QED BY <1>1, <1>2, <1>3, <1>4 DEF t

\* A nearer visit of a parsed file.
LEMMA RevisitKeeps ==
    ASSUME WorksetInv, Revisit
    PROVE  WorksetInv'
<1> DEFINE f == Item[1] d == Item[2] items == AtDepth(dependencies[f], d + 1)
<1>1. Turn /\ f \in visited /\ EnqueueAll(items, diagnostics)
      /\ submitted' = submitted \cup Batch /\ status' = status
      /\ dependencies' = dependencies /\ visited' = visited
  BY DEF Revisit, Revisited
<1>2. /\ next <= Len(queue) /\ next' = next + 1 /\ nextSubmission' = Len(queue) + 1 /\ status = "adding"
      /\ content' = content /\ targets' = targets /\ package' = package /\ roots' = roots
  BY <1>1, TurnIs
<1>3. WorksetTypes /\ SubmittedInv /\ FrontierInv
  BY DEF WorksetInv
<1>4. f \in Source /\ d \in Nat /\ d + 1 \in Nat /\ dependencies[f] \subseteq Source
      /\ dependencies \in [Source -> SUBSET Source]
  <2>1. f \in Source /\ d \in Nat
    BY <1>2, <1>3, ItemIs
  <2>2. dependencies \in [Source -> SUBSET Source]
    BY <1>3 DEF WorksetTypes
  <2> HIDE DEF f, d
  <2> QED BY <2>1, <2>2
<1>5. /\ items \in Seq(Source \X Nat)
      /\ \A g \in dependencies[f] : \E k \in 1..Len(items) : items[k] = <<g, d + 1>>
  <2> DEFINE fs == dependencies[f] e == d + 1
  <2>1. fs \subseteq Source /\ e \in Nat
    BY <1>4
  <2> HIDE DEF fs, e
  <2>2. AtDepth(fs, e) \in Seq(Source \X Nat) /\ \A g \in fs : \E k \in 1..Len(AtDepth(fs, e)) : AtDepth(fs, e)[k] = <<g, e>>
    BY <2>1, AtDepthIs
  <2> QED BY <2>2 DEF fs, e
<1>6. f \notin submitted \cup Batch
  BY <1>1, <1>2, <1>3, Waiting
<1> HIDE DEF items
<1>7. /\ IsFrontier(Frontier(depths', queue', diagnostics'))
      /\ LeadsTo(Frontier(depths, queue, diagnostics), Frontier(depths', queue', diagnostics'))
      /\ Len(queue) <= Len(queue') /\ \A i \in 1..Len(queue) : queue'[i] = queue[i]
      /\ \A k \in 1..Len(items) : depths'[items[k][1]] <= items[k][2]
  BY <1>1, <1>3, <1>5, EnqueueAllLeads
<1>8. WorksetTypes'
  BY <1>1, <1>2, <1>3, <1>4, <1>7, TurnTypes
<1>9. SubmittedInv'
  <2>1. {} \subseteq {Item[1]} \cap (submitted \cup Batch)
        /\ (Item[2] <= MaxDepth /\ Item[1] \in submitted \cup Batch => Item[1] \in {})
        /\ visited' = visited \cup {} /\ submitted' = (submitted \cup Batch) \ {}
    BY <1>1, <1>6
  <2> HIDE DEF f, d
  <2> QED BY <1>2, <1>3, <1>7, <2>1, SubmitStep
<1>10. /\ content[f] \in Parsed /\ depths'[f] <= MaxDepth
       /\ dependencies'[f] = Siblings(f) \cup targets[f]
       /\ \A g \in dependencies'[f] : depths'[g] # Unseen /\ depths'[g] <= d + 1
  <2>1. /\ content[f] \in Parsed /\ depths[f] <= MaxDepth
        /\ dependencies[f] = Siblings(f) \cup targets[f]
        /\ \A g \in dependencies[f] : depths[g] # Unseen
    BY <1>1, <1>3 DEF FrontierInv, PassedOn
  <2>2. \A g \in Source : depths'[g] <= depths[g] /\ depths'[g] \in 0..Unseen /\ depths[g] \in 0..Unseen
    BY <1>3, <1>7 DEF LeadsTo, Frontier, IsFrontier, WorksetTypes
  <2>3. MaxDepth \in Nat /\ Unseen \in Nat
    BY WorksetAssumption DEF Unseen
  <2>4. depths'[f] <= MaxDepth
    BY <1>4, <2>1, <2>2, <2>3
  <2>5. ASSUME NEW g \in dependencies[f] PROVE depths'[g] # Unseen /\ depths'[g] <= d + 1
    <3>1. g \in Source /\ depths[g] # Unseen
      BY <1>4, <2>1
    <3>2. PICK k \in 1..Len(items) : items[k] = <<g, d + 1>>
      BY <1>5
    <3>3. depths'[g] <= d + 1
      BY <1>7, <3>2
    <3>4. depths'[g] # Unseen
      BY <2>2, <2>3, <3>1
    <3> QED BY <3>3, <3>4
  <2> QED BY <1>1, <2>1, <2>4, <2>5
<1>11. \A g \in Source : <<g, "expansion_limit">> \in diagnostics => g \notin visited' /\ content[g] \in Parsed
  BY <1>1, <1>3 DEF FrontierInv, OmittedOnly
<1>12. FrontierInv'
  BY <1>1, <1>2, <1>3, <1>7, <1>10, <1>11, FrontierStep
<1> QED BY <1>8, <1>9, <1>12 DEF WorksetInv

\* A path without contents.
LEMMA SkipKeeps ==
    ASSUME WorksetInv, Skip
    PROVE  WorksetInv'
<1> DEFINE f == Item[1]
<1>1. Turn /\ f \notin visited /\ content[f] \in {"gitlink", "absent"}
      /\ submitted' = submitted \cup Batch /\ status' = status /\ queue' = queue
      /\ depths' = depths /\ dependencies' = dependencies /\ visited' = visited /\ diagnostics' = diagnostics
  BY DEF Skip, Gitlink, explored
<1>2. /\ next <= Len(queue) /\ next' = next + 1 /\ nextSubmission' = Len(queue) + 1 /\ status = "adding"
      /\ content' = content /\ targets' = targets /\ package' = package /\ roots' = roots
  BY <1>1, TurnIs
<1>3. WorksetTypes /\ SubmittedInv /\ FrontierInv
  BY DEF WorksetInv
<1>4. content[f] \notin Parsed /\ ~Available(f)
  BY <1>1 DEF Parsed, Available
<1>5. f \notin submitted \cup Batch
  BY <1>2, <1>3, <1>4, Waiting
<1>6. /\ IsFrontier(Frontier(depths', queue', diagnostics'))
      /\ LeadsTo(Frontier(depths, queue, diagnostics), Frontier(depths', queue', diagnostics'))
      /\ Len(queue) <= Len(queue') /\ \A i \in 1..Len(queue) : queue'[i] = queue[i]
  BY <1>1, <1>3, NothingEnqueued
<1>7. WorksetTypes'
  <2>1. dependencies' \in [Source -> SUBSET Source]
    BY <1>1, <1>3 DEF WorksetTypes
  <2> QED BY <1>1, <1>2, <1>3, <1>6, <2>1, TurnTypes
<1>8. SubmittedInv'
  <2>1. {} \subseteq {Item[1]} \cap (submitted \cup Batch)
        /\ (Item[2] <= MaxDepth /\ Item[1] \in submitted \cup Batch => Item[1] \in {})
        /\ visited' = visited \cup {} /\ submitted' = (submitted \cup Batch) \ {}
    BY <1>1, <1>5
  <2> HIDE DEF f
  <2> QED BY <1>2, <1>3, <1>6, <2>1, SubmitStep
<1>9. \A g \in Source : <<g, "expansion_limit">> \in diagnostics => g \notin visited' /\ content[g] \in Parsed
  BY <1>1, <1>3 DEF FrontierInv, OmittedOnly
<1>10. FrontierInv'
  BY <1>1, <1>2, <1>3, <1>4, <1>6, <1>9, FrontierStep
<1> QED BY <1>7, <1>8, <1>10 DEF WorksetInv

\* A file that is reported instead of parsed.
LEMMA OmitKeeps ==
    ASSUME WorksetInv, Omit
    PROVE  WorksetInv'
<1> DEFINE f == Item[1] d == Item[2]
<1>1. /\ Turn /\ f \notin visited /\ (Available(f) \/ Ignored(f)) /\ Limit(f, d) # "none"
      /\ diagnostics' = diagnostics \cup {<<f, Limit(f, d)>>}
      /\ submitted' = submitted \cup Batch /\ status' = status /\ queue' = queue
      /\ depths' = depths /\ dependencies' = dependencies /\ visited' = visited
  BY DEF Omit
<1>2. /\ next <= Len(queue) /\ next' = next + 1 /\ nextSubmission' = Len(queue) + 1 /\ status = "adding"
      /\ content' = content /\ targets' = targets /\ package' = package /\ roots' = roots
  BY <1>1, TurnIs
<1>3. WorksetTypes /\ SubmittedInv /\ FrontierInv
  BY DEF WorksetInv
<1>4. ~OutOfScope(f) /\ f \in Source /\ d \in Nat /\ MaxDepth \in Nat
  BY <1>2, <1>3, ItemIs, ItemAhead, WorksetAssumption
<1>5. /\ Available(f) => content[f] \in Parsed /\ ~Ignored(f)
      /\ content[f] \in Parsed => ~Ignored(f)
  BY <1>4 DEF Available, OutOfScope, Ignored, Parsed
\* With a depth that is allowed it is the number of files that is exhausted.
<1>6. /\ d <= MaxDepth /\ ~Ignored(f) => Limit(f, d) = "file_limit" /\ Cardinality(visited) >= MaxFiles
      /\ Limit(f, d) = "expansion_limit" => ~Ignored(f)
  BY <1>1, <1>4 DEF Limit
<1>7. ~(d <= MaxDepth /\ f \in submitted \cup Batch)
  BY <1>2, <1>3, <1>5, <1>6, Waiting
<1>8. /\ IsFrontier(Frontier(depths', queue', diagnostics'))
      /\ LeadsTo(Frontier(depths, queue, diagnostics'), Frontier(depths', queue', diagnostics'))
      /\ Len(queue) <= Len(queue') /\ \A i \in 1..Len(queue) : queue'[i] = queue[i]
  BY <1>1, <1>3, NothingEnqueued
<1>9. WorksetTypes'
  <2>1. dependencies' \in [Source -> SUBSET Source]
    BY <1>1, <1>3 DEF WorksetTypes
  <2> QED BY <1>1, <1>2, <1>3, <1>8, <2>1, TurnTypes
<1>10. SubmittedInv'
  <2>1. {} \subseteq {Item[1]} \cap (submitted \cup Batch)
        /\ (Item[2] <= MaxDepth /\ Item[1] \in submitted \cup Batch => Item[1] \in {})
        /\ visited' = visited \cup {} /\ submitted' = (submitted \cup Batch) \ {}
    BY <1>1, <1>7
  <2> HIDE DEF f, d
  <2> QED BY <1>2, <1>3, <1>8, <2>1, SubmitStep
<1>11. ASSUME NEW g \in Source, <<g, "expansion_limit">> \in diagnostics'
       PROVE  g \notin visited' /\ content[g] \in Parsed
  <2>1. CASE <<g, "expansion_limit">> \in diagnostics
    BY <1>1, <1>3, <2>1 DEF FrontierInv, OmittedOnly
  <2>2. CASE <<g, "expansion_limit">> = <<f, Limit(f, d)>>
    <3>1. g = f /\ Limit(f, d) = "expansion_limit"
      BY <2>2
    <3> QED BY <1>1, <1>5, <1>6, <3>1
  <2> QED BY <1>1, <1>11, <2>1, <2>2
<1>12. d <= MaxDepth /\ content[f] \in Parsed => <<f, "file_limit">> \in diagnostics'
  BY <1>1, <1>5, <1>6
<1>13. \A x \in diagnostics : x \in diagnostics'
  BY <1>1
<1>14. \E x \in diagnostics' : x[1] = f
  <2>1. <<f, Limit(f, d)>> \in diagnostics' /\ <<f, Limit(f, d)>>[1] = f
    BY <1>1
  <2> QED BY <2>1
<1>15. FrontierInv'
  BY <1>1, <1>2, <1>3, <1>8, <1>11, <1>12, <1>13, <1>14, FrontierStep
<1> QED BY <1>9, <1>10, <1>15 DEF WorksetInv

\* A file that is parsed: it was submitted, and what it enqueues comes nearer.
LEMMA ParseKeeps ==
    ASSUME WorksetInv, Parse
    PROVE  WorksetInv'
<1> DEFINE f == Item[1] d == Item[2] near == Siblings(f) far == targets[f]
           items == Discovered(f, d)
<1>1. Turn /\ f \notin visited /\ Available(f) /\ Limit(f, d) = "none"
  BY DEF Parse
<1>2. /\ next <= Len(queue) /\ next' = next + 1 /\ nextSubmission' = Len(queue) + 1 /\ status = "adding"
      /\ content' = content /\ targets' = targets /\ package' = package /\ roots' = roots
  BY <1>1, TurnIs
<1>3. WorksetTypes /\ SubmittedInv /\ FrontierInv
  BY DEF WorksetInv
<1>4. f \in submitted \cup Batch
  BY <1>1, <1>2, <1>3, Waiting
<1>5. /\ visited' = visited \cup {f} /\ submitted' = (submitted \cup Batch) \ {f} /\ status' = "adding"
      /\ dependencies' = [dependencies EXCEPT ![f] = near \cup far]
      /\ EnqueueAll(items, Cleared(f))
  BY <1>2, <1>4 DEF Parse
<1>6. /\ f \in Source /\ d \in Nat /\ ~OutOfScope(f) /\ depths[f] <= d
      /\ near \subseteq Source /\ far \subseteq Source /\ dependencies \in [Source -> SUBSET Source]
  <2>1. f \in Source /\ d \in Nat /\ ~OutOfScope(f) /\ depths[f] <= d
    BY <1>2, <1>3, ItemIs, ItemAhead
  <2> HIDE DEF f, d
  <2> QED BY <1>3, <2>1 DEF WorksetTypes, Siblings
<1>7. content[f] \in Parsed /\ d <= MaxDepth
  BY <1>1, <1>6, WorksetAssumption DEF Available, OutOfScope, Parsed, Limit
<1>8. /\ items \in Seq(Source \X Nat)
      /\ \A g \in near : \E k \in 1..Len(items) : items[k] = <<g, d>>
      /\ \A g \in far : \E k \in 1..Len(items) : items[k] = <<g, d + 1>>
  BY <1>3, <1>6, DiscoveredIs
<1> HIDE DEF items
<1>9. /\ IsFrontier(Frontier(depths', queue', diagnostics'))
      /\ LeadsTo(Frontier(depths, queue, Cleared(f)), Frontier(depths', queue', diagnostics'))
      /\ Len(queue) <= Len(queue') /\ \A i \in 1..Len(queue) : queue'[i] = queue[i]
      /\ \A k \in 1..Len(items) : depths'[items[k][1]] <= items[k][2]
  BY <1>3, <1>5, <1>8, EnqueueAllLeads
<1>10. /\ dependencies' \in [Source -> SUBSET Source] /\ dependencies'[f] = near \cup far
       /\ \A g \in Source : g # f => dependencies'[g] = dependencies[g]
  <2> HIDE DEF near, far, f
  <2> QED BY <1>5, <1>6
<1>11. WorksetTypes'
  BY <1>1, <1>3, <1>5, <1>9, <1>10, TurnTypes
<1>12. SubmittedInv'
  <2>1. {f} \subseteq {Item[1]} \cap (submitted \cup Batch)
        /\ (Item[2] <= MaxDepth /\ Item[1] \in submitted \cup Batch => Item[1] \in {f})
        /\ visited' = visited \cup {f} /\ submitted' = (submitted \cup Batch) \ {f}
    BY <1>4, <1>5
  <2> HIDE DEF f, d
  <2> QED BY <1>2, <1>3, <1>9, <2>1, SubmitStep
<1>13. depths'[f] <= MaxDepth /\ \A g \in dependencies'[f] : depths'[g] # Unseen /\ depths'[g] <= d + 1
  <2>1. \A g \in Source : depths'[g] <= depths[g] /\ depths'[g] \in 0..Unseen /\ depths[g] \in 0..Unseen
    BY <1>3, <1>9 DEF LeadsTo, Frontier, IsFrontier, WorksetTypes
  <2>2. MaxDepth \in Nat /\ Unseen = MaxDepth + 2
    BY WorksetAssumption DEF Unseen
  <2> HIDE DEF f, d, near, far
  <2>3. depths'[f] <= MaxDepth
    BY <1>6, <1>7, <2>1, <2>2
  <2>4. ASSUME NEW g \in near \cup far PROVE depths'[g] # Unseen /\ depths'[g] <= d + 1
    <3>1. depths'[g] <= d \/ depths'[g] <= d + 1
      <4>1. CASE g \in near
        <5>1. PICK k \in 1..Len(items) : items[k] = <<g, d>>
          BY <1>8, <4>1
        <5> QED BY <1>9, <5>1
      <4>2. CASE g \in far
        <5>1. PICK k \in 1..Len(items) : items[k] = <<g, d + 1>>
          BY <1>8, <4>2
        <5> QED BY <1>9, <5>1
      <4> QED BY <4>1, <4>2
    <3>2. g \in Source /\ depths'[g] \in 0..Unseen
      BY <1>6, <2>1
    <3> QED BY <1>6, <1>7, <2>2, <3>1, <3>2
  <2> QED BY <1>10, <2>3, <2>4
<1>14. \A x \in diagnostics : x \in Cleared(f) \/ x[1] \in visited'
  BY <1>5 DEF Cleared
<1>15. ASSUME NEW g \in Source, <<g, "expansion_limit">> \in Cleared(f)
       PROVE  g \notin visited' /\ content[g] \in Parsed
  <2>1. <<g, "expansion_limit">> \in diagnostics /\ g # f
    BY <1>15 DEF Cleared
  <2> QED BY <1>3, <1>5, <2>1 DEF FrontierInv, OmittedOnly
<1>16. FrontierInv'
  BY <1>2, <1>3, <1>5, <1>7, <1>9, <1>10, <1>13, <1>14, <1>15, FrontierStep
<1> QED BY <1>11, <1>12, <1>16 DEF WorksetInv

\* Between two Adds nothing is to come.
LEMMA NothingToCome ==
    ASSUME WorksetTypes, next > Len(queue) \/ status = "idle"
    PROVE  \A f : ~Come(f)
<1>1. next \in Nat /\ Len(queue) \in Nat /\ (status = "idle" => Len(queue) = 0 /\ next # 0)
  BY DEF WorksetTypes
<1>2. \A i \in next..Len(queue) : FALSE
  BY <1>1
<1> QED BY <1>2 DEF Come, Due

\* Nothing is under way between two Adds.
LEMMA NothingUnderWay ==
    ASSUME WorksetTypes, SubmittedInv, visited' = visited, submitted' = {}, next' = 1, nextSubmission' = 1
    PROVE  SubmittedInv'
<1>1. IsFiniteSet(Source)
  <2>1. 1 \in Int /\ NSource \in Int
    BY WorksetAssumption
  <2> QED BY <2>1, FS_Interval DEF Source
<1>2. Cardinality(visited) \in Nat /\ Cardinality(submitted) \in Nat /\ MaxFiles \in Nat
  <2>1. IsFiniteSet(visited) /\ IsFiniteSet(submitted)
    BY <1>1, FS_Subset DEF WorksetTypes
  <2> QED BY <2>1, FS_CardinalityType, WorksetAssumption
<1>3. Cardinality(visited) + Cardinality(submitted) <= MaxFiles
  BY DEF SubmittedInv, UnderWay
<1>4. Cardinality({}) = 0
  BY FS_EmptySet
<1>5. Cardinality(visited') + Cardinality(submitted') <= MaxFiles
  BY <1>2, <1>3, <1>4
<1>6. \A i \in next'..(nextSubmission' - 1) : FALSE
  OBVIOUS
<1> QED BY <1>5, <1>6 DEF SubmittedInv, UnderWay

\* An Add enqueues its roots.
LEMMA BeginKeeps ==
    ASSUME WorksetInv, NEW fs, fs \subseteq Source, BeginAdd(fs)
    PROVE  WorksetInv'
<1> DEFINE items == AtDepth(fs, 0) s == Frontier(depths, queue, diagnostics)
           t == Frontier(depths', queue', diagnostics')
<1>1. /\ status = "idle" /\ status' = "adding" /\ roots' = roots \cup fs
      /\ next' = 1 /\ nextSubmission' = 1 /\ EnqueueAll(items, diagnostics)
      /\ content' = content /\ targets' = targets /\ package' = package
      /\ submitted' = submitted /\ dependencies' = dependencies /\ visited' = visited
  BY DEF BeginAdd, input
<1>2. WorksetTypes /\ SubmittedInv /\ FrontierInv
  BY DEF WorksetInv
<1>3. items \in Seq(Source \X Nat) /\ \A f \in fs : \E k \in 1..Len(items) : items[k] = <<f, 0>>
  BY AtDepthIs
<1> HIDE DEF items
<1>4. /\ IsFrontier(t) /\ LeadsTo(s, t) /\ \A k \in 1..Len(items) : depths'[items[k][1]] <= items[k][2]
  BY <1>1, <1>2, <1>3, EnqueueAllLeads
<1>5. /\ s.depths = depths /\ s.queue = <<>> /\ s.diagnostics = diagnostics
      /\ t.depths = depths' /\ t.queue = queue' /\ t.diagnostics = diagnostics'
  BY <1>1, <1>2 DEF Frontier, WorksetTypes
<1> HIDE DEF s, t
<1>6. /\ MaxDepth \in Nat /\ Unseen \in Nat /\ MaxDepth < Unseen
      /\ \A f \in Source : depths'[f] <= depths[f] /\ depths'[f] \in 0..Unseen /\ depths[f] \in 0..Unseen
      /\ diagnostics \subseteq diagnostics'
  <2>1. MaxDepth \in Nat /\ Unseen \in Nat /\ MaxDepth < Unseen
    BY WorksetAssumption DEF Unseen
  <2>2. depths' \in [Source -> 0..Unseen] /\ depths \in [Source -> 0..Unseen]
    BY <1>2, <1>4, <1>5 DEF IsFrontier, WorksetTypes
  <2>3. (\A f \in Source : depths'[f] <= depths[f]) /\ diagnostics \subseteq diagnostics'
    BY <1>4, <1>5 DEF LeadsTo
  <2> QED BY <2>1, <2>2, <2>3
<1>7. WorksetTypes'
  <2>1. queue' \in Seq(Source \X Nat) /\ depths' \in [Source -> 0..Unseen] /\ Len(queue') \in Nat
    BY <1>4, <1>5 DEF IsFrontier
  <2>2. next' \in Nat \ {0} /\ nextSubmission' \in Nat \ {0} /\ next' <= nextSubmission'
        /\ nextSubmission' <= Len(queue') + 1
    BY <1>1, <2>1
  <2>3. roots' \subseteq Source /\ visited' \subseteq Source /\ submitted' \subseteq Source
        /\ dependencies' \in [Source -> SUBSET Source]
    BY <1>1, <1>2 DEF WorksetTypes
  <2>4. (/\ content \in [Source -> Parsed \cup {"outside", "gitlink", "vendored", "absent"}]
         /\ targets \in [Source -> SUBSET Source]
         /\ \A f \in Source : targets[f] # {} => content[f] \in Parsed
         /\ package \subseteq {f \in Source : content[f] = "source"})'
    BY <1>1, <1>2 DEF WorksetTypes, Parsed
  <2> QED BY <1>1, <2>1, <2>2, <2>3, <2>4 DEF WorksetTypes
<1>8. SubmittedInv'
  <2>1. submitted' = {}
    BY <1>1, <1>2 DEF WorksetTypes
  <2> QED BY <1>1, <1>2, <2>1, NothingUnderWay
<1>9. \A f : ~Come(f)
  BY <1>1, <1>2, NothingToCome
<1>10. ASSUME NEW f \in Source, ~OutOfScope(f), depths'[f] # depths[f] PROVE Come(f)'
  <2>1. Due(t.queue, Len(s.queue) + 1, t.depths, f)
    BY <1>4, <1>5, <1>10 DEF LeadsTo
  <2>2. Len(s.queue) + 1 = 1
    BY <1>5
  <2>3. Due(queue', next', depths', f)
    BY <1>1, <1>5, <2>1, <2>2
  <2> QED BY <2>3 DEF Come, Due
<1>11. Ahead(queue, next, depths)'
  <2>1. \A i \in (Len(s.queue) + 1)..Len(t.queue) :
            /\ ~OutOfScope(t.queue[i][1]) /\ t.depths[t.queue[i][1]] <= t.queue[i][2]
            /\ Due(t.queue, i, t.depths, t.queue[i][1])
    BY <1>4 DEF LeadsTo
  <2>2. Len(s.queue) + 1 = 1
    BY <1>5
  <2>3. \A i \in next'..Len(queue') :
            ~OutOfScope(queue'[i][1]) /\ depths'[queue'[i][1]] <= queue'[i][2] /\ Due(queue', i, depths', queue'[i][1])
    BY <1>1, <1>5, <2>1, <2>2
  <2> QED BY <1>1, <2>3 DEF Ahead, Due, OutOfScope
<1>12. RootsNear'
  <2>1. ASSUME NEW f \in roots' PROVE depths'[f] = 0
    <3>1. f \in Source
      BY <1>1, <1>2, <2>1 DEF WorksetTypes
    <3>2. CASE f \in roots
      <4>1. depths[f] = 0
        BY <1>2, <3>2 DEF FrontierInv, RootsNear
      <4> QED BY <1>6, <3>1, <4>1
    <3>3. CASE f \in fs
      <4>1. PICK k \in 1..Len(items) : items[k] = <<f, 0>>
        BY <1>3, <3>3
      <4>2. depths'[f] <= 0
        BY <1>4, <4>1
      <4> QED BY <1>6, <3>1, <4>2
    <3> QED BY <1>1, <3>2, <3>3
  <2> QED BY <2>1 DEF RootsNear
<1>13. Accounted'
  <2>1. ASSUME NEW f \in Source, depths'[f] # Unseen
        PROVE  (f \in visited \/ Reported(f) \/ content[f] \in {"gitlink", "absent"} \/ Come(f))'
    <3>1. CASE depths[f] # Unseen
      <4>1. f \in visited \/ Reported(f) \/ content[f] \in {"gitlink", "absent"}
        BY <1>2, <1>9, <3>1 DEF FrontierInv, Accounted
      <4> QED BY <1>1, <1>6, <4>1 DEF Reported
    <3>2. CASE depths[f] = Unseen
      <4>1. CASE OutOfScope(f)
        <5>1. <<f, "source_scope">> \in diagnostics'
          BY <1>4, <1>5, <2>1, <3>2, <4>1 DEF LeadsTo
        <5> QED BY <5>1 DEF Reported
      <4>2. CASE ~OutOfScope(f)
        BY <1>10, <2>1, <3>2, <4>2
      <4> QED BY <4>1, <4>2
    <3> QED BY <3>1, <3>2
  <2> QED BY <2>1 DEF Accounted
<1>14. PassedOn'
  <2>1. ASSUME NEW f \in visited
        PROVE  /\ content[f] \in Parsed /\ depths'[f] <= MaxDepth
               /\ dependencies[f] = Siblings(f) \cup targets[f]
               /\ \A g \in dependencies[f] : depths'[g] # Unseen /\ (depths'[g] <= depths'[f] + 1 \/ Come(f)')
    <3>1. /\ content[f] \in Parsed /\ depths[f] <= MaxDepth
          /\ dependencies[f] = Siblings(f) \cup targets[f]
          /\ \A g \in dependencies[f] : depths[g] # Unseen /\ depths[g] <= depths[f] + 1
      BY <1>2, <1>9 DEF FrontierInv, PassedOn
    <3>2. f \in Source /\ dependencies[f] \subseteq Source /\ ~OutOfScope(f)
      BY <1>2, <3>1 DEF WorksetTypes, OutOfScope, Parsed
    <3>3. depths'[f] <= MaxDepth
      BY <1>6, <3>1, <3>2
    <3>4. ASSUME NEW g \in dependencies[f]
          PROVE  depths'[g] # Unseen /\ (depths'[g] <= depths'[f] + 1 \/ Come(f)')
      <4>1. g \in Source /\ depths[g] # Unseen /\ depths[g] <= depths[f] + 1
        BY <3>1, <3>2
      <4>2. depths'[g] # Unseen
        BY <1>6, <4>1
      <4>3. CASE depths'[f] = depths[f]
        BY <1>6, <3>2, <4>1, <4>2, <4>3
      <4>4. CASE depths'[f] # depths[f]
        BY <1>10, <3>2, <4>2, <4>4
      <4> QED BY <4>3, <4>4
    <3> QED BY <3>1, <3>3, <3>4
  <2> QED BY <1>1, <2>1 DEF PassedOn, Siblings
<1>15. Expanded'
  <2>1. ASSUME NEW f \in Source, depths'[f] <= MaxDepth, content[f] \in Parsed
        PROVE  f \in visited' \/ <<f, "file_limit">> \in diagnostics' \/ Come(f)'
    <3>1. CASE depths'[f] = depths[f]
      BY <1>1, <1>2, <1>6, <1>9, <2>1, <3>1 DEF FrontierInv, Expanded
    <3>2. CASE depths'[f] # depths[f]
      BY <1>10, <2>1, <3>2 DEF OutOfScope, Parsed
    <3> QED BY <3>1, <3>2
  <2> QED BY <1>1, <2>1 DEF Expanded
<1>16. OmittedOnly'
  <2>1. ASSUME NEW f \in Source, <<f, "expansion_limit">> \in diagnostics' PROVE <<f, "expansion_limit">> \in diagnostics
    BY <1>4, <1>5, <2>1 DEF LeadsTo
  <2> QED BY <1>1, <1>2, <2>1 DEF FrontierInv, OmittedOnly
<1>17. FrontierInv'
  BY <1>11, <1>12, <1>13, <1>14, <1>15, <1>16 DEF FrontierInv
<1> QED BY <1>7, <1>8, <1>17 DEF WorksetInv

\* An Add returns when the frontier is at its end.
LEMMA EndKeeps ==
    ASSUME WorksetInv, EndAdd
    PROVE  WorksetInv'
<1>1. /\ status' = "idle" /\ next > Len(queue) /\ queue' = <<>> /\ next' = 1 /\ nextSubmission' = 1
      /\ submitted' = {} /\ content' = content /\ targets' = targets /\ package' = package /\ roots' = roots
      /\ depths' = depths /\ dependencies' = dependencies /\ visited' = visited /\ diagnostics' = diagnostics
  BY DEF EndAdd, input, explored
<1>2. WorksetTypes /\ SubmittedInv /\ FrontierInv
  BY DEF WorksetInv
<1>3. WorksetTypes'
  BY <1>1, <1>2 DEF WorksetTypes, Parsed, Unseen
<1>4. SubmittedInv'
  BY <1>1, <1>2, NothingUnderWay
<1>5. \A f : ~Come(f)
  BY <1>1, <1>2, NothingToCome
<1>6. Ahead(queue, next, depths)'
  <2>1. \A i \in next'..Len(queue') : FALSE
    BY <1>1
  <2> QED BY <2>1 DEF Ahead
<1>7. RootsNear'
  BY <1>1, <1>2 DEF FrontierInv, RootsNear
<1>8. Accounted'
  BY <1>1, <1>2, <1>5 DEF FrontierInv, Accounted, Reported
<1>9. PassedOn'
  <2>1. \A f \in visited :
            /\ content[f] \in Parsed /\ depths[f] <= MaxDepth
            /\ dependencies[f] = Siblings(f) \cup targets[f]
            /\ \A g \in dependencies[f] : depths[g] # Unseen /\ depths[g] <= depths[f] + 1
    BY <1>2, <1>5 DEF FrontierInv, PassedOn
  <2> QED BY <1>1, <2>1 DEF PassedOn, Siblings
<1>10. Expanded'
  BY <1>1, <1>2, <1>5 DEF FrontierInv, Expanded
<1>11. OmittedOnly'
  BY <1>1, <1>2 DEF FrontierInv, OmittedOnly
<1> QED BY <1>3, <1>4, <1>6, <1>7, <1>8, <1>9, <1>10, <1>11 DEF WorksetInv, FrontierInv

-----------------------------------------------------------------------------
(* The conclusion.                                                         *)

\* At first nothing was seen.
LEMMA WorksetStart ==
    ASSUME WorksetInit
    PROVE  WorksetInv
<1>1. /\ status = "idle" /\ roots = {} /\ queue = <<>> /\ next = 1 /\ nextSubmission = 1
      /\ submitted = {} /\ visited = {} /\ diagnostics = {}
      /\ depths = [f \in Source |-> Unseen] /\ dependencies = [f \in Source |-> {}]
  BY DEF WorksetInit, NothingAdded
<1>2. Unseen \in Nat /\ MaxDepth \in Nat /\ MaxFiles \in Nat /\ MaxDepth < Unseen /\ Unseen \in 0..Unseen
  BY WorksetAssumption DEF Unseen
<1>3. WorksetTypes
  <2>1. /\ content \in [Source -> Parsed \cup {"outside", "gitlink", "vendored", "absent"}]
        /\ targets \in [Source -> SUBSET Source]
        /\ \A f \in Source : targets[f] # {} => content[f] \in Parsed
        /\ package \subseteq {f \in Source : content[f] = "source"}
    <3>1. ASSUME NEW f \in Source, targets[f] # {} PROVE content[f] \in Parsed
      <4>1. targets[f] \subseteq IF content[f] \in Parsed THEN Source \ {f} ELSE {}
        BY DEF WorksetInit
      <4> QED BY <3>1, <4>1
    <3> QED BY <3>1 DEF WorksetInit
  <2>2. queue \in Seq(Source \X Nat) /\ Len(queue) = 0
    BY <1>1
  <2>3. depths \in [Source -> 0..Unseen] /\ dependencies \in [Source -> SUBSET Source]
    BY <1>1, <1>2
  <2> QED BY <1>1, <2>1, <2>2, <2>3 DEF WorksetTypes
<1>4. SubmittedInv
  <2>1. Cardinality({}) = 0
    BY FS_EmptySet
  <2>2. \A i \in next..(nextSubmission - 1) : FALSE
    BY <1>1
  <2>3. Cardinality(visited) + Cardinality(submitted) <= MaxFiles
    BY <1>1, <1>2, <2>1
  <2> QED BY <1>1, <2>2, <2>3 DEF SubmittedInv, UnderWay
<1>5. FrontierInv
  <2>1. \A i \in next..Len(queue) : FALSE
    BY <1>1
  <2>2. \A f \in Source : depths[f] = Unseen
    BY <1>1
  <2>3. Ahead(queue, next, depths)
    BY <2>1 DEF Ahead
  <2>4. RootsNear /\ PassedOn
    BY <1>1 DEF RootsNear, PassedOn
  <2>5. Accounted /\ Expanded
    BY <1>2, <2>2 DEF Accounted, Expanded
  <2>6. OmittedOnly
    BY <1>1 DEF OmittedOnly
  <2> QED BY <2>3, <2>4, <2>5, <2>6 DEF FrontierInv
<1> QED BY <1>3, <1>4, <1>5 DEF WorksetInv

\* Every step keeps the invariant.
LEMMA WorksetStep ==
    ASSUME WorksetInv, [WorksetNext]_worksetVars
    PROVE  WorksetInv'
<1>1. CASE \E fs \in SUBSET Source \ {{}} : BeginAdd(fs)
  BY <1>1, BeginKeeps
<1>2. CASE Revisit
  BY <1>2, RevisitKeeps
<1>3. CASE Skip
  BY <1>3, SkipKeeps
<1>4. CASE Omit
  BY <1>4, OmitKeeps
<1>5. CASE Parse
  BY <1>5, ParseKeeps
<1>6. CASE EndAdd
  BY <1>6, EndKeeps
<1>7. CASE UNCHANGED worksetVars
  <2>1. /\ status' = status /\ queue' = queue /\ next' = next /\ nextSubmission' = nextSubmission
        /\ submitted' = submitted /\ content' = content /\ targets' = targets /\ package' = package
        /\ roots' = roots /\ depths' = depths /\ dependencies' = dependencies
        /\ visited' = visited /\ diagnostics' = diagnostics
    BY <1>7 DEF worksetVars, input, explored
  <2>2. WorksetTypes => WorksetTypes'
    BY <2>1 DEF WorksetTypes, Parsed, Unseen
  <2>3. SubmittedInv => SubmittedInv'
    BY <2>1 DEF SubmittedInv, UnderWay, Settled, Visits, Available
  <2>4. FrontierInv => FrontierInv'
    BY <2>1 DEF FrontierInv, Ahead, Due, OutOfScope, RootsNear, Accounted, PassedOn, Expanded, OmittedOnly,
                Reported, Come, Siblings
  <2> QED BY <2>2, <2>3, <2>4 DEF WorksetInv
<1> QED BY <1>1, <1>2, <1>3, <1>4, <1>5, <1>6, <1>7 DEF WorksetNext

\* The recursion of Within is what it says.
LEMMA WithinUnfolded ==
    \E near : /\ near = [n \in 0..MaxDepth |->
                            IF n = 0 THEN roots
                            ELSE near[n - 1] \cup UNION {targets[f] \cup Siblings(f) : f \in near[n - 1]}]
             /\ Within = near[MaxDepth]
<1> DEFINE N == MaxDepth
           Nearby(last) == last \cup UNION {targets[f] \cup Siblings(f) : f \in last}
           Is(f, m) == f = [n \in 0..m |-> IF n = 0 THEN roots ELSE Nearby(f[n - 1])]
           S == {m \in 0..N : \E f : Is(f, m)}
<1>0. N \in Nat
  BY WorksetAssumption
<1>1. 0 \in S
  <2>1. Is([n \in 0..0 |-> roots], 0)
    OBVIOUS
  <2> HIDE DEF Is
  <2> QED BY <1>0, <2>1
<1>2. ASSUME NEW m \in 0..N, m # 0, m - 1 \in S PROVE m \in S
  <2>1. PICK f : Is(f, m - 1)
    BY <1>2
  <2> HIDE DEF Nearby
  <2> DEFINE g == [n \in 0..m |-> IF n = m THEN Nearby(f[m - 1]) ELSE f[n]]
  <2>2. \A n \in 0..m : g[n] = IF n = 0 THEN roots ELSE Nearby(g[n - 1])
    <3>1. ASSUME NEW n \in 0..m, n = 0 PROVE g[n] = roots
      <4>1. g[n] = f[0] /\ 0 \in 0..(m - 1)
        BY <1>0, <1>2, <3>1
      <4> QED BY <2>1, <4>1
    <3>2. ASSUME NEW n \in 0..m, n # 0 PROVE g[n] = Nearby(g[n - 1])
      <4>1. g[n - 1] = f[n - 1]
        BY <1>0, <3>2
      <4>2. CASE n = m
        BY <4>1, <4>2
      <4>3. CASE n # m
        <5>1. n \in 0..(m - 1) /\ g[n] = f[n]
          BY <1>0, <1>2, <3>2, <4>3
        <5> QED BY <2>1, <3>2, <4>1, <5>1
      <4> QED BY <4>2, <4>3
    <3> QED BY <3>1, <3>2
  <2>3. Is(g, m)
    BY <2>2
  <2> QED BY <2>3
<1>3. N \in S
  <2> HIDE DEF S, N
  <2>1. \A n \in 0..N : n # 0 /\ n - 1 \in S => n \in S
    BY <1>2
  <2>2. 0..N \subseteq S
    BY ONLY <1>0, <1>1, <2>1, Climb
  <2> QED BY <1>0, <2>2
<1>4. \E f : Is(f, N)
  BY <1>3
<1> DEFINE near == CHOOSE f : Is(f, N)
<1>5. Within = near[N]
  BY DEF Within
<1>6. Is(near, N)
  <2> HIDE DEF Is
  <2> QED BY <1>4
<1> HIDE DEF near
<1> QED BY <1>5, <1>6

\* When nothing is to come and no file was left out for their number, what is
\* within n steps of the roots has no larger depth.
LEMMA NearEnough ==
    ASSUME WorksetInv, status = "idle", \A f \in Source : <<f, "file_limit">> \notin diagnostics
    PROVE  \A f \in Within : f \in Source /\ depths[f] <= MaxDepth
<1>1. PICK near : /\ near = [n \in 0..MaxDepth |->
                            IF n = 0 THEN roots
                            ELSE near[n - 1] \cup UNION {targets[f] \cup Siblings(f) : f \in near[n - 1]}]
                  /\ Within = near[MaxDepth]
  BY WithinUnfolded
<1>2. MaxDepth \in Nat
  BY WorksetAssumption
<1>3. WorksetTypes /\ FrontierInv /\ \A f : ~Come(f)
  BY NothingToCome DEF WorksetInv
<1>4. Unseen \in Nat /\ \A f \in Source : depths[f] \in 0..Unseen
  BY <1>2, <1>3 DEF WorksetTypes, Unseen
<1> DEFINE S == {n \in 0..MaxDepth : \A f \in near[n] : f \in Source /\ depths[f] <= n}
<1>5. 0 \in S
  <2>1. near[0] = roots
    BY <1>1, <1>2
  <2>2. \A f \in roots : f \in Source /\ depths[f] <= 0
    BY <1>3 DEF WorksetTypes, FrontierInv, RootsNear
  <2> QED BY <1>2, <2>1, <2>2
<1>6. ASSUME NEW n \in 0..MaxDepth, n # 0, n - 1 \in S PROVE n \in S
  <2>1. near[n] = near[n - 1] \cup UNION {targets[f] \cup Siblings(f) : f \in near[n - 1]}
    BY <1>1, <1>2, <1>6
  <2>2. \A f \in near[n - 1] : f \in Source /\ depths[f] <= n - 1
    BY <1>6
  <2>3. ASSUME NEW f \in near[n - 1], NEW g \in targets[f] \cup Siblings(f)
        PROVE  g \in Source /\ depths[g] <= n
    <3>1. f \in Source /\ depths[f] <= n - 1 /\ depths[f] <= MaxDepth /\ depths[f] \in Nat
      BY <1>2, <1>4, <1>6, <2>2
    <3>2. content[f] \in Parsed
      <4>1. targets[f] # {} => content[f] \in Parsed
        BY <1>3, <3>1 DEF WorksetTypes
      <4>2. Siblings(f) # {} => content[f] \in Parsed
        BY <1>3 DEF WorksetTypes, Siblings, Parsed
      <4> QED BY <2>3, <4>1, <4>2
    <3>3. f \in visited
      BY <1>3, <3>1, <3>2 DEF FrontierInv, Expanded
    <3>4. g \in dependencies[f] /\ depths[g] <= depths[f] + 1
      BY <1>3, <2>3, <3>3 DEF FrontierInv, PassedOn
    <3>5. g \in Source
      BY <1>3, <3>1, <3>4 DEF WorksetTypes
    <3> QED BY <1>4, <1>6, <3>1, <3>4, <3>5
  <2>4. ASSUME NEW g \in near[n] PROVE g \in Source /\ depths[g] <= n
    <3>1. CASE g \in near[n - 1]
      BY <1>4, <1>6, <2>2, <3>1
    <3>2. CASE \E f \in near[n - 1] : g \in targets[f] \cup Siblings(f)
      BY <2>3, <3>2
    <3> QED BY <2>1, <2>4, <3>1, <3>2
  <2> QED BY <2>4
<1>7. MaxDepth \in S
  <2> HIDE DEF S
  <2>1. \A n \in 0..MaxDepth : n # 0 /\ n - 1 \in S => n \in S
    BY <1>6
  <2>2. 0..MaxDepth \subseteq S
    BY ONLY <1>2, <1>5, <2>1, Climb
  <2> QED BY <1>2, <2>2
<1> QED BY <1>1, <1>7

\* The invariant says what was promised.
LEMMA WorksetConclusion ==
    ASSUME WorksetInv
    PROVE  WorksetIsTrue
<1>1. WorksetTypes /\ SubmittedInv /\ FrontierInv
  BY DEF WorksetInv
<1>2. status # "failed"
  BY <1>1 DEF WorksetTypes
<1>3. Cardinality(visited) <= MaxFiles
  <2>1. IsFiniteSet(Source)
    <3>1. 1 \in Int /\ NSource \in Int
      BY WorksetAssumption
    <3> QED BY <3>1, FS_Interval DEF Source
  <2>2. Cardinality(visited) \in Nat /\ Cardinality(submitted) \in Nat /\ MaxFiles \in Nat
    <3>1. IsFiniteSet(visited) /\ IsFiniteSet(submitted)
      BY <1>1, <2>1, FS_Subset DEF WorksetTypes
    <3> QED BY <3>1, FS_CardinalityType, WorksetAssumption
  <2>3. Cardinality(visited) + Cardinality(submitted) <= MaxFiles
    BY <1>1 DEF SubmittedInv, UnderWay
  <2> QED BY <2>2, <2>3
<1>4. ASSUME status = "idle", NEW f \in roots \cup UNION {dependencies[g] : g \in visited}
      PROVE  f \in visited \/ Reported(f) \/ content[f] \in {"gitlink", "absent"}
  <2>1. ~Come(f)
    BY <1>1, <1>4, NothingToCome
  <2>2. f \in Source /\ depths[f] # Unseen
    <3>1. CASE f \in roots
      <4>1. depths[f] = 0 /\ f \in Source
        BY <1>1, <3>1 DEF FrontierInv, RootsNear, WorksetTypes
      <4>2. Unseen # 0
        BY WorksetAssumption DEF Unseen
      <4> QED BY <4>1, <4>2
    <3>2. CASE \E g \in visited : f \in dependencies[g]
      <4>1. PICK g \in visited : f \in dependencies[g]
        BY <3>2
      <4>2. depths[f] # Unseen
        BY <1>1, <4>1 DEF FrontierInv, PassedOn
      <4>3. f \in Source
        BY <1>1, <4>1 DEF WorksetTypes
      <4> QED BY <4>2, <4>3
    <3> QED BY <1>4, <3>1, <3>2
  <2> QED BY <1>1, <2>1, <2>2 DEF FrontierInv, Accounted
<1>5. ASSUME status = "idle", \A f \in Source : <<f, "file_limit">> \notin diagnostics,
             NEW f \in Within
      PROVE  <<f, "expansion_limit">> \notin diagnostics
  <2>1. f \in Source /\ depths[f] <= MaxDepth
    BY <1>5, NearEnough
  <2>2. ~Come(f)
    BY <1>1, <1>5, NothingToCome
  <2> QED BY <1>1, <1>5, <2>1, <2>2 DEF FrontierInv, Expanded, OmittedOnly
<1> QED BY <1>2, <1>3, <1>4, <1>5 DEF WorksetIsTrue, WorksetExplained, DepthLimitIsTrue

\* Every file asked for or depended on is parsed or reported, within the limits,
\* no document was forgotten by the submission, and only what is too deep is left
\* out for its depth, in whatever order the roots are added (build.go, Add).
THEOREM WorksetHolds == WorksetSpec => []WorksetIsTrue
<1>1. WorksetInit => WorksetInv
  BY WorksetStart
<1>2. WorksetInv /\ [WorksetNext]_worksetVars => WorksetInv'
  BY WorksetStep
<1>3. WorksetInv => WorksetIsTrue
  BY WorksetConclusion
<1> QED BY <1>1, <1>2, <1>3, PTL DEF WorksetSpec
=============================================================================
