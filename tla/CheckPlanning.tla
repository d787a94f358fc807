---------------------------- MODULE CheckPlanning ----------------------------
(***************************************************************************)
(* How a round's checks are chosen                                         *)
(* (toolkit/go/internal/validation: validation.go, PlanValidation;         *)
(* entrypoint.go; makefile.go).                                            *)
(*                                                                         *)
(* The planner walks the Components of a checkout, decides for each what   *)
(* to run and where, and merges the request into the plan built so far.    *)
(* The kinds of check (format, lint, test) are planned independently of    *)
(* each other, so this is the planning of one of them; test is planned as  *)
(* lint is, with a variable of its own.  Reference, at the end, says       *)
(* without an order what the plan should be.                               *)
(***************************************************************************)
EXTENDS Naturals, Sequences, FiniteSets

CONSTANTS Component, Root,  \* the Components, and the one at the top, if any
          FilePath,         \* paths a request may name
          OwnerOf,          \* the Component each path belongs to: [FilePath -> Component]
          Regular,          \* paths that are plain files Make's lists can express
          Asked             \* the sets of paths each Component may be asked for

VARIABLES
    check,     \* the kind of check that is planned
    contract,  \* what each Component's Makefile declares
    request,   \* what each Component is asked for, as far as it is asked at all
    pending,   \* the selected Components still to be planned, in layout order
    plan       \* the planned check of each executing Component

given == <<check, contract, request>>
planVars == <<given, pending, plan>>

\* problem: the Makefile cannot be read; target: it declares one for the check;
\* variable: it honours LINT_FILES or TEST_FILES.
Contract == {c \in [problem : BOOLEAN, target : BOOLEAN, variable : BOOLEAN] :
               c.problem => ~c.target /\ ~c.variable}
\* Without an impact every Component is relevant and has the request's files;
\* nobody looks at the files of an irrelevant one.
Requests == {r \in [Component -> [relevant : BOOLEAN, candidates : UNION {Asked[c] : c \in Component}]] :
               \A c \in Component : r[c].candidates \in IF r[c].relevant THEN Asked[c] ELSE {{}}}
Check == {"format", "lint"}
NoCheck == [scope |-> "none"]

-----------------------------------------------------------------------------
\* The root Makefile stands in for a Component without a target of its own,
\* except to format.
FallsBack(c) ==
    /\ ~contract[c].target /\ check # "format" /\ c # Root /\ ~contract[c].problem
    /\ Root \in Component /\ contract[Root].target
Executor(c) == IF FallsBack(c) THEN Root ELSE c

\* validationFiles: all candidates or none.
Representable(c) == \A p \in request[c].candidates : OwnerOf[p] = c /\ p \in Regular

ScopeOf(c) ==
    CASE ~request[c].relevant -> "skipped"
      [] request[c].relevant /\ ~contract[Executor(c)].target -> "unavailable"
      [] request[c].relevant /\ contract[Executor(c)].target ->
           IF /\ request[c].candidates # {} /\ Representable(c)
              /\ contract[Executor(c)].variable
           THEN "focused" ELSE "full"

SpecOf(c) ==
    [scope |-> ScopeOf(c), by |-> {c},
     files |-> IF ScopeOf(c) = "focused" THEN request[c].candidates ELSE {}]
\* A check that is skipped is not handed to the root Makefile.
PlannedAt(c) == IF ScopeOf(c) = "skipped" THEN c ELSE Executor(c)

-----------------------------------------------------------------------------
\* appendValidationCheck: what becomes of a planned check and one more request.
KeepsFocused(old, new) ==                         \* mutant: full does not dominate
    [scope |-> IF old.scope = "skipped" THEN new.scope ELSE old.scope,
     files |-> old.files \cup new.files]
Combined(old, new) ==
    CASE old.scope = "skipped" -> [scope |-> new.scope, files |-> new.files]
      [] old.scope # "skipped" /\ new.scope = "full" -> [scope |-> "full", files |-> {}]
      [] old.scope = "focused" /\ new.scope = "focused" ->
           [scope |-> "focused", files |-> old.files \cup new.files]
      [] OTHER -> [scope |-> old.scope, files |-> old.files]

Merged(old, new) ==
    IF old = NoCheck THEN new
    ELSE [scope |-> Combined(old, new).scope, files |-> Combined(old, new).files,
          by |-> old.by \cup new.by]

PlanComponent ==
    /\ pending # <<>>
    /\ LET c == Head(pending)
       IN plan' = [plan EXCEPT ![PlannedAt(c)] = Merged(@, SpecOf(c))]
    /\ pending' = Tail(pending)
    /\ UNCHANGED given

\* Any selection of Components, in any order they may be discovered.
Selections ==
    {o \in UNION {[1..n -> Component] : n \in 0..Cardinality(Component)} :
        \A i, j \in DOMAIN o : o[i] = o[j] => i = j}

PlanInit ==
    /\ check \in Check
    /\ contract \in [Component -> Contract]
    /\ request \in Requests
    /\ pending \in Selections
    /\ plan = [c \in Component |-> NoCheck]

PlanNext == PlanComponent

PlanSpec == PlanInit /\ [][PlanNext]_planVars

-----------------------------------------------------------------------------
Planned == UNION {plan[e].by : e \in {e \in Component : plan[e] # NoCheck}}

\* What a set of requests comes to, whatever the order they came in.
Requesters(e, done) == {c \in done : PlannedAt(c) = e}
Reference(e, done) ==
    LET asked == Requesters(e, done)
        active == {c \in asked : ScopeOf(c) # "skipped"}
        scope == CASE active = {} -> "skipped"
                   [] \E c \in active : ScopeOf(c) = "full" -> "full"
                   [] \E c \in active : ScopeOf(c) = "unavailable" -> "unavailable"
                   [] OTHER -> "focused"
    IN IF asked = {} THEN NoCheck
       ELSE [scope |-> scope, by |-> asked,
             files |-> IF scope = "focused"
                       THEN UNION {request[c].candidates : c \in active} ELSE {}]

\* The plan depends on the requests and not on the order they are met in: each
\* executing Component has one check, full if anybody needs it full, otherwise
\* on the union of the files (entrypoint.go:36-81).
PlanIsReference ==
    \A e \in Component : plan[e] = Reference(e, Planned)
=============================================================================
