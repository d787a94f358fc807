--------------------------- MODULE MCPullRequests ----------------------------
(***************************************************************************)
(* What must happen in the end to what is stored of pull requests: each    *)
(* behaviour is the queries of one pull request by several processes       *)
(* (PullRequestObservation.tla) or the scan that discovers those that were *)
(* updated (PullRequestScan.tla); `part' says which, and the other rests.  *)
(***************************************************************************)
EXTENDS PullRequestObservation

CONSTANTS p1, p2, k1,
          Key, Overlap, Age, Lag, PageSize, MaxRequests, MaxReads, MaxRetries, MaxFailed,
          Since, Start, LastUpdate, MaxTime, Calm, Shared

VARIABLES part, now, updated, isOpen, current, storedAt, saved, work, batch

S == INSTANCE PullRequestScan

TwoProcs == {p1, p2}
NoneOrAll == {{}, {"suspended", "overtaken"}}
OneKey == {k1}

scanVars == <<now, updated, isOpen, current, storedAt, saved, work, batch>>

PullRequestsInit ==
    /\ Init /\ S!Init
    /\ \/ part = "query"
          /\ updated = [k \in Key |-> Start] /\ isOpen = [k \in Key |-> FALSE]
       \/ part = "scan"
          /\ gaps = {} /\ updated = [k \in Key |-> Start] /\ isOpen = [k \in Key |-> TRUE]

Querying(A) == part = "query" /\ A /\ UNCHANGED <<part, scanVars>>
Scanning(A) == part = "scan" /\ A /\ UNCHANGED <<part, vars>>

PullRequestsNext == Querying(Next) \/ Scanning(S!Next)
allVars == <<part, vars, scanVars>>

\* The fairness of each part is that of its module; a part goes on to its end, so
\* that time passes and processes step in the one or the other.  The scan has one
\* process, which is the first.
FairPullRequests ==
    /\ PullRequestsInit /\ [][PullRequestsNext]_allVars
    /\ WF_allVars(Querying(Pass) \/ Scanning(S!Tick))
    /\ \A p \in Proc : WF_allVars(Querying(Step(p)) \/ (p = p1 /\ Scanning(S!Scan)))
    /\ \A k \in Key :
         /\ SF_allVars(Scanning(S!ListPage /\ S!Covers(S!First, k) /\ ~work'.pass.partial))
         /\ SF_allVars(Scanning((S!Retry \/ S!ReadListed(k)) /\ current'[k]))

-----------------------------------------------------------------------------
\* Every update is found out about in the end, whatever is listed late, cannot be
\* listed or read for a while, is served from the store or lost with a batch
\* (docs/pr.md:275: scanning again never leaves a fact out for good).
UpdatesFound ==
    \A k \in Key : (part = "scan" /\ S!Outdated(k)) ~> ~S!Outdated(k)
=============================================================================
