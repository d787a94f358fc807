--------------------------- MODULE MCHistoryReplay ---------------------------
(***************************************************************************)
(* Short logs about two Runs, and the empty one.                           *)
(***************************************************************************)
EXTENDS HistoryReplay

CONSTANTS r1, r2, k1, k2, main, other

TwoRuns == {r1, r2}
TwoKeys == {k1, k2}
OneCheckout == {main}
\* A "failed" completion need not also be told apart by its consistency.
SomeEvents == {e \in Event : e.type = "finished" => e.consistent \/ e.status = "passed"}
\* Logs of four events, and of five on one task whose completions are all
\* consistent successes.  All begin with r1 and k1: the others differ in names.
Plain(e) == e.key = k1 /\ (e.type = "finished" => e.status = "passed" /\ e.consistent)
FromFirst(l) == l[1].run = r1 /\ l[1].key = k1
AllLogs == {<<>>} \cup {l \in [1..4 -> SomeEvents] : FromFirst(l)}
             \cup {l \in [1..5 -> {e \in SomeEvents : Plain(e)}] : FromFirst(l)}
=============================================================================
