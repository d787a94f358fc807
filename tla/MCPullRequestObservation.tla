----------------------- MODULE MCPullRequestObservation -----------------------
(***************************************************************************)
(* Small instances of PullRequestObservation.tla for TLC.                  *)
(***************************************************************************)
EXTENDS PullRequestObservation

CONSTANTS p1, p2

TwoProcs == {p1, p2}
OnlyOvertaken == {{"overtaken"}}
=============================================================================
