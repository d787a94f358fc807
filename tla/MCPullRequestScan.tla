-------------------------- MODULE MCPullRequestScan --------------------------
(***************************************************************************)
(* Small instances of PullRequestScan.tla for TLC.                         *)
(***************************************************************************)
EXTENDS PullRequestScan, TLC

CONSTANTS k1, k2

Keys == {k1, k2}
Exchangeable == Permutations(Keys)
=============================================================================
