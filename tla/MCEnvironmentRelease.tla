------------------------ MODULE MCEnvironmentRelease ------------------------
(***************************************************************************)
(* Small instances of EnvironmentRelease.tla for TLC.                      *)
(***************************************************************************)
EXTENDS EnvironmentRelease

CONSTANTS p1, p2, c1, c2, old, new, nobody

TwoPreparers == {p1, p2}
OnePreparer == {p1}
OneCleaner == {c1}
TwoDigests == {old, new}
=============================================================================
