------------------------- MODULE MCWorktreeRetention -------------------------
(***************************************************************************)
(* Small instances of WorktreeRetention.tla for TLC.                       *)
(***************************************************************************)
EXTENDS WorktreeRetention

TwoPlaces == 1..2
ThreePlaces == 1..3
NoneInside == {}
InsideSecond == {<<2, 1>>}

\* The third is as new as any and has an environment, the second has one.
SomeStart ==
    /\ RetentionInit
    /\ wt[3].created = 1 /\ wt[3].env = "managed" /\ wt[2].env = "managed"
=============================================================================
