------------------------- MODULE MCWorkspaceCapture -------------------------
(***************************************************************************)
(* Two files; two small contents, of one and two bytes, and one that is    *)
(* read as a digest.                                                       *)
(***************************************************************************)
EXTENDS WorkspaceCapture

ThreeContents == 1..3
Sizes == <<1, 2, 3>>
LargeContents == {3}

\* The first file is in the base, the index and the tree, until it is edited.
\* The second is or is not in the base and the tree; the index has of it what the
\* base or the tree has, or nothing.
MCInit ==
    /\ CaptureInit
    /\ base[1] = 1 /\ index[1] = 1 /\ tree[1] = 1
    /\ base[2] \in {Absent, 1} /\ tree[2] \in {Absent, 1, 2}
    /\ index[2] \in {base[2], tree[2], Absent}
MCSpec == MCInit /\ [][CaptureNext]_captureVars
=============================================================================
