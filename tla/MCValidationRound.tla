------------------------- MODULE MCValidationRound -------------------------
(***************************************************************************)
(* Small instances of ValidationRound.tla for TLC.                         *)
(***************************************************************************)
EXTENDS ValidationRound

CONSTANTS s1, s2, source, version, bin

TwoSessions == {s1, s2}
OnlyS1 == {s1}
OnlyS2 == {s2}
TwoTasks == {1, 2}
Nothing == {}
First == {1}
\* s2 finds no target for its second check.
OneMissing == [s \in Session |-> IF s = s2 THEN {2} ELSE {}]

AllFiles == {source, version, bin}
TheVersion == {version}
TheBin == {bin}
\* Check 1 reads the source, the version document and the Bin, check 2 the source.
ReadsMore == [t \in Task |-> IF t = 1 THEN AllFiles ELSE {source}]

Contents == {0, 1, 2, 3}
NoReceipt == {0, 1}
\* Good and bad sources and versions; the Bin is unmanaged, or managed and good.
EachContent == [f \in File |-> IF f = bin THEN {0, 1, 2} ELSE {2, 3}]
\* The truth: even contents are good, and no check looks at a version.
EvenPasses(t, c) == \A f \in InputsOf[t] \ VersionFile : c[f] % 2 = 0

\* The contents of the version document differ in name only: it begins with the first.
RoundsInit == Init /\ tree[version] = 2
RoundsSpec == RoundsInit /\ [][Next]_vars
=============================================================================
