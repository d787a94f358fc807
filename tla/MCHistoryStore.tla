--------------------------- MODULE MCHistoryStore ---------------------------
(***************************************************************************)
(* Small instances of HistoryStore.tla for TLC.                            *)
(***************************************************************************)
EXTENDS HistoryStore, FiniteSets, TLC

CONSTANTS s1, s2, s3

Together == [s \in Session |-> 1]
OneByOne == [s \in Session |-> IF s = s1 THEN 1 ELSE IF s = s2 THEN 2 ELSE 3]
FarApart == [s \in Session |-> IF s = s1 THEN 1 ELSE 3]
NothingForS3 == [s \in Session |-> IF s = s3 THEN {} ELSE Task]
OneForS2 == [s \in Session |-> IF s = s2 THEN {1} ELSE Task]
OnlyS1 == {s1}
OneTask == {1}
TwoTasks == {1, 2}
TwoSessions == {s1, s2}
ThreeSessions == {s1, s2, s3}

SameCheckout == [s \in Session |-> "main"]
EqualWindows == [s \in Session |-> 1]

\* The memory of a process that has ended is not part of the system's state.
Memory(s) == IF Over(s) THEN <<healthy[s], status[s], consistent[s]>>
             ELSE <<healthy[s], check[s], status[s], source[s], consistent[s],
                    view[s], now[s], batch[s], handle[s]>>
SystemView == <<clock, wal, first, torn, lock, inputsAt, outputsAt, pc,
                [s \in Session |-> Memory(s)]>>
=============================================================================
