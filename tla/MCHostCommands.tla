--------------------------- MODULE MCHostCommands ----------------------------
(***************************************************************************)
(* What the repocli command does on its host beside validation, and how it *)
(* reads what is there: the replay of the validation history, the command  *)
(* log and its statistics, the capture of a checkout, the cleaning of      *)
(* linked checkouts, the graph viewer, and the upgrade.  They share no     *)
(* state; each behaviour is one of them, `part' says which, and the others *)
(* rest in one of their initial states.                                    *)
(***************************************************************************)
EXTENDS MCHistoryReplay, MCWorkspaceCapture, MCWorktreeRetention, CommandLog, Viewer, Upgrade, TLC

CONSTANTS c1, c2, c3, p1, p2, A, B, x, y

VARIABLE part

TwoProcesses == {p1, p2}
TwoPages == {p1, p2}
TwoSnapshots == {A, B}
TwoPaths == {x, y}
\* The first page selects and refreshes; the second refreshes against it.
ClicksByPage == [p \in TwoPages |-> IF p = p1 THEN 3 ELSE 1]

\* The log has three invocations.  Either one is at work, one is yet to begin and
\* a write may be torn; or one is over and its records are there, one has begun, one
\* is yet to begin, and no write will be torn.
ThreeRuns == {c1, c2, c3}
AtWork == [pc |-> "work", started |-> 1, log |-> "open", expired |-> {}, code |-> 0,
            ended |-> FALSE]
Begun == [AtWork EXCEPT !.pc = "open", !.log = "none"]
Over == [AtWork EXCEPT !.pc = "over", !.log = "none", !.ended = TRUE]
Record(r, msg) == [run |-> r, msg |-> msg, code |-> 0, cut |-> Whole]
Holding(records) == [f \in {<<"command", 1>>} |-> records]
LogUnderWay ==
    /\ day = 1 /\ report = Idle
    /\ \/ /\ torn = 0 /\ files = Holding(<<Record(c2, "start")>>)
          /\ invocations = [AllNew EXCEPT ![c2] = AtWork, ![c3] = Over]
       \/ /\ torn = MaxTorn
          /\ files = Holding(<<Record(c3, "start"), Record(c3, "finish")>>)
          /\ invocations = [AllNew EXCEPT ![c2] = Begun, ![c3] = Over]

NoReplay == log = <<>>
NoCapture ==
    /\ job = [kind |-> "snapshot", staged |-> TRUE]
    /\ base = [f \in File |-> Absent] /\ tree = base /\ index = base
    /\ CaptureInit
\* The contents of the tree differ in name only: it begins with A.
NoViewer == ViewerInit /\ workingTree = A
\* The first page shows the graph, the second is yet to be opened.
FirstOpened ==
    /\ workingTree = A /\ edits = 0 /\ current = Capture
    /\ builds = [p \in Page |-> Nothing] /\ wire = {}
    /\ pages = [p \in Page |-> [model |-> IF p = p1 THEN <<"ok", current>> ELSE Nothing,
                                epoch |-> IF p = p1 THEN 1 ELSE 0, selected |-> Nothing,
                                shown |-> Nothing, refreshing |-> FALSE]]
NoUpgrade == UpgradeInit /\ latest = 1
NoCheckouts ==
    /\ wt = [p \in Place |-> [state |-> "clean", at |-> 0, head |-> 0, created |-> 0, env |-> "none"]]
    /\ merged = {} /\ RetentionInit

HostInit ==
    /\ Init
    /\ \/ /\ part = "replay" /\ ~NoReplay /\ LogInit
          /\ NoCapture /\ NoViewer /\ NoUpgrade /\ NoCheckouts
       \/ /\ NoReplay
          /\ \/ part = "log" /\ LogUnderWay /\ NoCapture /\ NoViewer /\ NoUpgrade /\ NoCheckouts
             \/ part = "capture" /\ LogInit /\ MCInit /\ NoViewer /\ NoUpgrade /\ NoCheckouts
             \/ part = "viewer" /\ LogInit /\ NoCapture /\ FirstOpened /\ NoUpgrade /\ NoCheckouts
             \/ part = "upgrade" /\ LogInit /\ NoCapture /\ NoViewer /\ UpgradeInit /\ NoCheckouts
             \/ part = "checkouts" /\ LogInit /\ NoCapture /\ NoViewer /\ NoUpgrade /\ SomeStart

HostNext ==
    /\ UNCHANGED part
    /\ \/ part = "replay" /\ Next
          /\ UNCHANGED <<logVars, captureVars, viewerVars, upgradeVars, retentionVars>>
       \/ part = "log" /\ LogNext
          /\ UNCHANGED <<vars, captureVars, viewerVars, upgradeVars, retentionVars>>
       \/ part = "capture" /\ CaptureNext
          /\ UNCHANGED <<vars, logVars, viewerVars, upgradeVars, retentionVars>>
       \/ part = "viewer" /\ ViewerNext
          /\ UNCHANGED <<vars, logVars, captureVars, upgradeVars, retentionVars>>
       \/ part = "upgrade" /\ UpgradeNext
          /\ UNCHANGED <<vars, logVars, captureVars, viewerVars, retentionVars>>
       \/ part = "checkouts" /\ RetentionNext
          /\ UNCHANGED <<vars, logVars, captureVars, viewerVars, upgradeVars>>

hostVars == <<part, vars, logVars, captureVars, viewerVars, upgradeVars, retentionVars>>
HostSpec == HostInit /\ [][HostNext]_hostVars

=============================================================================
