------------------------------ MODULE Upgrade ------------------------------
(***************************************************************************)
(* `repocli upgrade' (upgrade/upgrade.go, upgrade/install.go).  A process  *)
(* checks the latest release, downloads and verifies it, stages the binary *)
(* beside the installed one and renames it over that.  Processes may run   *)
(* at the same time, releases appear, a process is killed or the machine   *)
(* loses power at any point: what had not been written back is lost then.  *)
(* A file is its version and how much of its bytes there is.               *)
(***************************************************************************)
EXTENDS Naturals

CONSTANTS Process, LastVersion  \* the releases are 1..LastVersion

VARIABLES
    latest,      \* the latest stable release
    executable,  \* the file that the name of the binary stands for
    durable,     \* the one that it stands for after a loss of power
    procs

upgradeVars == <<latest, executable, durable, procs>>

\* bytes: "none", "some", "all", or "other" than what the release holds;
\* synced: they survive a loss of power; mode: it may be executed.
NoFile == [version |-> 0, bytes |-> "none", synced |-> FALSE, mode |-> FALSE]
Runnable(file) == file.bytes = "all" /\ file.mode

Step(p, from, to) == procs[p].pc = from /\ procs' = [procs EXCEPT ![p].pc = to]
Rest == UNCHANGED <<latest, executable, durable>>

\* An error, a deadline: the staged file and the archive are removed.
Ended == [pc |-> "over", running |-> 0, release |-> 0, archive |-> "none", staged |-> NoFile]
GiveUp(p) ==
    /\ procs[p].pc \notin {"new", "over"}
    /\ procs' = [procs EXCEPT ![p] = Ended]
    /\ Rest

-----------------------------------------------------------------------------
Start(p) ==
    /\ procs[p].pc = "new" /\ Runnable(executable)
    /\ procs' = [procs EXCEPT ![p].pc = "check", ![p].running = executable.version]
    /\ Rest

\* Check: a stable release newer than the running binary.
Check(p) ==
    /\ procs[p].pc = "check" /\ latest > procs[p].running
    /\ procs' = [procs EXCEPT ![p].pc = "stage", ![p].release = latest]
    /\ Rest

\* os.CreateTemp beside the binary: mode 0600 and empty.
Stage(p) ==
    /\ procs[p].pc = "stage"
    /\ procs' = [procs EXCEPT ![p].pc = "download",
                    ![p].staged = [NoFile EXCEPT !.version = procs[p].release]]
    /\ Rest

\* The archive comes whole, cut short or altered.
Download(p) ==
    /\ procs[p].pc = "download"
    /\ \E bytes \in {"some", "all", "other"} :
          procs' = [procs EXCEPT ![p].pc = "verify", ![p].archive = bytes]
    /\ Rest

\* A mismatch with the checksum of the release ends the upgrade: GiveUp.
Verify(p) ==
    /\ procs[p].archive = "all"
    /\ Step(p, "verify", "extract")
    /\ Rest

\* extract, with an error when the disk is full: GiveUp.
Extract(p) ==
    /\ procs[p].pc = "extract"
    /\ procs' = [procs EXCEPT ![p].pc = "chmod", ![p].staged.bytes = procs[p].archive]
    /\ Rest

Chmod(p) ==
    /\ procs[p].pc = "chmod"
    /\ procs' = [procs EXCEPT ![p].pc = "sync", ![p].staged.mode = TRUE]
    /\ Rest

\* A mutant: the bytes are left to be written back some time.
SyncLater(p) == Step(p, "sync", "rename") /\ Rest

Sync(p) ==
    /\ procs[p].pc = "sync"
    /\ procs' = [procs EXCEPT ![p].pc = "rename", ![p].staged.synced = TRUE]
    /\ Rest

\* os.Rename: the one commit point.
Rename(p) ==
    /\ procs[p].pc = "rename"
    /\ executable' = procs[p].staged
    /\ procs' = [procs EXCEPT ![p] = Ended]
    /\ UNCHANGED <<latest, durable>>

-----------------------------------------------------------------------------
(* The world around it.                                                    *)

Release == latest < LastVersion /\ latest' = latest + 1 /\ UNCHANGED <<executable, durable, procs>>

\* The system writes back names when it likes: they are not synchronised.
WriteBack ==
    /\ durable # executable
    /\ durable' = executable
    /\ UNCHANGED <<latest, executable, procs>>

\* Bytes that were not synchronised are gone, in part or all.
PowerLoss ==
    /\ \E p \in Process : procs[p].pc # "new"
    /\ \E left \in IF durable.synced THEN {durable.bytes} ELSE {"none", "some", durable.bytes} :
          /\ executable' = [durable EXCEPT !.bytes = left, !.synced = TRUE]
          /\ durable' = executable'
    /\ procs' = [p \in Process |-> IF procs[p].pc = "new" THEN procs[p] ELSE Ended]
    /\ UNCHANGED latest

UpgradeInit ==
    /\ latest \in 1..LastVersion
    /\ \E v \in 1..latest : executable = [version |-> v, bytes |-> "all", synced |-> TRUE, mode |-> TRUE]
    /\ durable = executable
    /\ procs = [p \in Process |-> [Ended EXCEPT !.pc = "new"]]

UpgradeNext ==
    \/ \E p \in Process :
          \/ Start(p) \/ Check(p) \/ Stage(p) \/ Download(p) \/ Verify(p) \/ Extract(p)
          \/ Chmod(p) \/ Sync(p) \/ Rename(p) \/ GiveUp(p)
    \/ Release \/ WriteBack \/ PowerLoss

UpgradeSpec == UpgradeInit /\ [][UpgradeNext]_upgradeVars

-----------------------------------------------------------------------------
(* Properties.                                                             *)

\* "Every failure before that single commit point leaves the old executable
\* intact", and none after it harms the new one: whatever is installed, now or
\* after a loss of power at any moment, is all of a release and may be executed.
AlwaysRunnable == Runnable(executable)
=============================================================================
