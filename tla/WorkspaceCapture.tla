-------------------------- MODULE WorkspaceCapture --------------------------
(***************************************************************************)
(* Reading the contents of a checkout while it is edited (git/repository.go)*)
(* and what is built on it: the captured snapshot (analysis/capture.go),   *)
(* which is read twice, and the comparison with a base commit              *)
(* (analysis/comparison.go), which is read before the patch, after it, and *)
(* when the analysis is done.  Up to Workers goroutines read the files of  *)
(* the working tree; the index and commits are read as blobs, which do not *)
(* change.  Links, gitlinks and unmerged entries are left out, and so are  *)
(* reads of one file that are torn by an edit.                             *)
(***************************************************************************)
EXTENDS Integers, Sequences, FiniteSets

CONSTANTS NFile,        \* files are numbered in the order of their paths
          Content,      \* what a file may hold, but for Absent
          Size,         \* of each content, in bytes
          Oversized,    \* contents over maxFileBytes: only their digest is kept
          MaxBytes,     \* MaxSnapshotBytes
          Workers,      \* 16 in the code
          MaxEdits      \* a bound: edits of files and of the index

VARIABLES
    job,                \* [kind, staged]: snapshot or comparison, of index or tree
    base,               \* the contents of the base commit
    tree, index,        \* what files hold, and what the index has of them
    past,               \* all that tree and index have been since the job began
    reading,            \* the reading under way, or the last one
    patch,              \* git diff: [index, left, changed]
    seen,               \* the readings that are done
    pc

captureVars == <<job, base, tree, index, past, reading, patch, seen, pc>>

File == 1..NFile
Absent == 0

ASSUME CaptureAssumption ==
    /\ NFile \in Nat /\ MaxBytes \in Nat
    /\ Absent \notin Content /\ Oversized \subseteq Content /\ Size \in [Content -> Nat]

Contents == [File -> Content \cup {Absent}]
Known(contents) == {f \in File : contents[f] # Absent}

Unread == <<"unread">>
NoReading == [tracked |-> {}, others |-> {}, budget |-> 0,
              results |-> [f \in File |-> Unread], tree |-> Absent, index |-> Absent]
NoPatch == [index |-> {}, left |-> {}, changed |-> {}]
ReadOf(c) == IF c = Absent THEN <<"absent">>
             ELSE IF c \in Oversized THEN <<"large", c>> ELSE <<"file", c>>
\* The sum of the sizes, file by file, and the bytes that results hold.
Total(sizes) ==
    LET upTo[n \in 0..NFile] == IF n = 0 THEN 0 ELSE upTo[n - 1] + sizes[n] IN upTo[NFile]
Bytes(results) ==
    Total([f \in File |-> IF results[f][1] = "file" THEN Size[results[f][2]] ELSE 0])
Kept(results) ==
    [f \in File |-> IF results[f][1] \in {"file", "large"} THEN results[f] ELSE <<"absent">>]
ContentOf(results) ==
    [f \in File |-> IF results[f][1] \in {"file", "large"} THEN results[f][2] ELSE Absent]

-----------------------------------------------------------------------------
(* One reading.                                                            *)

\* Where the job is after its n-th reading.
After(n) ==
    IF job.kind = "snapshot" THEN IF n = 2 THEN "done" ELSE "list"
    ELSE CASE n = 1 -> "patch" [] n = 2 -> "list" [] OTHER -> "done"

\* An error: all that has been read is dropped.
Leave(as) ==
    /\ pc' = as
    /\ reading' = NoReading /\ patch' = NoPatch /\ seen' = <<>>

Finish(results, others) ==
    IF Bytes(results) > MaxBytes THEN Leave("failed")
    ELSE /\ seen' = Append(seen, [files |-> Kept(results), others |-> others])
         /\ pc' = After(Len(seen'))
         /\ reading' = NoReading /\ UNCHANGED patch

\* Base: the commit is resolved once, its blobs are read.
ReadBase ==
    /\ pc = "base"
    /\ IF Bytes([f \in File |-> ReadOf(base[f])]) > MaxBytes THEN Leave("failed")
       ELSE pc' = "list" /\ UNCHANGED <<reading, patch, seen>>
    /\ UNCHANGED <<job, base, tree, index, past>>

\* Staged: one ls-files has all the blobs of the index.
ReadIndex ==
    /\ pc = "list" /\ job.staged
    /\ Finish([f \in File |-> ReadOf(index[f])], {})
    /\ UNCHANGED <<job, base, tree, index, past>>

\* Working: the tracked files, and then the others.
ListTracked ==
    /\ pc = "list" /\ ~job.staged
    /\ reading' = [NoReading EXCEPT !.tracked = Known(index), !.tree = tree, !.index = index]
    /\ pc' = "others"
    /\ UNCHANGED <<job, base, tree, index, past, patch, seen>>

ListOthers ==
    /\ pc = "others"
    /\ reading' = [reading EXCEPT !.others = Known(tree) \ Known(index)]
    /\ pc' = "read"
    /\ UNCHANGED <<job, base, tree, index, past, patch, seen>>

Listed == reading.tracked \cup reading.others
Unfinished == {f \in Listed : reading.results[f][1] \in {"unread", "file?", "large?"}}

\* readWorkingFiles: Lstat; a small file claims its size of the budget.
ClaimOfAny(c) == Size[c]                    \* mutant: a size is claimed before it is looked at
Claim(c) == IF c \in Oversized THEN 0 ELSE Size[c]
Looked(c, claimed) ==
    IF c \in Oversized THEN <<"large?">>
    ELSE IF claimed > MaxBytes THEN <<"over">> ELSE <<"file?">>

Look(f) ==
    /\ pc = "read" /\ f \in Listed /\ reading.results[f] = Unread
    /\ Cardinality({g \in Unfinished : g < f}) < Workers
    /\ reading' =
           IF tree[f] = Absent THEN [reading EXCEPT !.results[f] = <<"absent">>]
           ELSE LET claimed == reading.budget + Claim(tree[f])
                IN  [reading EXCEPT !.budget = claimed, !.results[f] = Looked(tree[f], claimed)]
    /\ UNCHANGED <<job, base, tree, index, past, patch, seen, pc>>

\* It is read, whatever it holds by now; that it has gone is an error.
ReadFile(f) ==
    /\ pc = "read" /\ f \in Listed /\ reading.results[f][1] \in {"file?", "large?"}
    /\ reading' = [reading EXCEPT !.results[f] =
           IF tree[f] = Absent THEN <<"error">>
           ELSE IF @ = <<"file?">> THEN <<"file", tree[f]>> ELSE <<"large", tree[f]>>]
    /\ UNCHANGED <<job, base, tree, index, past, patch, seen, pc>>

\* The results are merged in the order of their paths; the first one that has
\* failed, or the one that crosses the limit, fails the capture.
Failed == \E f \in Listed : reading.results[f][1] \in {"over", "error"}
Merge ==
    /\ pc = "read" /\ Unfinished = {}
    /\ IF Failed THEN Leave("failed") ELSE Finish(reading.results, reading.others)
    /\ UNCHANGED <<job, base, tree, index, past>>

Cancel ==
    /\ pc \in {"base", "list", "others", "read", "patch", "diff"}
    /\ Leave("cancelled")
    /\ UNCHANGED <<job, base, tree, index, past>>

-----------------------------------------------------------------------------
(* The patch: git compares the files of the base and of the index.         *)

BeginPatch ==
    /\ pc = "patch"
    /\ patch' = IF job.staged
                THEN [NoPatch EXCEPT !.changed = {f \in File : index[f] # base[f]}]
                ELSE [index |-> Known(index), left |-> Known(index) \cup Known(base), changed |-> {}]
    /\ pc' = IF patch'.left = {} THEN "list" ELSE "diff"
    /\ UNCHANGED <<job, base, tree, index, past, reading, seen>>

\* A file that is not in the index is removed, whatever the tree has.
DiffFile ==
    /\ pc = "diff"
    /\ \E f \in patch.left :
          LET now == IF f \in patch.index THEN tree[f] ELSE Absent IN
          /\ \A g \in patch.left : f <= g
          /\ patch' = [patch EXCEPT !.left = @ \ {f},
                          !.changed = IF now = base[f] THEN @ ELSE @ \cup {f}]
    /\ pc' = IF patch'.left = {} THEN "list" ELSE "diff"
    /\ UNCHANGED <<job, base, tree, index, past, reading, seen>>

-----------------------------------------------------------------------------
(* What is reported.                                                       *)

Report == IF job.kind = "snapshot" THEN seen[1] ELSE seen[2]

\* Untracked files of the second reading are changes as well.
Changes == patch.changed \cup Report.others

\* The digests, which are of files alone, are equal.
SameAtTheEnd == seen[Len(seen)].files = seen[Len(seen) - 1].files  \* mutant: the first is forgotten
SameDigests == \A n \in 2..Len(seen) : seen[n].files = seen[1].files
Complete == pc = "done" /\ SameDigests

-----------------------------------------------------------------------------
(* Who edits meanwhile puts nothing back to what it has been since then.   *)

Began == pc \notin {"done", "failed", "cancelled"}
May == Began /\ Cardinality(past) <= MaxEdits
Moment(t, i) == [tree |-> t, index |-> i]

Edit(f, c) ==
    /\ May /\ \A m \in past : m.tree[f] # c
    /\ tree' = [tree EXCEPT ![f] = c]
    /\ past' = past \cup {Moment(tree', index)}
    /\ UNCHANGED <<job, base, index, reading, patch, seen, pc>>

\* git add, git reset, git rm --cached.
Restage(f) ==
    /\ May
    /\ \E c \in {tree[f], base[f], Absent} :
          /\ \A m \in past : m.index[f] # c
          /\ index' = [index EXCEPT ![f] = c]
    /\ past' = past \cup {Moment(tree, index')}
    /\ UNCHANGED <<job, base, tree, reading, patch, seen, pc>>

-----------------------------------------------------------------------------
\* Base, index and tree are any contents: a commit, what is staged, what is there.
CaptureInit ==
    /\ job \in [kind : {"snapshot", "comparison"}, staged : BOOLEAN]
    /\ base \in Contents /\ tree \in Contents /\ index \in Contents
    /\ past = {Moment(tree, index)}
    /\ reading = NoReading /\ patch = NoPatch /\ seen = <<>>
    /\ pc = IF job.kind = "snapshot" THEN "list" ELSE "base"

CaptureNext ==
    \/ ReadBase \/ ReadIndex \/ ListTracked \/ ListOthers \/ Merge \/ Cancel
    \/ BeginPatch \/ DiffFile
    \/ \E f \in File :
          \/ Look(f) \/ ReadFile(f) \/ Restage(f)
          \/ \E c \in Content \cup {Absent} : Edit(f, c)

CaptureSpec == CaptureInit /\ [][CaptureNext]_captureVars

-----------------------------------------------------------------------------
(* Properties.                                                             *)

\* Digests are of files and say nothing of the index: a file that is added to it
\* between the two listings of a reading is in neither, and one that is added
\* after the patch is not among the untracked ones either.  What is said of a
\* working tree is said of the files whose index entry nobody touches meanwhile.
EntryKept(f) == job.staged \/ \A m \in past : m.index[f] = index[f]

\* "Mutable inputs are observed twice": what is reported as complete was, all of
\* it at one moment since the job began, what the tree (or the index) held,
\* though every file was read at another time, and listed before that.
CompleteIsOneMoment ==
    Complete => \E m \in past : \A f \in File :
        EntryKept(f) => ContentOf(Report.files)[f] = IF job.staged THEN m.index[f] ELSE m.tree[f]

\* Whatever happens to the index, each file of it was so at some moment.
CompleteIsOfEachFile ==
    Complete /\ ~job.staged => \A f \in File : \E m \in past :
        ContentOf(Report.files)[f] = m.tree[f]

\* The changes of a complete comparison are the differences of its contents, and
\* the files that the base has and the index has not: of a working tree these
\* are reported as removed, whatever is there.
Unlisted(f) == ~job.staged /\ base[f] # Absent /\ index[f] = Absent
ChangesAreTheDifference ==
    Complete /\ job.kind = "comparison" => \A f \in File :
        EntryKept(f) => (f \in Changes <=> ContentOf(Report.files)[f] # base[f] \/ Unlisted(f))

\* What a capture says of a tree that is being edited (analysis/capture.go,
\* comparison.go).
CaptureIsTrue == CompleteIsOneMoment /\ CompleteIsOfEachFile /\ ChangesAreTheDifference

\* The error contract of the concurrent reading is that of a serial one: of a
\* tree that does not change under it, it fails only if its files exceed the
\* limit, in whatever order their sizes are claimed; and no more than the limit
\* is in memory at any time.
Still == pc = "read" /\ tree = reading.tree /\ index = reading.index
TreeBytes == Bytes([f \in File |-> ReadOf(tree[f])])
ReadsAsSerial ==
    Still => /\ Bytes(reading.results) <= MaxBytes
             /\ Unfinished = {} =>
                    IF TreeBytes > MaxBytes THEN Failed
                    ELSE ~Failed /\ ContentOf(reading.results) = tree
=============================================================================
