----------------------- MODULE EnvironmentReleaseProofs -----------------------
(***************************************************************************)
(* Proofs about EnvironmentRelease.tla, for any preparing and cleaning     *)
(* processes, any manifests, and any number of crashes, edits and          *)
(* directories the user makes or removes.                                  *)
(***************************************************************************)
EXTENDS EnvironmentRelease, TLAPS

-----------------------------------------------------------------------------
(* The invariant.                                                          *)

Contents == [kind : {"partial", "remains", "user"}]
                \cup [kind : {"installed"}, of : Fingerprint]
Directory == [state : {"present"}, id : Identity, contents : Contents,
              receipt : {None} \cup [state : {"some"}, id : Fingerprint]]

PreparerPlace == {"idle", "wait", "pending", "check", "install", "verify"}
CleanerPlace == {"idle", "wait", "list", "again", "mark", "delete", "retire"}

TypeOK ==
    /\ inputs \in Fingerprint /\ during \subseteq Fingerprint /\ undone \in BOOLEAN
    /\ want \in [Preparer -> Fingerprint]
    /\ used \in Nat /\ excess \in BOOLEAN
    /\ dir = Absent \/ dir \in Directory
    /\ journal = None \/ journal \in [state : {"some"}, id : Identity]
    /\ lease \in Process \cup {Nobody}
    /\ DOMAIN pc = Process
    /\ \A p \in Preparer : pc[p] \in PreparerPlace
    /\ \A c \in Cleaner : pc[c] \in CleanerPlace

\* The lease is held by whoever is past waiting for it, and by nobody else.
LeaseOK == \A p \in Process : lease = p <=> pc[p] \notin {"idle", "wait"}

\* A number is given to a directory once: the directory and the journal have
\* one that was given out, and a directory that the journal names is not a
\* user's.
IdentityOK ==
    /\ Present => dir.id <= used
    /\ journal # None => journal.id <= used
    /\ Pending => dir.contents # [kind |-> "user"]

\* What a process knows of the directory and the journal at each of its steps.
PlaceOK ==
    /\ \A p \in Preparer :
          /\ pc[p] \in {"check", "install", "verify"} => journal = None
          /\ pc[p] = "install" => Present /\ dir.contents = [kind |-> "partial"]
          /\ pc[p] = "verify" => Present /\ dir.contents.kind = "installed"
    /\ \A c \in Cleaner :
          /\ pc[c] = "mark" => Present /\ dir.contents # [kind |-> "user"]
          /\ (pc[c] = "delete" /\ Present)
                => journal = Some(dir.id) /\ dir.contents # [kind |-> "user"]
          /\ pc[c] = "retire" => ~Present

\* A receipt is in a directory that somebody has installed, and what a deletion
\* has left is in the journal.
ContentsOK ==
    /\ (Present /\ dir.receipt # None) => dir.contents # [kind |-> "user"]
    /\ RemainsJournaled

IInv == TypeOK /\ LeaseOK /\ IdentityOK /\ PlaceOK /\ ContentsOK

\* The rest of it, for an installer that starts from an empty directory: while
\* one is at work there is no receipt, and what it has read is what it was asked
\* for, unless the manifests have changed since or an edit of them was undone.
ReceiptOK ==
    /\ (Present /\ dir.receipt # None /\ dir.contents # Remains)
          => dir.contents.kind = "installed" /\ (undone \/ dir.contents.of = dir.receipt.id)
    /\ \A p \in Preparer :
          /\ pc[p] = "install" =>
                /\ dir.receipt = None
                /\ during = {want[p]} \/ inputs # want[p] \/ undone
          /\ pc[p] = "verify" =>
                /\ dir.receipt = None
                /\ dir.contents.of = want[p] \/ inputs # want[p] \/ undone

-----------------------------------------------------------------------------
(* Steps.  Whoever changes the directory or the journal holds the lease, or *)
(* nobody does (UserMay): LeaseOK makes the other processes' places idle.   *)

\* Directories, identities and places stay what they are.
LEMMA StepType == TypeOK /\ LeaseOK /\ [Next]_vars => TypeOK'
  <1> SUFFICES ASSUME TypeOK /\ LeaseOK, [Next]_vars PROVE TypeOK'
    OBVIOUS
  <1> USE ProcessAssumption
        DEF TypeOK, manifests, userVars, Process, PreparerPlace, CleanerPlace, Move,
            Leave
  <1>1. ASSUME NEW p \in Preparer, Inspect(p) PROVE TypeOK'
    BY <1>1 DEF Inspect
  <1>2. ASSUME NEW p \in Process, Acquire(p) PROVE TypeOK'
    BY <1>2 DEF Acquire
  <1>3. ASSUME NEW p \in Preparer, RefusePending(p) PROVE TypeOK'
    BY <1>3 DEF RefusePending
  <1>4. ASSUME NEW p \in Preparer, NothingPending(p) PROVE TypeOK'
    BY <1>4 DEF NothingPending, Retired, None
  <1>5. ASSUME NEW p \in Preparer, NoInstall(p) PROVE TypeOK'
    BY <1>5 DEF NoInstall
  <1>6. ASSUME NEW p \in Preparer, Install(p) PROVE TypeOK'
    <2>1. dir' \in Directory /\ used' \in Nat
      BY <1>6 DEF Install, Directory, Contents, NewIdentity, Identity, None, Present
    <2>2. during' \subseteq Fingerprint /\ undone' \in BOOLEAN /\ UNCHANGED <<inputs, want, excess, journal, lease>>
      BY <1>6 DEF Install
    <2>3. pc' = [pc EXCEPT ![p] = "install"]
      BY <1>6 DEF Install
    <2> QED BY <2>1, <2>2, <2>3
  <1>7. ASSUME NEW p \in Preparer, Installed(p) PROVE TypeOK'
    <2>1. PICK f \in during : dir' = [dir EXCEPT !.contents = [kind |-> "installed", of |-> f]]
      BY <1>7 DEF Installed
    <2>2. dir \in Directory /\ [kind |-> "installed", of |-> f] \in Contents
      BY <1>7 DEF Installed, Present, Contents
    <2>3. dir' \in Directory
      BY <2>1, <2>2 DEF Directory
    <2> QED BY <1>7, <2>3 DEF Installed
  <1>8. ASSUME NEW p \in Preparer, InstallFails(p) PROVE TypeOK'
    BY <1>8 DEF InstallFails
  <1>9. ASSUME NEW p \in Preparer, WriteReceipt(p) PROVE TypeOK'
    BY <1>9 DEF WriteReceipt, Directory, Some, Present
  <1>10. ASSUME NEW p \in Preparer, NoReceipt(p) PROVE TypeOK'
    BY <1>10 DEF NoReceipt
  <1>11. ASSUME NEW c \in Cleaner, Begin(c) PROVE TypeOK'
    BY <1>11 DEF Begin
  <1>12. ASSUME NEW c \in Cleaner, List(c) PROVE TypeOK'
    BY <1>12 DEF List
  <1>13. ASSUME NEW c \in Cleaner, ListAgain(c) PROVE TypeOK'
    BY <1>13 DEF ListAgain
  <1>14. ASSUME NEW c \in Cleaner, NoRelease(c) PROVE TypeOK'
    BY <1>14 DEF NoRelease, Retired, None
  <1>15. ASSUME NEW c \in Cleaner, Mark(c) PROVE TypeOK'
    BY <1>15 DEF Mark, Directory, Marked, Some, Present
  <1>16. ASSUME NEW c \in Cleaner, DeleteEntry(c) PROVE TypeOK'
    BY <1>16 DEF DeleteEntry, Remains, Directory, Contents, None, Present
  <1>17. ASSUME NEW c \in Cleaner, DeleteRest(c) PROVE TypeOK'
    BY <1>17 DEF DeleteRest
  <1>18. ASSUME NEW c \in Cleaner, Retire(c) PROVE TypeOK'
    BY <1>18 DEF Retire, None
  <1>19. ASSUME NEW p \in Process, Crash(p) PROVE TypeOK'
    BY <1>19 DEF Crash
  <1>20. ASSUME NEW f \in Fingerprint, Edit(f) PROVE TypeOK'
    BY <1>20 DEF Edit
  <1>21. ASSUME NEW i \in Identity, UserInstalls(i) PROVE TypeOK'
    BY <1>21 DEF UserInstalls, Directory, Contents, NewIdentity, Identity, None, Present, UserMay
  <1>22. CASE UserRemoves
    BY <1>22 DEF UserRemoves, UserMay
  <1>23. CASE Recount
    BY <1>23 DEF Recount
  <1>24. CASE UNCHANGED vars
    BY <1>24 DEF vars
  <1> QED
    BY <1>1, <1>2, <1>3, <1>4, <1>5, <1>6, <1>7, <1>8, <1>9, <1>10, <1>11, <1>12,
       <1>13, <1>14, <1>15, <1>16, <1>17, <1>18, <1>19, <1>20, <1>21, <1>22, <1>23, <1>24
    DEF Next, Prepare, Clean, World, Process

\* The lease is taken and given back together with the place.
LEMMA StepLease == TypeOK /\ LeaseOK /\ [Next]_vars => LeaseOK'
  <1> SUFFICES ASSUME TypeOK /\ LeaseOK, [Next]_vars PROVE LeaseOK'
    OBVIOUS
  <1> USE ProcessAssumption
        DEF TypeOK, LeaseOK, manifests, userVars, Process, PreparerPlace, CleanerPlace,
            Move, Leave
  <1>1. ASSUME NEW p \in Preparer, Inspect(p) PROVE LeaseOK'
    BY <1>1 DEF Inspect
  <1>2. ASSUME NEW p \in Process, Acquire(p) PROVE LeaseOK'
    BY <1>2 DEF Acquire
  <1>3. ASSUME NEW p \in Preparer, RefusePending(p) PROVE LeaseOK'
    BY <1>3 DEF RefusePending
  <1>4. ASSUME NEW p \in Preparer, NothingPending(p) PROVE LeaseOK'
    BY <1>4 DEF NothingPending
  <1>5. ASSUME NEW p \in Preparer, NoInstall(p) PROVE LeaseOK'
    BY <1>5 DEF NoInstall
  <1>6. ASSUME NEW p \in Preparer, Install(p) PROVE LeaseOK'
    BY <1>6 DEF Install
  <1>7. ASSUME NEW p \in Preparer, Installed(p) PROVE LeaseOK'
    BY <1>7 DEF Installed
  <1>8. ASSUME NEW p \in Preparer, InstallFails(p) PROVE LeaseOK'
    BY <1>8 DEF InstallFails
  <1>9. ASSUME NEW p \in Preparer, WriteReceipt(p) PROVE LeaseOK'
    BY <1>9 DEF WriteReceipt
  <1>10. ASSUME NEW p \in Preparer, NoReceipt(p) PROVE LeaseOK'
    BY <1>10 DEF NoReceipt
  <1>11. ASSUME NEW c \in Cleaner, Begin(c) PROVE LeaseOK'
    BY <1>11 DEF Begin
  <1>12. ASSUME NEW c \in Cleaner, List(c) PROVE LeaseOK'
    BY <1>12 DEF List
  <1>13. ASSUME NEW c \in Cleaner, ListAgain(c) PROVE LeaseOK'
    BY <1>13 DEF ListAgain
  <1>14. ASSUME NEW c \in Cleaner, NoRelease(c) PROVE LeaseOK'
    BY <1>14 DEF NoRelease
  <1>15. ASSUME NEW c \in Cleaner, Mark(c) PROVE LeaseOK'
    BY <1>15 DEF Mark
  <1>16. ASSUME NEW c \in Cleaner, DeleteEntry(c) PROVE LeaseOK'
    BY <1>16 DEF DeleteEntry, Remains
  <1>17. ASSUME NEW c \in Cleaner, DeleteRest(c) PROVE LeaseOK'
    BY <1>17 DEF DeleteRest
  <1>18. ASSUME NEW c \in Cleaner, Retire(c) PROVE LeaseOK'
    BY <1>18 DEF Retire
  <1>19. ASSUME NEW p \in Process, Crash(p) PROVE LeaseOK'
    BY <1>19 DEF Crash
  <1>20. ASSUME NEW f \in Fingerprint, Edit(f) PROVE LeaseOK'
    BY <1>20 DEF Edit
  <1>21. ASSUME NEW i \in Identity, UserInstalls(i) PROVE LeaseOK'
    BY <1>21 DEF UserInstalls
  <1>22. CASE UserRemoves
    BY <1>22 DEF UserRemoves
  <1>23. CASE Recount
    BY <1>23 DEF Recount
  <1>24. CASE UNCHANGED vars
    BY <1>24 DEF vars
  <1> QED
    BY <1>1, <1>2, <1>3, <1>4, <1>5, <1>6, <1>7, <1>8, <1>9, <1>10, <1>11, <1>12,
       <1>13, <1>14, <1>15, <1>16, <1>17, <1>18, <1>19, <1>20, <1>21, <1>22, <1>23, <1>24
    DEF Next, Prepare, Clean, World, Process

\* Only a new directory uses up a number, and only the holder of the lease
\* writes the journal.
LEMMA StepIdentity == IInv /\ [Next]_vars => IdentityOK'
  <1> SUFFICES ASSUME IInv, [Next]_vars PROVE IdentityOK'
    OBVIOUS
  <1> USE ProcessAssumption
        DEF TypeOK, LeaseOK, manifests, userVars, Process, PreparerPlace, CleanerPlace,
            Move, Leave, None, Some, Absent, Present, Pending, Replaced,
            SameDirectory, Directory, Contents, Identity, IInv, IdentityOK,
            PlaceOK, ContentsOK, RemainsJournaled, Remains
  <1>1. ASSUME NEW p \in Preparer, Inspect(p) PROVE IdentityOK'
    BY <1>1 DEF Inspect
  <1>2. ASSUME NEW p \in Process, Acquire(p) PROVE IdentityOK'
    BY <1>2 DEF Acquire
  <1>3. ASSUME NEW p \in Preparer, RefusePending(p) PROVE IdentityOK'
    BY <1>3 DEF RefusePending
  <1>4. ASSUME NEW p \in Preparer, NothingPending(p) PROVE IdentityOK'
    BY <1>4 DEF NothingPending, Retired, Deleted
  <1>5. ASSUME NEW p \in Preparer, NoInstall(p) PROVE IdentityOK'
    BY <1>5 DEF NoInstall
  <1>6. ASSUME NEW p \in Preparer, Install(p) PROVE IdentityOK'
    BY <1>6 DEF Install, NewIdentity
  <1>7. ASSUME NEW p \in Preparer, Installed(p) PROVE IdentityOK'
    BY <1>7 DEF Installed
  <1>8. ASSUME NEW p \in Preparer, InstallFails(p) PROVE IdentityOK'
    BY <1>8 DEF InstallFails
  <1>9. ASSUME NEW p \in Preparer, WriteReceipt(p) PROVE IdentityOK'
    BY <1>9 DEF WriteReceipt, SameInputs
  <1>10. ASSUME NEW p \in Preparer, NoReceipt(p) PROVE IdentityOK'
    BY <1>10 DEF NoReceipt, SameInputs
  <1>11. ASSUME NEW c \in Cleaner, Begin(c) PROVE IdentityOK'
    BY <1>11 DEF Begin
  <1>12. ASSUME NEW c \in Cleaner, List(c) PROVE IdentityOK'
    BY <1>12 DEF List, Managed
  <1>13. ASSUME NEW c \in Cleaner, ListAgain(c) PROVE IdentityOK'
    BY <1>13 DEF ListAgain, Managed
  <1>14. ASSUME NEW c \in Cleaner, NoRelease(c) PROVE IdentityOK'
    BY <1>14 DEF NoRelease, Retired, Deleted
  <1>15. ASSUME NEW c \in Cleaner, Mark(c) PROVE IdentityOK'
    BY <1>15 DEF Mark, Marked, Managed
  <1>16. ASSUME NEW c \in Cleaner, DeleteEntry(c) PROVE IdentityOK'
    BY <1>16 DEF DeleteEntry, Remains
  <1>17. ASSUME NEW c \in Cleaner, DeleteRest(c) PROVE IdentityOK'
    BY <1>17 DEF DeleteRest
  <1>18. ASSUME NEW c \in Cleaner, Retire(c) PROVE IdentityOK'
    BY <1>18 DEF Retire
  <1>19. ASSUME NEW p \in Process, Crash(p) PROVE IdentityOK'
    BY <1>19 DEF Crash
  <1>20. ASSUME NEW f \in Fingerprint, Edit(f) PROVE IdentityOK'
    BY <1>20 DEF Edit, Installing
  <1>21. ASSUME NEW i \in Identity, UserInstalls(i) PROVE IdentityOK'
    BY <1>21 DEF UserInstalls, NewIdentity, UserMay
  <1>22. CASE UserRemoves
    BY <1>22 DEF UserRemoves, UserMay
  <1>23. CASE Recount
    BY <1>23 DEF Recount
  <1>24. CASE UNCHANGED vars
    BY <1>24 DEF vars
  <1> QED
    BY <1>1, <1>2, <1>3, <1>4, <1>5, <1>6, <1>7, <1>8, <1>9, <1>10, <1>11, <1>12,
       <1>13, <1>14, <1>15, <1>16, <1>17, <1>18, <1>19, <1>20, <1>21, <1>22, <1>23, <1>24
    DEF Next, Prepare, Clean, World, Process

\* What the holder of the lease has found, nobody takes away before it leaves.
LEMMA StepPlace == IInv /\ [Next]_vars => PlaceOK'
  <1> SUFFICES ASSUME IInv, [Next]_vars PROVE PlaceOK'
    OBVIOUS
  <1> USE ProcessAssumption
        DEF TypeOK, LeaseOK, manifests, userVars, Process, PreparerPlace, CleanerPlace,
            Move, Leave, None, Some, Absent, Present, Pending, Replaced,
            SameDirectory, Directory, Contents, Identity, IInv, IdentityOK,
            PlaceOK, ContentsOK, RemainsJournaled, Remains
  <1>1. ASSUME NEW p \in Preparer, Inspect(p) PROVE PlaceOK'
    BY <1>1 DEF Inspect
  <1>2. ASSUME NEW p \in Process, Acquire(p) PROVE PlaceOK'
    BY <1>2 DEF Acquire
  <1>3. ASSUME NEW p \in Preparer, RefusePending(p) PROVE PlaceOK'
    BY <1>3 DEF RefusePending
  <1>4. ASSUME NEW p \in Preparer, NothingPending(p) PROVE PlaceOK'
    BY <1>4 DEF NothingPending, Retired, Deleted
  <1>5. ASSUME NEW p \in Preparer, NoInstall(p) PROVE PlaceOK'
    BY <1>5 DEF NoInstall
  <1>6. ASSUME NEW p \in Preparer, Install(p) PROVE PlaceOK'
    BY <1>6 DEF Install, NewIdentity
  <1>7. ASSUME NEW p \in Preparer, Installed(p) PROVE PlaceOK'
    BY <1>7 DEF Installed
  <1>8. ASSUME NEW p \in Preparer, InstallFails(p) PROVE PlaceOK'
    BY <1>8 DEF InstallFails
  <1>9. ASSUME NEW p \in Preparer, WriteReceipt(p) PROVE PlaceOK'
    BY <1>9 DEF WriteReceipt, SameInputs
  <1>10. ASSUME NEW p \in Preparer, NoReceipt(p) PROVE PlaceOK'
    BY <1>10 DEF NoReceipt, SameInputs
  <1>11. ASSUME NEW c \in Cleaner, Begin(c) PROVE PlaceOK'
    BY <1>11 DEF Begin
  <1>12. ASSUME NEW c \in Cleaner, List(c) PROVE PlaceOK'
    BY <1>12 DEF List, Managed
  <1>13. ASSUME NEW c \in Cleaner, ListAgain(c) PROVE PlaceOK'
    BY <1>13 DEF ListAgain, Managed
  <1>14. ASSUME NEW c \in Cleaner, NoRelease(c) PROVE PlaceOK'
    BY <1>14 DEF NoRelease, Retired, Deleted
  <1>15. ASSUME NEW c \in Cleaner, Mark(c) PROVE PlaceOK'
    BY <1>15 DEF Mark, Marked, Managed
  <1>16. ASSUME NEW c \in Cleaner, DeleteEntry(c) PROVE PlaceOK'
    BY <1>16 DEF DeleteEntry, Remains
  <1>17. ASSUME NEW c \in Cleaner, DeleteRest(c) PROVE PlaceOK'
    BY <1>17 DEF DeleteRest
  <1>18. ASSUME NEW c \in Cleaner, Retire(c) PROVE PlaceOK'
    BY <1>18 DEF Retire
  <1>19. ASSUME NEW p \in Process, Crash(p) PROVE PlaceOK'
    BY <1>19 DEF Crash
  <1>20. ASSUME NEW f \in Fingerprint, Edit(f) PROVE PlaceOK'
    BY <1>20 DEF Edit, Installing
  <1>21. ASSUME NEW i \in Identity, UserInstalls(i) PROVE PlaceOK'
    BY <1>21 DEF UserInstalls, NewIdentity, UserMay
  <1>22. CASE UserRemoves
    BY <1>22 DEF UserRemoves, UserMay
  <1>23. CASE Recount
    BY <1>23 DEF Recount
  <1>24. CASE UNCHANGED vars
    BY <1>24 DEF vars
  <1> QED
    BY <1>1, <1>2, <1>3, <1>4, <1>5, <1>6, <1>7, <1>8, <1>9, <1>10, <1>11, <1>12,
       <1>13, <1>14, <1>15, <1>16, <1>17, <1>18, <1>19, <1>20, <1>21, <1>22, <1>23, <1>24
    DEF Next, Prepare, Clean, World, Process

\* Remains are made under a journal entry, receipts in an installation.
LEMMA StepContents == IInv /\ [Next]_vars => ContentsOK'
  <1> SUFFICES ASSUME IInv, [Next]_vars PROVE ContentsOK'
    OBVIOUS
  <1> USE ProcessAssumption
        DEF TypeOK, LeaseOK, manifests, userVars, Process, PreparerPlace, CleanerPlace,
            Move, Leave, None, Some, Absent, Present, Pending, Replaced,
            SameDirectory, Directory, Contents, Identity, IInv, IdentityOK,
            PlaceOK, ContentsOK, RemainsJournaled, Remains
  <1>1. ASSUME NEW p \in Preparer, Inspect(p) PROVE ContentsOK'
    BY <1>1 DEF Inspect
  <1>2. ASSUME NEW p \in Process, Acquire(p) PROVE ContentsOK'
    BY <1>2 DEF Acquire
  <1>3. ASSUME NEW p \in Preparer, RefusePending(p) PROVE ContentsOK'
    BY <1>3 DEF RefusePending
  <1>4. ASSUME NEW p \in Preparer, NothingPending(p) PROVE ContentsOK'
    BY <1>4 DEF NothingPending, Retired, Deleted
  <1>5. ASSUME NEW p \in Preparer, NoInstall(p) PROVE ContentsOK'
    BY <1>5 DEF NoInstall
  <1>6. ASSUME NEW p \in Preparer, Install(p) PROVE ContentsOK'
    BY <1>6 DEF Install, NewIdentity
  <1>7. ASSUME NEW p \in Preparer, Installed(p) PROVE ContentsOK'
    BY <1>7 DEF Installed
  <1>8. ASSUME NEW p \in Preparer, InstallFails(p) PROVE ContentsOK'
    BY <1>8 DEF InstallFails
  <1>9. ASSUME NEW p \in Preparer, WriteReceipt(p) PROVE ContentsOK'
    BY <1>9 DEF WriteReceipt, SameInputs
  <1>10. ASSUME NEW p \in Preparer, NoReceipt(p) PROVE ContentsOK'
    BY <1>10 DEF NoReceipt, SameInputs
  <1>11. ASSUME NEW c \in Cleaner, Begin(c) PROVE ContentsOK'
    BY <1>11 DEF Begin
  <1>12. ASSUME NEW c \in Cleaner, List(c) PROVE ContentsOK'
    BY <1>12 DEF List, Managed
  <1>13. ASSUME NEW c \in Cleaner, ListAgain(c) PROVE ContentsOK'
    BY <1>13 DEF ListAgain, Managed
  <1>14. ASSUME NEW c \in Cleaner, NoRelease(c) PROVE ContentsOK'
    BY <1>14 DEF NoRelease, Retired, Deleted
  <1>15. ASSUME NEW c \in Cleaner, Mark(c) PROVE ContentsOK'
    BY <1>15 DEF Mark, Marked, Managed
  <1>16. ASSUME NEW c \in Cleaner, DeleteEntry(c) PROVE ContentsOK'
    BY <1>16 DEF DeleteEntry, Remains
  <1>17. ASSUME NEW c \in Cleaner, DeleteRest(c) PROVE ContentsOK'
    BY <1>17 DEF DeleteRest
  <1>18. ASSUME NEW c \in Cleaner, Retire(c) PROVE ContentsOK'
    BY <1>18 DEF Retire
  <1>19. ASSUME NEW p \in Process, Crash(p) PROVE ContentsOK'
    BY <1>19 DEF Crash
  <1>20. ASSUME NEW f \in Fingerprint, Edit(f) PROVE ContentsOK'
    BY <1>20 DEF Edit, Installing
  <1>21. ASSUME NEW i \in Identity, UserInstalls(i) PROVE ContentsOK'
    BY <1>21 DEF UserInstalls, NewIdentity, UserMay
  <1>22. CASE UserRemoves
    BY <1>22 DEF UserRemoves, UserMay
  <1>23. CASE Recount
    BY <1>23 DEF Recount
  <1>24. CASE UNCHANGED vars
    BY <1>24 DEF vars
  <1> QED
    BY <1>1, <1>2, <1>3, <1>4, <1>5, <1>6, <1>7, <1>8, <1>9, <1>10, <1>11, <1>12,
       <1>13, <1>14, <1>15, <1>16, <1>17, <1>18, <1>19, <1>20, <1>21, <1>22, <1>23, <1>24
    DEF Next, Prepare, Clean, World, Process

\* An edit under a preparation leaves other manifests than it wants, or puts them
\* back: a receipt is written where the installation has read what it names, or an
\* edit was undone.
LEMMA StepReceipt == IInv /\ Reinstalls /\ ReceiptOK /\ [Next]_vars => ReceiptOK'
  <1> SUFFICES ASSUME IInv /\ Reinstalls /\ ReceiptOK, [Next]_vars PROVE ReceiptOK'
    OBVIOUS
  <1> USE ProcessAssumption
        DEF TypeOK, LeaseOK, manifests, userVars, Process, PreparerPlace, CleanerPlace,
            Move, Leave, None, Some, Absent, Present, Pending, Replaced,
            SameDirectory, Directory, Contents, Identity, IInv, IdentityOK,
            PlaceOK, ContentsOK, RemainsJournaled, Remains, ReceiptOK
  <1>1. ASSUME NEW p \in Preparer, Inspect(p) PROVE ReceiptOK'
    BY <1>1 DEF Inspect
  <1>2. ASSUME NEW p \in Process, Acquire(p) PROVE ReceiptOK'
    BY <1>2 DEF Acquire
  <1>3. ASSUME NEW p \in Preparer, RefusePending(p) PROVE ReceiptOK'
    BY <1>3 DEF RefusePending
  <1>4. ASSUME NEW p \in Preparer, NothingPending(p) PROVE ReceiptOK'
    BY <1>4 DEF NothingPending, Retired, Deleted
  <1>5. ASSUME NEW p \in Preparer, NoInstall(p) PROVE ReceiptOK'
    BY <1>5 DEF NoInstall
  <1>6. ASSUME NEW p \in Preparer, Install(p) PROVE ReceiptOK'
    BY <1>6 DEF Install, NewIdentity
  <1>7. ASSUME NEW p \in Preparer, Installed(p) PROVE ReceiptOK'
    BY <1>7 DEF Installed
  <1>8. ASSUME NEW p \in Preparer, InstallFails(p) PROVE ReceiptOK'
    BY <1>8 DEF InstallFails
  <1>9. ASSUME NEW p \in Preparer, WriteReceipt(p) PROVE ReceiptOK'
    BY <1>9 DEF WriteReceipt, SameInputs
  <1>10. ASSUME NEW p \in Preparer, NoReceipt(p) PROVE ReceiptOK'
    BY <1>10 DEF NoReceipt, SameInputs
  <1>11. ASSUME NEW c \in Cleaner, Begin(c) PROVE ReceiptOK'
    BY <1>11 DEF Begin
  <1>12. ASSUME NEW c \in Cleaner, List(c) PROVE ReceiptOK'
    BY <1>12 DEF List, Managed
  <1>13. ASSUME NEW c \in Cleaner, ListAgain(c) PROVE ReceiptOK'
    BY <1>13 DEF ListAgain, Managed
  <1>14. ASSUME NEW c \in Cleaner, NoRelease(c) PROVE ReceiptOK'
    BY <1>14 DEF NoRelease, Retired, Deleted
  <1>15. ASSUME NEW c \in Cleaner, Mark(c) PROVE ReceiptOK'
    BY <1>15 DEF Mark, Marked, Managed
  <1>16. ASSUME NEW c \in Cleaner, DeleteEntry(c) PROVE ReceiptOK'
    BY <1>16 DEF DeleteEntry, Remains
  <1>17. ASSUME NEW c \in Cleaner, DeleteRest(c) PROVE ReceiptOK'
    BY <1>17 DEF DeleteRest
  <1>18. ASSUME NEW c \in Cleaner, Retire(c) PROVE ReceiptOK'
    BY <1>18 DEF Retire
  <1>19. ASSUME NEW p \in Process, Crash(p) PROVE ReceiptOK'
    BY <1>19 DEF Crash
  <1>20. ASSUME NEW f \in Fingerprint, Edit(f) PROVE ReceiptOK'
    BY <1>20 DEF Edit, Installing
  <1>21. ASSUME NEW i \in Identity, UserInstalls(i) PROVE ReceiptOK'
    BY <1>21 DEF UserInstalls, NewIdentity, UserMay
  <1>22. CASE UserRemoves
    BY <1>22 DEF UserRemoves, UserMay
  <1>23. CASE Recount
    BY <1>23 DEF Recount
  <1>24. CASE UNCHANGED vars
    BY <1>24 DEF vars
  <1> QED
    BY <1>1, <1>2, <1>3, <1>4, <1>5, <1>6, <1>7, <1>8, <1>9, <1>10, <1>11, <1>12,
       <1>13, <1>14, <1>15, <1>16, <1>17, <1>18, <1>19, <1>20, <1>21, <1>22, <1>23, <1>24
    DEF Next, Prepare, Clean, World, Process

-----------------------------------------------------------------------------
(* Theorems.                                                               *)

\* The invariant holds before anything is installed.
LEMMA InitInv == Init => IInv
  <1> SUFFICES ASSUME Init PROVE IInv
    OBVIOUS
  <1> USE ProcessAssumption
        DEF Init, Process
  <1>1. TypeOK
    BY DEF TypeOK, PreparerPlace, CleanerPlace
  <1>2. LeaseOK
    BY DEF LeaseOK
  <1>3. IdentityOK /\ PlaceOK /\ ContentsOK
    BY DEF IdentityOK, PlaceOK, ContentsOK, RemainsJournaled, Pending, Present, Remains
  <1> QED
    BY <1>1, <1>2, <1>3 DEF IInv

\* Every step preserves the invariant.
LEMMA StepInv == IInv /\ [Next]_vars => IInv'
  <1> SUFFICES ASSUME IInv, [Next]_vars PROVE IInv'
    OBVIOUS
  <1>1. TypeOK' /\ LeaseOK'
    BY StepType, StepLease DEF IInv
  <1>2. IdentityOK' /\ PlaceOK' /\ ContentsOK'
    BY StepIdentity, StepPlace, StepContents
  <1> QED
    BY <1>1, <1>2 DEF IInv

\* The invariant holds throughout.
LEMMA Invariant == Spec => []IInv
  BY InitInv, StepInv, PTL DEF Spec

\* Whatever dies at whatever step, and whatever the user does to the directory,
\* the journal names what a deletion has left, and no process is about to
\* delete what the user made (environment.go:89, clean.go).
THEOREM JournalHolds == Spec => []JournalIsTrue
  <1>1. IInv => JournalIsTrue
    BY DEF IInv, PlaceOK, ContentsOK, JournalIsTrue, ReplacementKept
  <1> QED
    BY <1>1, Invariant, PTL

\* No preparation works in a directory whose release has begun
\* (environment.go:53, worktrees.py:212).
THEOREM ReleaseGoesFirst == Spec => []ReleaseBeforePreparation
  <1>1. IInv => ReleaseBeforePreparation
    BY DEF IInv, PlaceOK, ReleaseBeforePreparation
  <1> QED
    BY <1>1, Invariant, PTL

\* With an installer that starts from an empty directory (npm ci), what a
\* preparation takes for ready is a whole installation, whatever a deletion that
\* was interrupted has left, and one of the manifests as they are, unless an edit
\* was undone before it was over.  With an installer that works in place even the
\* first is false (EnvironmentRelease_inplace).
THEOREM ReadyIsWhole == Reinstalls => (Spec => []ReadyIsInstalled)
  <1> SUFFICES ASSUME Reinstalls PROVE Spec => []ReadyIsInstalled
    OBVIOUS
  <1>1. Init => ReceiptOK
    BY DEF Init, ReceiptOK, Present, Process
  <1>2. IInv /\ ReceiptOK /\ [Next]_vars => ReceiptOK'
    BY StepReceipt
  <1>3. IInv /\ ReceiptOK => ReadyIsInstalled
    <2> SUFFICES ASSUME IInv, ReceiptOK, Ready,
                        ~Pending \/ \E p \in Preparer : pc[p] = "check"
                 PROVE  dir.contents.kind = "installed" /\ (undone \/ dir.contents.of = inputs)
      BY DEF ReadyIsInstalled
    <2>1. Present /\ dir.receipt # None /\ dir.receipt.id = inputs
      BY DEF Ready, Some, None
    <2>2. CASE \E p \in Preparer : pc[p] = "check"
      <3>1. journal = None
        BY <2>2 DEF IInv, PlaceOK
      <3> QED BY <2>1, <3>1 DEF IInv, ContentsOK, RemainsJournaled, ReceiptOK, Some, None
    <2>3. CASE ~Pending
      BY <2>1, <2>3 DEF IInv, ContentsOK, RemainsJournaled, ReceiptOK, Pending, SameDirectory,
                        Some, None
    <2> QED BY <2>2, <2>3
  <1> QED
    BY <1>1, <1>2, <1>3, Invariant, PTL DEF Spec
=============================================================================
