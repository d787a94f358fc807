------------------------------ MODULE RunLedger ------------------------------
(***************************************************************************)
(* What the validation history promises to the sessions that share it,     *)
(* whatever files, locks and log segments it is kept in: the life of a Run *)
(* (history/record.go: started, finished, and gone when its start has left *)
(* the retention window) and the order in which Runs were completed.       *)
(*                                                                         *)
(*   new --Start--> started --Finish--> finished                           *)
(*                     \                    |                              *)
(*                      +-----Expire--------+---> expired, for good        *)
(*                                                                         *)
(* HistoryStore.tla implements it.                                         *)
(***************************************************************************)
EXTENDS Naturals

CONSTANTS Run,      \* the executions, each with an identifier of its own
          Outcome,  \* what a completion records: a status and a consistency flag
          NoOutcome \* the outcome of a Run that has no retained completion

VARIABLES phase,    \* where each Run is in its life
          outcome,  \* the outcome a reader of the history sees for each Run
          rank      \* completion order: a later completion has a higher rank

ledgerVars == <<phase, outcome, rank>>

LedgerInit ==
    /\ phase = [r \in Run |-> "new"]
    /\ outcome = [r \in Run |-> NoOutcome]
    /\ rank = [r \in Run |-> 0]

\* A started event enters the history.
Start(r) ==
    /\ phase[r] = "new"
    /\ phase' = [phase EXCEPT ![r] = "started"]
    /\ UNCHANGED <<outcome, rank>>

\* A finished event enters it: only a Run that is started, and behind every
\* completion already there.
Finish(r) ==
    /\ phase[r] = "started"
    /\ phase' = [phase EXCEPT ![r] = "finished"]
    /\ outcome'[r] \in Outcome
    /\ outcome' = [outcome EXCEPT ![r] = outcome'[r]]
    /\ \A q \in Run : rank[q] < rank'[r]
    /\ rank' = [rank EXCEPT ![r] = rank'[r]]

\* Retention forgets a set of Runs.
Expire(gone) ==
    /\ gone # {}
    /\ \A r \in gone : phase[r] \in {"started", "finished"}
    /\ phase' = [r \in Run |-> IF r \in gone THEN "expired" ELSE phase[r]]
    /\ outcome' = [r \in Run |-> IF r \in gone THEN NoOutcome ELSE outcome[r]]
    /\ rank' = [r \in Run |-> IF r \in gone THEN 0 ELSE rank[r]]

Forgotten == {r \in Run : phase[r] # "expired" /\ phase'[r] = "expired"}

LedgerNext ==
    \/ \E r \in Run : Start(r) \/ Finish(r)
    \/ Expire(Forgotten)

LedgerSpec == LedgerInit /\ [][LedgerNext]_ledgerVars
=============================================================================
