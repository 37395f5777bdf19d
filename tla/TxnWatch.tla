------------------------------ MODULE TxnWatch ------------------------------
(***************************************************************************)
(* What the worker promises about an extrinsic it watches, without blocks, *)
(* scans, Redis or restarts: it is watched once, its provider is told of   *)
(* it only if its dispatch succeeded, and it is not forgotten before the   *)
(* provider was told, unless there is nothing to tell or no use in trying. *)
(***************************************************************************)
EXTENDS Naturals

CONSTANTS
    Txns,       \* the extrinsics
    Overlap     \* TRUE: the watchers do not see each other's progress

VARIABLES
    succeeds,   \* the extrinsics whose dispatch succeeds
    status,     \* status[t]: how far t's watch has come
    told,       \* told[t]: how often the provider was told, 2 if more
    excused     \* extrinsics that may be forgotten untold

vars == <<succeeds, status, told, excused>>

Init ==
    /\ succeeds \in SUBSET Txns
    /\ status = [t \in Txns |-> "new"]
    /\ told = [t \in Txns |-> 0]
    /\ excused = {}

Watch(t) ==
    /\ status[t] = "new"
    /\ status' = [status EXCEPT ![t] = "watched"]
    /\ UNCHANGED told

\* More than once, if the first time leaves no trace.
Tell(t) ==
    /\ t \in succeeds
    /\ status[t] = "watched" \/ (Overlap /\ status[t] = "forgotten")
    /\ told' = [told EXCEPT ![t] = IF @ = 2 THEN 2 ELSE @ + 1]
    /\ UNCHANGED status

\* The extrinsics that one block settles are forgotten together.
Forget(settled) ==
    /\ \A t \in settled :
          /\ status[t] = "watched"
          /\ t \in succeeds => told[t] > 0 \/ t \in excused
    /\ status' = [t \in Txns |-> IF t \in settled THEN "forgotten" ELSE status[t]]
    /\ UNCHANGED told

\* The retries of t run out, or t expires.
Excuse == UNCHANGED <<status, told>>

Next ==
    /\ \/ \E t \in Txns : Watch(t) \/ Tell(t)
       \/ \E settled \in SUBSET Txns : Forget(settled)
       \/ Excuse
    /\ excused' \in SUBSET Txns
    /\ UNCHANGED succeeds

Spec == Init /\ [][Next]_vars

=============================================================================
