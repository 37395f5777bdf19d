---------------------------- MODULE CapacityLimit ----------------------------
(***************************************************************************)
(* What CAPACITY_LIMIT is worth.  The gate compares the limit with         *)
(* epochCapacity, which the notifier writes when it finds an extrinsic in  *)
(* a block, so that what was submitted since is not in it; and an epoch    *)
(* may turn between a check and the inclusion.                             *)
(*                                                                         *)
(* CapacityGate, with two history variables that follow from its steps.    *)
(***************************************************************************)
EXTENDS CapacityGate

VARIABLES
    passedFor,  \* passedFor[j]: the epoch a check let j pass for, or 0
    unseen      \* unseen[e]: the extrinsics that epochCapacity:e did not have
                \* when a check last let a job pass for e

limitVars == <<vars, passedFor, unseen>>

LimitTypes ==
    /\ passedFor \in [Jobs -> 0..MaxEpoch]
    /\ unseen \in [Epochs -> SUBSET Jobs]

LimitInit ==
    /\ Init
    /\ passedFor = [j \in Jobs |-> 0]
    /\ unseen = [e \in Epochs |-> {}]

IncludedIn(e) == {j \in Jobs : inEpoch[j] = e}

\* Extrinsics that may still be included, and those of epoch e that the
\* notifier has not come to, or could not count.
NotCounted(e) ==
    {j \in Jobs : job[j] = "pooled"}
        \cup {j \in IncludedIn(e) : job[j] \in {"included", "missed"}}

\* The check that a job makes lets it pass, for the epoch that it read.
Passes == pc["job"] = "used" /\ pc'["job"] = "failed"

Remember ==
    /\ passedFor' = [j \in Jobs |->
                       CASE job[j] = "wait" /\ job'[j] = "active" -> 0
                         [] Passes /\ job[j] = "active" -> ep["job"]
                         [] OTHER -> passedFor[j]]
    /\ unseen' = IF Passes
                 THEN [unseen EXCEPT ![ep["job"]] = NotCounted(ep["job"])]
                 ELSE unseen

LimitNext == Next /\ Remember

LimitSpec == LimitInit /\ [][LimitNext]_limitVars

LimitFairSpec == LimitSpec /\ Fairness

\* Extrinsics included in e that no check let pass for e: the epoch turned after
\* the check, or the check was cut off by an error.
Strays(e) == {j \in IncludedIn(e) : passedFor[j] # e}

\* An epoch's limit is overspent by less than the cost of: the last extrinsic
\* that a check let pass (it asks whether the limit is reached, not whether the
\* extrinsic still fits: lines 206-220 of the publisher), those that the counter
\* did not have then (line 203), and the strays.
LimitKept ==
    \A e \in Epochs :
        Cost * Cardinality(IncludedIn(e))
            < Limit + Cost * (1 + Cardinality(unseen[e] \cup Strays(e)))

=============================================================================
