---------------------------- MODULE CapacityGate ----------------------------
(***************************************************************************)
(* The gate in front of the publish queue: checkCapacity of                *)
(* TransactionPublisherService.  It pauses the queue when the provider is  *)
(* out of capacity and sets a timer to look again; when there is capacity  *)
(* it retries the jobs that failed for lack of it and resumes the queue.   *)
(*                                                                         *)
(* It is called at bootstrap, by every job and by the timer, and the calls *)
(* interleave at each await.  One job at a time is processed (the worker's *)
(* default concurrency).                                                   *)
(***************************************************************************)
EXTENDS Integers, FiniteSets

CONSTANTS
    Jobs,       \* the jobs of the publish queue
    Capacity,   \* what the provider may spend in an epoch
    AtStart,    \* what may be left of it when the worker starts
    LimitType,  \* CAPACITY_LIMIT: "percentage" or "amount" ...
    LimitValue, \* ... and its value
    Cost,       \* what one extrinsic withdraws
    MaxEpoch,   \* bound: the last epoch
    MaxMishaps  \* bound: failed calls of node or Redis, crashes and shutdowns

ASSUME JobsAssumption == IsFiniteSet(Jobs)
\* What the configuration's schema lets pass.
ValidLimit ==
    \/ LimitType = "percentage" /\ LimitValue \in 0..100
    \/ LimitType = "amount" /\ LimitValue \in Nat

ASSUME LimitAssumption == ValidLimit
ASSUME AmountsAssumption ==
    Capacity \in Nat /\ AtStart \subseteq 0..Capacity /\ Cost \in Nat \ {0}
ASSUME BoundsAssumption == MaxEpoch \in Nat \ {0} /\ MaxMishaps \in Nat

Callers == {"boot", "job", "timer"}

VARIABLES
    \* the chain
    epoch,      \* the current capacity epoch
    remaining,  \* the provider's remainingCapacity
    inEpoch,    \* inEpoch[j]: the epoch j's extrinsic was included in, or 0
    \* Redis
    job,        \* job[j]: where j is
    paused,     \* the publish queue is paused
    counted,    \* counted[e]: the value of epochCapacity:e
    \* the worker process
    up,         \* it runs
    closing,    \* the worker is closed, and takes no further job
    armed,      \* the timeout `capacity_check' is pending
    pc,         \* pc[c]: the await of checkCapacity that caller c is at
    rem,        \* rem[c]: remainingCapacity as read
    ep,         \* ep[c]: currentEpoch as read
    out,        \* out[c]: outOfCapacity
    failed,     \* failed[c]: capacityFailedJobs
    \* history: a call failed, and none ended well since
    gaveUp,
    \* how much of the bound is used up
    mishaps

chainVars == <<epoch, remaining, inEpoch>>
callVars  == <<pc, rem, ep, out, failed>>
processVars == <<up, closing>>
boundVars == <<mishaps, gaveUp>>
vars == <<chainVars, job, paused, counted, processVars, armed, callVars,
          boundVars>>

PCs == {"idle", "ledger", "epoch", "used", "pause", "arm", "failed", "retry",
        "resume", "decided"}
Awaits == {"ledger", "epoch", "used", "pause", "failed", "resume"}
JobStates == {"wait", "active", "failed", "pooled", "included", "counted",
              "missed"}
Epochs == 1..MaxEpoch

TypeOK ==
    /\ epoch \in Epochs
    /\ remaining \in 0..Capacity
    /\ inEpoch \in [Jobs -> 0..MaxEpoch]
    /\ job \in [Jobs -> JobStates]
    /\ paused \in BOOLEAN
    /\ counted \in [Epochs -> Nat]
    /\ up \in BOOLEAN
    /\ closing \in BOOLEAN
    /\ armed \in BOOLEAN
    /\ pc \in [Callers -> PCs]
    /\ rem \in [Callers -> 0..Capacity]
    /\ ep \in [Callers -> Epochs]
    /\ out \in [Callers -> BOOLEAN]
    /\ failed \in [Callers -> SUBSET Jobs]
    /\ mishaps \in 0..MaxMishaps
    /\ gaveUp \in BOOLEAN

\* The worker starts with what earlier runs left in Redis.
Init ==
    /\ epoch = 1
    /\ remaining \in AtStart
    /\ inEpoch = [j \in Jobs |-> 0]
    /\ job \in [Jobs -> {"wait", "failed"}]
    /\ paused \in BOOLEAN
    /\ counted = [e \in Epochs |-> 0]
    /\ up = TRUE
    /\ closing = FALSE
    /\ armed = FALSE
    /\ pc = [c \in Callers |-> IF c = "boot" THEN "ledger" ELSE "idle"]
    /\ rem = [c \in Callers |-> 0]
    /\ ep = [c \in Callers |-> 1]
    /\ out = [c \in Callers |-> FALSE]
    /\ failed = [c \in Callers |-> {}]
    /\ mishaps = 0
    /\ gaveUp = FALSE

-----------------------------------------------------------------------------
(* The chain, and the notifier that counts what was spent                  *)

Include(j) ==
    /\ job[j] = "pooled"
    /\ remaining >= Cost
    /\ remaining' = remaining - Cost
    /\ inEpoch' = [inEpoch EXCEPT ![j] = epoch]
    /\ job' = [job EXCEPT ![j] = "included"]
    /\ UNCHANGED <<epoch, paused, counted, processVars, armed, callVars,
                   boundVars>>

AddToCounter(j) == counted' = [counted EXCEPT ![inEpoch[j]] = @ + Cost]

\* setEpochCapacity of the notifier, some blocks later.
Count(j) ==
    /\ up
    /\ job[j] = "included"
    /\ AddToCounter(j)
    /\ job' = [job EXCEPT ![j] = "counted"]
    /\ UNCHANGED <<chainVars, paused, processVars, armed, callVars, boundVars>>

\* One of its calls fails: the error is logged, and the amount is not added.
MissCount(j) ==
    /\ up
    /\ job[j] = "included"
    /\ mishaps < MaxMishaps
    /\ mishaps' = mishaps + 1
    /\ job' = [job EXCEPT ![j] = "missed"]
    /\ UNCHANGED <<chainVars, paused, counted, processVars, armed, callVars,
                   gaveUp>>

\* Capacity is replenished.
NewEpoch ==
    /\ epoch < MaxEpoch
    /\ epoch' = epoch + 1
    /\ remaining' = Capacity
    /\ UNCHANGED <<inEpoch, job, paused, counted, processVars, armed, callVars,
                   boundVars>>

-----------------------------------------------------------------------------
(* Callers of checkCapacity                                                *)

Running == {j \in Jobs : job[j] = "active"}

\* The worker takes the next job of a queue that is not paused.
TakeJob(j) ==
    /\ up /\ ~closing /\ ~paused
    /\ Running = {}
    /\ job[j] = "wait"
    /\ job' = [job EXCEPT ![j] = "active"]
    /\ pc' = [pc EXCEPT !["job"] = "ledger"]
    /\ UNCHANGED <<chainVars, paused, counted, processVars, armed, rem, ep,
                   out, failed, boundVars>>

\* The timer was set for the estimated start of the next epoch.
TimerFires ==
    /\ up /\ armed
    /\ pc["timer"] = "idle"
    /\ armed' = FALSE
    /\ pc' = [pc EXCEPT !["timer"] = "ledger"]
    /\ UNCHANGED <<chainVars, job, paused, counted, processVars, rem, ep, out,
                   failed, boundVars>>

\* checkCapacity returns !outOfCapacity; only process() looks at it.
Return(c) ==
    /\ pc' = [pc EXCEPT ![c] = IF c = "job" THEN "decided" ELSE "idle"]
    /\ failed' = [failed EXCEPT ![c] = {}]

\* Out of capacity: moveToDelayed(Date.now()) puts the job back, due at once.
PutBack(j) ==
    /\ pc["job"] = "decided" /\ out["job"]
    /\ job[j] = "active"
    /\ job' = [job EXCEPT ![j] = "wait"]
    /\ pc' = [pc EXCEPT !["job"] = "idle"]
    /\ out' = [out EXCEPT !["job"] = FALSE]
    /\ UNCHANGED <<chainVars, paused, counted, processVars, armed, rem, ep,
                   failed, boundVars>>

\* signAndSend.  The node rejects the extrinsic ("1010: Invalid Transaction:
\* Inability to pay some fees") when what remains does not cover it.
SubmitJob(j) ==
    /\ pc["job"] = "decided" /\ ~out["job"]
    /\ job[j] = "active"
    /\ job' = [job EXCEPT ![j] = IF remaining >= Cost THEN "pooled" ELSE "failed"]
    /\ pc' = [pc EXCEPT !["job"] = "idle"]
    /\ UNCHANGED <<chainVars, paused, counted, processVars, armed, rem, ep,
                   out, failed, boundVars>>

-----------------------------------------------------------------------------
(* checkCapacity                                                           *)

\* capacityInfo: the provider's ledger ...
ReadLedger(c) ==
    /\ pc[c] = "ledger"
    /\ rem' = [rem EXCEPT ![c] = remaining]
    /\ out' = [out EXCEPT ![c] = FALSE]
    /\ pc' = [pc EXCEPT ![c] = "epoch"]
    /\ UNCHANGED <<chainVars, job, paused, counted, processVars, armed, ep,
                   failed, boundVars>>

\* Mutant: the epoch that the query answers with is taken for the last one.
ReadEpochOffByOne(c) ==
    /\ pc[c] = "epoch"
    /\ ep' = [ep EXCEPT ![c] = epoch + 1]
    /\ pc' = [pc EXCEPT ![c] = "used"]
    /\ UNCHANGED <<chainVars, job, paused, counted, processVars, armed, rem,
                   out, failed, boundVars>>

\* ... and the current epoch.
ReadEpoch(c) ==
    /\ pc[c] = "epoch"
    /\ ep' = [ep EXCEPT ![c] = epoch]
    /\ pc' = [pc EXCEPT ![c] = "used"]
    /\ UNCHANGED <<chainVars, job, paused, counted, processVars, armed, rem,
                   out, failed, boundVars>>

\* The limit of an epoch.
Limit ==
    IF LimitType = "percentage" THEN (Capacity * LimitValue) \div 100
                                ELSE LimitValue

\* Mutant: the limit itself may be used up.
DecideAtLimit(c) ==
    /\ pc[c] = "used"
    /\ out' = [out EXCEPT ![c] = rem[c] <= 0 \/ counted[ep[c]] > Limit]
    /\ pc' = [pc EXCEPT ![c] = IF out'[c] THEN "pause" ELSE "failed"]
    /\ UNCHANGED <<chainVars, job, paused, counted, processVars, armed, rem,
                   ep, failed, boundVars>>

\* epochCapacity of that epoch is read, and the call decides.
Decide(c) ==
    /\ pc[c] = "used"
    /\ out' = [out EXCEPT ![c] = rem[c] <= 0 \/ counted[ep[c]] >= Limit]
    /\ pc' = [pc EXCEPT ![c] = IF out'[c] THEN "pause" ELSE "failed"]
    /\ UNCHANGED <<chainVars, job, paused, counted, processVars, armed, rem,
                   ep, failed, boundVars>>

Pause(c) ==
    /\ pc[c] = "pause"
    /\ paused' = TRUE
    /\ pc' = [pc EXCEPT ![c] = "arm"]
    /\ UNCHANGED <<chainVars, job, counted, processVars, armed, rem, ep, out,
                   failed, boundVars>>

\* Mutant: a timeout that exists already is taken for the one wanted.
ArmUnlessCalledByTimer(c) ==
    /\ pc[c] = "arm"
    /\ armed' = (armed \/ c # "timer")
    /\ Return(c)
    /\ gaveUp' = FALSE
    /\ UNCHANGED <<chainVars, job, paused, counted, processVars, rem, ep, out,
                   mishaps>>

\* The timeout replaces one of the same name.
Arm(c) ==
    /\ pc[c] = "arm"
    /\ armed' = TRUE
    /\ Return(c)
    /\ gaveUp' = FALSE
    /\ UNCHANGED <<chainVars, job, paused, counted, processVars, rem, ep, out,
                   mishaps>>

\* getFailed, kept to those that could not pay.
GetFailed(c) ==
    /\ pc[c] = "failed"
    /\ failed' = [failed EXCEPT ![c] = {j \in Jobs : job[j] = "failed"}]
    /\ pc' = [pc EXCEPT ![c] = "retry"]
    /\ UNCHANGED <<chainVars, job, paused, counted, processVars, armed, rem,
                   ep, out, boundVars>>

\* The process exits; Redis keeps the jobs and whether the queue is paused.
\* A job under way is found stalled and waits again.
ExitProcess ==
    /\ up' = FALSE
    /\ closing' = FALSE
    /\ armed' = FALSE
    /\ pc' = [c \in Callers |-> "idle"]
    /\ out' = [c \in Callers |-> FALSE]
    /\ failed' = [c \in Callers |-> {}]
    /\ job' = [j \in Jobs |-> IF job[j] = "active" THEN "wait" ELSE job[j]]
    /\ UNCHANGED <<chainVars, paused, rem, ep>>

\* job.retry() is called on each and not awaited; the commands reach Redis
\* before the ones that follow.  A job that is no longer failed rejects its
\* retry, and nobody handles the rejection: the process exits.
Retry(c) ==
    /\ pc[c] = "retry"
    /\ \/ /\ \A j \in failed[c] : job[j] = "failed"
          /\ job' = [j \in Jobs |-> IF j \in failed[c] THEN "wait" ELSE job[j]]
          /\ armed' = FALSE                             \* deleteTimeout
          /\ pc' = [pc EXCEPT ![c] = "resume"]
          /\ UNCHANGED <<chainVars, paused, counted, processVars, rem, ep, out,
                         failed>>
       \/ /\ \E j \in failed[c] : job[j] # "failed"
          /\ ExitProcess
          /\ UNCHANGED counted
    /\ UNCHANGED boundVars

\* Mutant: the queue is resumed only by the timer that it waits for.
ResumeByTimer(c) ==
    /\ pc[c] = "resume"
    /\ paused' = (paused /\ c # "timer")
    /\ Return(c)
    /\ gaveUp' = FALSE
    /\ UNCHANGED <<chainVars, job, counted, processVars, armed, rem, ep, out,
                   mishaps>>

Resume(c) ==
    /\ pc[c] = "resume"
    /\ paused' = FALSE
    /\ Return(c)
    /\ gaveUp' = FALSE
    /\ UNCHANGED <<chainVars, job, counted, processVars, armed, rem, ep, out,
                   mishaps>>

\* Any await may reject: the error is logged, and the call returns what
\* outOfCapacity says so far.
CallFails(c) ==
    /\ pc[c] \in Awaits
    /\ mishaps < MaxMishaps
    /\ mishaps' = mishaps + 1
    /\ gaveUp' = TRUE
    /\ Return(c)
    /\ UNCHANGED <<chainVars, job, paused, counted, processVars, armed, rem,
                   ep, out>>

-----------------------------------------------------------------------------
Crash ==
    /\ up
    /\ mishaps < MaxMishaps
    /\ mishaps' = mishaps + 1
    /\ ExitProcess
    /\ UNCHANGED <<counted, gaveUp>>

\* The process stops between the update of the counter and the commit of the
\* block: the block is processed again, and its extrinsic counted again.
CrashUncommitted(j) ==
    /\ up
    /\ job[j] = "included"
    /\ mishaps < MaxMishaps
    /\ mishaps' = mishaps + 1
    /\ AddToCounter(j)
    /\ ExitProcess
    /\ UNCHANGED gaveUp

\* The application is closed: onModuleDestroy closes the worker ...
Shutdown ==
    /\ up /\ ~closing
    /\ mishaps < MaxMishaps
    /\ mishaps' = mishaps + 1
    /\ closing' = TRUE
    /\ UNCHANGED <<chainVars, job, paused, counted, up, armed, callVars,
                   gaveUp>>

\* ... which waits for the job under way, and onApplicationShutdown deletes the
\* timeout; nothing keeps the process any more.
Closed ==
    /\ up /\ closing
    /\ Running = {}
    /\ ExitProcess
    /\ UNCHANGED <<counted, boundVars>>

\* onApplicationBootstrap calls checkCapacity.
Restart ==
    /\ ~up
    /\ up' = TRUE
    /\ pc' = [pc EXCEPT !["boot"] = "ledger"]
    /\ UNCHANGED <<chainVars, job, paused, counted, closing, armed, rem, ep,
                   out, failed, boundVars>>

-----------------------------------------------------------------------------
CallStep(c) ==
    \/ ReadLedger(c) \/ ReadEpoch(c) \/ Decide(c) \/ Pause(c) \/ Arm(c)
    \/ GetFailed(c) \/ Retry(c) \/ Resume(c)

JobStep(j) == TakeJob(j) \/ PutBack(j) \/ SubmitJob(j)

\* An extrinsic on the chain, and the notifier's counter.
ChainStep(j) == Include(j) \/ Count(j) \/ MissCount(j)

ProcessStep == Crash \/ Shutdown \/ Closed \/ Restart

Next ==
    \/ NewEpoch \/ TimerFires \/ ProcessStep
    \/ \E j \in Jobs : ChainStep(j) \/ JobStep(j) \/ CrashUncommitted(j)
    \/ \E c \in Callers : CallStep(c) \/ CallFails(c)

Spec == Init /\ [][Next]_vars

\* Awaits resolve, the timer fires, the worker takes jobs and is restarted.
Fairness ==
    /\ WF_vars(NewEpoch) /\ WF_vars(TimerFires)
    /\ WF_vars(Closed) /\ WF_vars(Restart)
    /\ \A j \in Jobs : WF_vars(Count(j)) /\ WF_vars(JobStep(j))
    /\ \A c \in Callers : WF_vars(CallStep(c))

-----------------------------------------------------------------------------
(* Properties                                                              *)

Calling == PCs \ {"idle", "decided"}

\* A paused queue has somebody who will look again: the timeout, or a call of
\* checkCapacity under way, however calls overlap (lines 222-265 of the
\* publisher) and wherever the process was stopped.  Only a call that failed
\* can leave it with nobody, until the next call ends well.
PausedHasWaker ==
    paused /\ up => \/ armed \/ gaveUp
                    \/ \E c \in Callers : pc[c] \in Calling

HasCapacity == remaining > 0 /\ counted[epoch] < Limit

\* With capacity to spend from some moment on the queue does not stay paused,
\* unless it was left to a call that failed.
PauseEnds == <>[](HasCapacity /\ ~gaveUp) => []<>(~paused)

=============================================================================
