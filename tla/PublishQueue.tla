---------------------------- MODULE PublishQueue ----------------------------
(***************************************************************************)
(* A request's way from the API into the publish queue, through the worker *)
(* and onto the chain: EnqueueService adds a job named by a hash of the    *)
(* request, the worker's TransactionPublisherService processes one job at  *)
(* a time, and BaseConsumer keeps the set of jobs that a shutdown waits    *)
(* for.  The queue is BullMQ's, in Redis.                                  *)
(*                                                                         *)
(* checkCapacity is one step here: it is out of capacity, or it is not, or *)
(* an error cuts it short, which it logs.  CapacityGate has its awaits,    *)
(* TxnNotifier what follows the hset.                                      *)
(***************************************************************************)
EXTENDS Integers, Sequences, FiniteSets

CONSTANTS
    Requests,   \* requests with different contents
    SignUps,    \* those that become a batch: the others, of one call each,
                \* create or change a handle or add a key
    NoJob,      \* stands for no job
    KeepDone,   \* removeOnComplete: how many completed jobs stay in Redis
    MaxPolls,   \* MAX_WAIT_... / DELAY_TO_CHECK_FOR_SHUTDOWN_MS
    MaxOuts,    \* bound: checks that find no capacity or end in an error
    MaxCrashes  \* bound: crashes

ASSUME RequestsAssumption ==
    IsFiniteSet(Requests) /\ SignUps \subseteq Requests /\ NoJob \notin Requests
ASSUME SettingsAssumption == KeepDone \in Nat /\ MaxPolls \in Nat \ {0}
ASSUME BoundsAssumption == MaxOuts \in Nat /\ MaxCrashes \in Nat

VARIABLES
    \* Redis: survives the processes.
    job,        \* job[r]: the state of r's job, "none" if there is none
    done,       \* the completed jobs that are kept, the oldest first
    stalls,     \* jobs that were found stalled once
    paused,     \* the queue is paused
    \* the worker process
    phase,      \* "up", "closing" and "drain" (onModuleDestroy), "down"
    cur,        \* the job it processes
    stage,      \* the await of process() it is at
    moving,     \* jobs whose moveToDelayed is on its way
    actives,    \* BaseConsumer.actives
    polls,      \* delays of the shutdown loop so far
    pending,    \* checks of the capacity to come, besides those of the jobs
    \* history, read by properties only
    answered,   \* requests a client got a referenceId for
    sent,       \* sent[r]: extrinsics submitted for r, 2 if more
    again,      \* r was processed again after its extrinsic was submitted
    putBack,    \* jobs put back to wait since the process took them
    leftPaused, \* the queue is paused since a check that an error cut short
    outs,       \* how many of the MaxOuts checks there were
    crashes

redisVars  == <<job, done, stalls, paused>>
workerVars == <<phase, cur, stage, moving, actives, polls, pending>>
histVars   == <<answered, sent, again, putBack, leftPaused, outs,
                crashes>>
vars == <<redisVars, workerVars, histVars>>

\* "failed": for good; "unpaid": "Inability to pay some fees".
JobStates == {"none", "wait", "active", "completed", "failed", "unpaid"}
Lookers == {"boot", "timer"}
Stages == {"none", "check", "submit", "record", "finish"}

TypeOK ==
    /\ job \in [Requests -> JobStates]
    /\ done \in Seq(Requests)
    /\ stalls \subseteq Requests
    /\ paused \in BOOLEAN
    /\ phase \in {"up", "closing", "drain", "down"}
    /\ cur \in Requests \cup {NoJob}
    /\ stage \in Stages /\ (stage = "none" <=> cur = NoJob)
    /\ moving \subseteq Requests
    /\ actives \subseteq Requests
    /\ polls \in 0..MaxPolls
    /\ pending \subseteq Lookers
    /\ answered \subseteq Requests
    /\ sent \in [Requests -> 0..2]
    /\ again \subseteq Requests
    /\ putBack \subseteq Requests
    /\ leftPaused \in BOOLEAN
    /\ outs \in 0..MaxOuts /\ crashes \in 0..MaxCrashes

Init ==
    /\ job = [r \in Requests |-> "none"]
    /\ done = <<>> /\ stalls = {} /\ paused = FALSE
    /\ phase = "up" /\ cur = NoJob /\ stage = "none"
    /\ moving = {} /\ actives = {} /\ polls = 0 /\ pending = {"boot"}
    /\ answered = {} /\ again = {} /\ putBack = {}
    /\ sent = [r \in Requests |-> 0]
    /\ leftPaused = FALSE /\ outs = 0 /\ crashes = 0

-----------------------------------------------------------------------------
(* The API                                                                 *)

\* enqueueRequest: add() does nothing if there is a job with that id, in
\* whatever state.
Enqueue(r) ==
    /\ job' = [job EXCEPT ![r] = IF @ = "none" THEN "wait" ELSE @]
    /\ again' = IF job[r] = "none" /\ sent[r] > 0 THEN again \cup {r} ELSE again
    /\ UNCHANGED <<done, stalls, paused, workerVars, sent, putBack,
                   leftPaused, outs, crashes>>

\* The client gets the referenceId, which is the same each time.
Answered(r) == answered' = answered \cup {r}

\* createHandle, changeHandle, and likewise addKey.
PostCall(r) == r \notin SignUps /\ Enqueue(r) /\ Answered(r)

\* signInWithFrequency, for a sign-up whose payload is valid.
PostSignUp(r) == r \in SignUps /\ Enqueue(r) /\ Answered(r)

\* The job is added, and add() rejects or the answer does not get through:
\* the client sees an error.
PostUnanswered(r) == Enqueue(r) /\ UNCHANGED answered

Post(r) == PostCall(r) \/ PostSignUp(r) \/ PostUnanswered(r)

-----------------------------------------------------------------------------
(* The worker: events, and the outcome of a job                            *)

\* The worker takes a job of a queue that is not paused: the 'active' event.
Take(r) ==
    /\ phase = "up" /\ cur = NoJob /\ ~paused
    /\ job[r] = "wait"
    /\ job' = [job EXCEPT ![r] = "active"]
    /\ cur' = r /\ stage' = "check"
    /\ actives' = actives \cup {r}
    /\ putBack' = putBack \ {r}
    /\ UNCHANGED <<done, stalls, paused, phase, moving, polls, pending,
                   answered, sent, again, leftPaused, outs, crashes>>

EndJob == cur' = NoJob /\ stage' = "none"

\* Mutant: a failed job is not taken out of the set.
FailJobTracked(state) ==
    /\ job' = [job EXCEPT ![cur] = state]
    /\ UNCHANGED actives
    /\ EndJob

\* Mutant: failed jobs are removed (removeOnFail: true).
FailJobRemoved(state) ==
    /\ job' = [job EXCEPT ![cur] = IF state = "failed" THEN "none" ELSE state]
    /\ actives' = actives \ {cur}
    /\ EndJob

\* The 'failed' event.  There is one attempt, and failed jobs are kept.
FailJob(state) ==
    /\ job' = [job EXCEPT ![cur] = state]
    /\ actives' = actives \ {cur}
    /\ EndJob

\* removeOnComplete: more completed jobs than are to stay.
TooMany(kept) == Len(kept) > KeepDone

\* The 'completed' event.  The oldest of too many completed jobs is removed.
Complete ==
    /\ stage = "finish"
    /\ LET kept == Append(done, cur)
           full == TooMany(kept)
       IN  /\ done' = IF full THEN Tail(kept) ELSE kept
           /\ job' = [r \in Requests |->
                         IF full /\ r = Head(kept) THEN "none"
                         ELSE IF r = cur THEN "completed" ELSE job[r]]
    /\ actives' = actives \ {cur}
    /\ EndJob
    /\ UNCHANGED <<stalls, paused, phase, moving, polls, pending, histVars>>

-----------------------------------------------------------------------------
(* TransactionPublisherService.process                                     *)

\* A check by `looker' finds the provider out of capacity: the queue is paused
\* and the timeout set.
PauseQueue(looker) ==
    /\ outs < MaxOuts
    /\ outs' = outs + 1
    /\ paused' = TRUE
    /\ pending' = (pending \ {looker}) \cup {"timer"}
    /\ leftPaused' = FALSE

\* pause() rejects, in vain or after the queue was paused: no timeout is set,
\* and the answer is still that there is no capacity.
PauseRejects(looker) ==
    /\ outs < MaxOuts
    /\ outs' = outs + 1
    /\ paused' \in {paused, TRUE}
    /\ pending' = pending \ {looker}
    /\ leftPaused' = paused'

NoCapacity(looker) == PauseQueue(looker) \/ PauseRejects(looker)

\* The job is put back.  moveToDelayed is not awaited, and a DelayedError is
\* neither a completion nor a failure to the worker.
CheckOut ==
    /\ stage = "check"
    /\ NoCapacity("job")
    /\ moving' = moving \cup {cur}
    /\ EndJob
    /\ UNCHANGED <<job, done, stalls, phase, actives, polls, answered, sent,
                   again, putBack, crashes>>

\* Mutant: every failed job is retried.
RetriedAll(r) == job[r] \in {"failed", "unpaid"}

\* A check with capacity left retries these: those that could not pay.
Retried(r) == job[r] = "unpaid"

Retry == job' = [r \in Requests |-> IF Retried(r) THEN "wait" ELSE job[r]]

\* Mutant: the queue is resumed only if there was something to retry.
RefillIfFailed(looker) ==
    /\ Retry
    /\ paused' = (paused /\ \A r \in Requests : ~Retried(r))
    /\ pending' = pending \ {looker, "timer"}
    /\ leftPaused' = FALSE
    /\ UNCHANGED outs

\* A check by `looker' finds capacity: failed jobs wait again, the timeout is
\* deleted and the queue resumed.
Refill(looker) ==
    /\ Retry
    /\ paused' = FALSE
    /\ pending' = pending \ {looker, "timer"}
    /\ leftPaused' = FALSE
    /\ UNCHANGED outs

\* A query rejects before outOfCapacity is set, or getFailed() after: nothing
\* was done yet.  Or resume() rejects in vain, all but that being done.  The
\* answer is that there is capacity.
RefillRejects(looker) ==
    /\ outs < MaxOuts
    /\ outs' = outs + 1
    /\ \/ pending' = pending \ {looker} /\ UNCHANGED job
       \/ pending' = pending \ {looker, "timer"} /\ Retry
    /\ UNCHANGED paused
    /\ leftPaused' = paused

HasCapacity(looker) == Refill(looker) \/ RefillRejects(looker)

\* There is capacity, or an error: on to building and signing the extrinsic.
CheckOk ==
    /\ stage = "check"
    /\ HasCapacity("job")
    /\ stage' = "submit"
    /\ UNCHANGED <<done, stalls, phase, cur, moving, actives, polls, answered,
                   sent, again, putBack, crashes>>

\* signAndSend: the node has put the extrinsic in its pool.
Sent ==
    /\ stage = "submit"
    /\ sent' = [sent EXCEPT ![cur] = IF @ = 2 THEN 2 ELSE @ + 1]
    /\ stage' = "record"
    /\ UNCHANGED <<redisVars, phase, cur, moving, actives, polls, pending,
                   answered, again, putBack, leftPaused, outs, crashes>>

\* payWithCapacity signs and sends an extrinsic around tx: process() keeps tx.
ProcessSingleTxn == cur \notin SignUps /\ Sent

\* payWithCapacityBatchAll: process() keeps the extrinsic that was signed.
ProcessBatchTxn == cur \in SignUps /\ Sent

Submit == ProcessSingleTxn \/ ProcessBatchTxn

\* The extrinsic cannot be built, or the node rejects it.
SubmitFails ==
    /\ stage = "submit"
    /\ FailJob("failed") \/ FailJob("unpaid")
    /\ UNCHANGED <<done, stalls, paused, phase, moving, polls, pending,
                   histVars>>

\* birth and death are read off tx.era, and the hset is sent ...
Record ==
    /\ stage = "record"
    /\ stage' = "finish"
    /\ UNCHANGED <<redisVars, phase, cur, moving, actives, polls, pending,
                   histVars>>

\* ... unless tx.era is not a mortal one: asMortalEra throws.  The extrinsic
\* that was signed has one; whether tx inside it has is up to the library.
RecordFails ==
    /\ stage = "record" /\ cur \notin SignUps
    /\ FailJob("failed")
    /\ UNCHANGED <<done, stalls, paused, phase, moving, polls, pending,
                   histVars>>

JobStep ==
    \/ CheckOut \/ CheckOk \/ Submit \/ SubmitFails \/ Record \/ RecordFails
    \/ Complete

-----------------------------------------------------------------------------
(* BullMQ, and checkCapacity's timeout                                     *)

\* moveToDelayed(Date.now()): due at once.
MoveLands(r) ==
    /\ r \in moving
    /\ moving' = moving \ {r}
    /\ job' = [job EXCEPT ![r] = "wait"]
    /\ putBack' = putBack \cup {r}
    /\ UNCHANGED <<done, stalls, paused, phase, cur, stage, actives, polls,
                   pending, answered, sent, again, leftPaused, outs, crashes>>

\* An active job that nobody works on waits again, the first time.
Stalled(r) ==
    /\ phase = "up"
    /\ job[r] = "active" /\ r # cur /\ r \notin moving
    /\ job' = [job EXCEPT ![r] = IF r \in stalls THEN "failed" ELSE "wait"]
    /\ stalls' = stalls \cup {r}
    /\ again' = IF r \notin stalls /\ sent[r] > 0 THEN again \cup {r} ELSE again
    /\ UNCHANGED <<done, paused, workerVars, answered, sent, putBack,
                   leftPaused, outs, crashes>>

\* The check at bootstrap, or the timeout's: it finds capacity ...
LookOk(looker) ==
    /\ looker \in pending
    /\ HasCapacity(looker)
    /\ UNCHANGED <<done, stalls, phase, cur, stage, moving, actives, polls,
                   answered, sent, again, putBack, crashes>>

\* ... or it does not.
LookOut(looker) ==
    /\ looker \in pending
    /\ NoCapacity(looker)
    /\ UNCHANGED <<job, done, stalls, phase, cur, stage, moving, actives,
                   polls, answered, sent, again, putBack, crashes>>

Look(looker) == LookOk(looker) \/ LookOut(looker)

-----------------------------------------------------------------------------
(* Shutdown, crash and restart                                             *)

\* SIGTERM or the shutdown event: worker.close(false) takes no new job ...
Shutdown ==
    /\ phase = "up"
    /\ crashes < MaxCrashes
    /\ crashes' = crashes + 1
    /\ phase' = "closing"
    /\ UNCHANGED <<redisVars, cur, stage, moving, actives, polls, pending,
                   answered, sent, again, putBack, leftPaused, outs>>

\* ... and waits for the one it has.
Closed ==
    /\ phase = "closing" /\ cur = NoJob
    /\ phase' = "drain"
    /\ UNCHANGED <<redisVars, cur, stage, moving, actives, polls, pending,
                   histVars>>

\* Mutant: maxWaitMs is not reduced.
PollForever ==
    /\ phase = "drain"
    /\ actives # {} /\ polls < MaxPolls
    /\ UNCHANGED vars

\* Mutant: the loop is left one delay late (maxWaitMs >= 0).
PollOneMore ==
    /\ phase = "drain"
    /\ actives # {} /\ polls <= MaxPolls
    /\ polls' = polls + 1
    /\ UNCHANGED <<redisVars, phase, cur, stage, moving, actives, pending,
                   histVars>>

\* One delay of the loop in onModuleDestroy.
Poll ==
    /\ phase = "drain"
    /\ actives # {} /\ polls < MaxPolls
    /\ polls' = polls + 1
    /\ UNCHANGED <<redisVars, phase, cur, stage, moving, actives, pending,
                   histVars>>

\* What is in memory is gone.
Gone ==
    /\ phase' = "down" /\ EndJob
    /\ moving' = {} /\ actives' = {} /\ putBack' = {} /\ polls' = 0
    /\ pending' = {} /\ leftPaused' = FALSE
    /\ UNCHANGED <<redisVars, answered, sent, again, outs>>

\* The loop is left, and the rest of the application closes.
Exit ==
    /\ phase = "drain"
    /\ actives = {} \/ polls = MaxPolls
    /\ Gone
    /\ UNCHANGED crashes

Crash ==
    /\ phase # "down"
    /\ crashes < MaxCrashes
    /\ crashes' = crashes + 1
    /\ Gone

Restart ==
    /\ phase = "down"
    /\ phase' = "up"
    /\ pending' = {"boot"}
    /\ UNCHANGED <<redisVars, cur, stage, moving, actives, polls, histVars>>

ProcessStep == Closed \/ Poll \/ Exit \/ Restart

-----------------------------------------------------------------------------
Next ==
    \/ \E r \in Requests :
          Post(r) \/ Take(r) \/ MoveLands(r) \/ Stalled(r)
    \/ \E looker \in Lookers : Look(looker)
    \/ JobStep \/ ProcessStep \/ Shutdown \/ Crash

Spec == Init /\ [][Next]_vars

\* Awaits end, commands land, stalled jobs are looked for, the timeout
\* fires, and the worker takes jobs, first come first served, and is restarted.
FairSpec ==
    /\ Spec
    /\ WF_vars(JobStep) /\ WF_vars(ProcessStep)
    /\ \A looker \in Lookers : WF_vars(Look(looker))
    /\ \A r \in Requests :
          WF_vars(MoveLands(r)) /\ WF_vars(Stalled(r)) /\ SF_vars(Take(r))

-----------------------------------------------------------------------------
(* Properties                                                              *)

\* A request that was answered and whose extrinsic was never submitted has a
\* job, waiting, under way or failed: neither the deduplication by id, nor
\* retention, nor putting back, nor a crash at any await loses it.
NothingLost ==
    \A r \in answered : sent[r] = 0 => job[r] \in JobStates \ {"none", "completed"}

\* A second extrinsic is submitted for one request only if its job was found
\* stalled after the first, or posted again after its job was trimmed.  In
\* particular a job that failed after its submission is not retried.
SentTwiceHasCause == \A r \in Requests : sent[r] > 1 => r \in again

\* BaseConsumer tracks the executing jobs (its comment, line 36): the job under
\* way is in the set, and another one only if it was put back, or is about to
\* be, and not taken again: what a DelayedError leaves behind.
TrackedJobs ==
    /\ cur # NoJob => cur \in actives
    /\ actives \subseteq {cur} \cup moving \cup putBack

\* A shutdown ends, whatever is left in the set of executing jobs.
ShutdownEnds == phase \in {"closing", "drain"} ~> phase = "down"

\* Every job that is added ends, whatever was paused, put back or interrupted,
\* with one exception: a check that an error cut short left the queue paused,
\* and it stays so for good, nobody being there to check again.
EveryJobEnds ==
    \A r \in Requests :
       job[r] = "wait" ~> (job[r] \notin {"wait", "active"} \/ []leftPaused)

-----------------------------------------------------------------------------
(* What all this is for                                                    *)

\* How far r has come, whatever became of its job since it was submitted.
StatusOf(r) ==
    IF sent[r] > 0 THEN "published"
    ELSE IF job[r] = "none" THEN "new"
    ELSE IF job[r] \in {"failed", "unpaid"} THEN job[r] ELSE "open"

Promise == INSTANCE Publication WITH
               status  <- [r \in Requests |-> StatusOf(r)],
               times   <- sent,
               excused <- again

\* The queue and its worker keep the promise of Publication: however posts,
\* checks, stalls, retries, trimming, shutdowns and crashes interleave, a request
\* goes from open to published or failed, is taken up again only if it could not
\* be paid, and is published again only once it is in `again'.
ImplementsPublication == Promise!Spec

=============================================================================
