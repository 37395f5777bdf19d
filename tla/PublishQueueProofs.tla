------------------------- MODULE PublishQueueProofs -------------------------
(***************************************************************************)
(* Proofs about PublishQueue, for any number of requests, kept jobs,       *)
(* checks without capacity, shutdowns and crashes: no answered request is  *)
(* lost, an extrinsic is sent twice only with a cause, and the queue with  *)
(* its worker implements Publication.                                      *)
(***************************************************************************)
EXTENDS PublishQueue, TLAPS

\* The job under way, and one that is being put back, is active; never both.
Held ==
    /\ cur # NoJob => job[cur] = "active" /\ cur \notin moving
    /\ \A r \in moving : job[r] = "active"

\* A completed job that is kept was sent, and is kept once.
DoneKept ==
    \A i \in 1..Len(done) :
       /\ done[i] \in Requests
       /\ job[done[i]] = "completed" /\ sent[done[i]] > 0
       /\ \A k \in 1..Len(done) : done[i] = done[k] => i = k

\* What process() records and finishes, it has sent.
FinishedIsSent ==
    /\ stage \in {"record", "finish"} => sent[cur] > 0
    /\ \A r \in Requests : job[r] = "completed" => sent[r] > 0

\* A job that was sent, and is to be sent once more, is one that was found
\* stalled or was posted again.
ResentHasCause ==
    \A r \in Requests :
       /\ sent[r] > 0
       /\ \/ job[r] \in {"wait", "unpaid"}
          \/ r \in moving
          \/ r = cur /\ stage \in {"check", "submit"}
       => r \in again

IInv ==
    /\ TypeOK /\ Held /\ DoneKept /\ FinishedIsSent /\ ResentHasCause
    /\ NothingLost /\ SentTwiceHasCause /\ TrackedJobs

LEMMA InitInv == Init => IInv
<1> SUFFICES ASSUME Init PROVE IInv
  OBVIOUS
<1> USE SettingsAssumption, BoundsAssumption
<1>1. TypeOK
  <2>1. paused \in BOOLEAN /\ leftPaused \in BOOLEAN
    BY DEF Init
  <2>2. done \in Seq(Requests)
    BY DEF Init
  <2> QED
    BY <2>1, <2>2 DEF Init, TypeOK, JobStates, Stages, Lookers
<1>2. Held /\ DoneKept /\ FinishedIsSent /\ ResentHasCause
  BY DEF Init, Held, DoneKept, FinishedIsSent, ResentHasCause
<1>3. NothingLost /\ SentTwiceHasCause /\ TrackedJobs
  BY DEF Init, NothingLost, SentTwiceHasCause, TrackedJobs
<1> QED
  BY <1>1, <1>2, <1>3 DEF IInv

\* A request is posted, and perhaps answered.
LEMMA PostKeepsInv ==
    ASSUME IInv, NEW r \in Requests, Post(r)
    PROVE  IInv'
<1>1. TypeOK'
  BY DEF IInv, TypeOK, JobStates, Stages, Post, PostCall, PostSignUp, PostUnanswered, Enqueue, Answered, workerVars
<1>2. Held'
  BY DEF IInv, TypeOK, Held, Post, PostCall, PostSignUp, PostUnanswered, Enqueue, Answered, workerVars
<1>3. DoneKept'
  BY DEF IInv, TypeOK, Held, DoneKept, Post, PostCall, PostSignUp, PostUnanswered, Enqueue, Answered, workerVars
<1>4. FinishedIsSent'
  BY DEF IInv, TypeOK, FinishedIsSent, Post, PostCall, PostSignUp, PostUnanswered, Enqueue, Answered, workerVars
<1>5. ResentHasCause'
  BY DEF IInv, TypeOK, Held, ResentHasCause, Post, PostCall, PostSignUp, PostUnanswered, Enqueue, Answered, workerVars
<1>6. NothingLost'
  <2>1. /\ answered' \subseteq answered \cup {r} /\ UNCHANGED sent
        /\ job' = [job EXCEPT ![r] = IF @ = "none" THEN "wait" ELSE @]
    BY DEF Post, PostCall, PostSignUp, PostUnanswered, Enqueue, Answered
  <2>2. ASSUME NEW q \in answered', sent'[q] = 0
        PROVE  job'[q] \in JobStates \ {"none", "completed"}
    BY <2>1, <2>2 DEF IInv, TypeOK, NothingLost, FinishedIsSent, JobStates
  <2> QED
    BY <2>2 DEF NothingLost
<1>7. SentTwiceHasCause'
  BY DEF IInv, TypeOK, ResentHasCause, SentTwiceHasCause, Post, PostCall, PostSignUp, PostUnanswered, Enqueue, Answered, workerVars
<1>8. TrackedJobs'
  BY DEF IInv, TypeOK, TrackedJobs, Post, PostCall, PostSignUp, PostUnanswered, Enqueue, Answered, workerVars
<1> QED
  BY <1>1, <1>2, <1>3, <1>4, <1>5, <1>6, <1>7, <1>8 DEF IInv

\* The worker takes a job.
LEMMA TakeKeepsInv ==
    ASSUME IInv, NEW r \in Requests, Take(r)
    PROVE  IInv'
<1>1. TypeOK'
  BY RequestsAssumption DEF IInv, TypeOK, JobStates, Stages, Take
<1>2. Held'
  BY RequestsAssumption DEF IInv, TypeOK, Held, Take
<1>3. DoneKept'
  BY DEF IInv, TypeOK, Held, DoneKept, Take
<1>4. FinishedIsSent'
  BY RequestsAssumption DEF IInv, TypeOK, FinishedIsSent, Take
<1>5. ResentHasCause'
  BY RequestsAssumption DEF IInv, TypeOK, Held, ResentHasCause, Take
<1>6. NothingLost'
  BY DEF IInv, TypeOK, FinishedIsSent, NothingLost, JobStates, Take
<1>7. SentTwiceHasCause'
  BY DEF IInv, TypeOK, ResentHasCause, SentTwiceHasCause, Take
<1>8. TrackedJobs'
  BY RequestsAssumption DEF IInv, TypeOK, TrackedJobs, Take
<1> QED
  BY <1>1, <1>2, <1>3, <1>4, <1>5, <1>6, <1>7, <1>8 DEF IInv

\* A check retries jobs that could not be paid, or none, whatever it finds and
\* whichever of its calls reject.
LEMMA ChecksDo ==
    ASSUME IInv, NEW looker \in Lookers \cup {"job"},
           (NoCapacity(looker) /\ UNCHANGED job) \/ HasCapacity(looker)
    PROVE  /\ job' \in [Requests -> JobStates]
           /\ \A r \in Requests :
                 job'[r] = job[r] \/ (job[r] = "unpaid" /\ job'[r] = "wait")
           /\ paused' \in BOOLEAN /\ leftPaused' \in BOOLEAN
           /\ pending' \subseteq Lookers /\ outs' \in 0..MaxOuts
<1> USE DEF NoCapacity, HasCapacity, PauseQueue, PauseRejects, Refill, RefillRejects
<1>1. paused' \in BOOLEAN /\ leftPaused' \in BOOLEAN
  BY DEF IInv, TypeOK
<1>2. pending' \subseteq Lookers
  BY DEF IInv, TypeOK, Lookers
<1>3. outs' \in 0..MaxOuts
  <2>1. outs' = outs \/ (outs < MaxOuts /\ outs' = outs + 1)
    OBVIOUS
  <2> QED
    BY <2>1, BoundsAssumption DEF IInv, TypeOK
<1>4. \/ job' = job
      \/ job' = [r \in Requests |-> IF job[r] = "unpaid" THEN "wait" ELSE job[r]]
  BY DEF Retry, Retried
<1>5. job' \in [Requests -> JobStates]
  BY <1>4 DEF IInv, TypeOK, JobStates
<1>6. \A r \in Requests :
         job'[r] = job[r] \/ (job[r] = "unpaid" /\ job'[r] = "wait")
  BY <1>4
<1> QED
  BY <1>1, <1>2, <1>3, <1>5, <1>6

\* Out of capacity.
LEMMA CheckOutKeepsInv ==
    ASSUME IInv, CheckOut
    PROVE  IInv'
<1>0. /\ job' \in [Requests -> JobStates]
      /\ \A r \in Requests :
            job'[r] = job[r] \/ (job[r] = "unpaid" /\ job'[r] = "wait")
      /\ paused' \in BOOLEAN /\ leftPaused' \in BOOLEAN
      /\ pending' \subseteq Lookers /\ outs' \in 0..MaxOuts
  BY ChecksDo DEF CheckOut
<1>1. /\ stage = "check" /\ cur' = NoJob /\ stage' = "none"
      /\ moving' = moving \cup {cur}
      /\ UNCHANGED <<job, done, stalls, phase, actives, polls, answered, sent,
                     again, putBack, crashes>>
  BY DEF CheckOut, EndJob
<1>2. TypeOK'
  BY <1>0, <1>1, RequestsAssumption DEF IInv, TypeOK, JobStates, Stages, Lookers
<1>3. Held'
  BY <1>0, <1>1, RequestsAssumption DEF IInv, TypeOK, Held
<1>4. DoneKept'
  BY <1>0, <1>1, RequestsAssumption DEF IInv, TypeOK, Held, DoneKept
<1>5. FinishedIsSent'
  BY <1>0, <1>1, RequestsAssumption DEF IInv, TypeOK, FinishedIsSent
<1>6. ResentHasCause'
  BY <1>0, <1>1, RequestsAssumption DEF IInv, TypeOK, Held, ResentHasCause
<1>7. NothingLost'
  BY <1>0, <1>1, RequestsAssumption DEF IInv, TypeOK, FinishedIsSent, NothingLost, JobStates
<1>8. SentTwiceHasCause'
  BY <1>0, <1>1, RequestsAssumption DEF IInv, TypeOK, ResentHasCause, SentTwiceHasCause
<1>9. TrackedJobs'
  BY <1>0, <1>1, RequestsAssumption DEF IInv, TypeOK, TrackedJobs
<1> QED
  BY <1>2, <1>3, <1>4, <1>5, <1>6, <1>7, <1>8, <1>9 DEF IInv

\* A check that lets its job pass.
LEMMA CheckOkKeepsInv ==
    ASSUME IInv, CheckOk
    PROVE  IInv'
<1>0. /\ job' \in [Requests -> JobStates]
      /\ \A r \in Requests :
            job'[r] = job[r] \/ (job[r] = "unpaid" /\ job'[r] = "wait")
      /\ paused' \in BOOLEAN /\ leftPaused' \in BOOLEAN
      /\ pending' \subseteq Lookers /\ outs' \in 0..MaxOuts
  BY ChecksDo DEF CheckOk
<1>1. /\ stage = "check" /\ stage' = "submit"
      /\ UNCHANGED <<done, stalls, phase, cur, moving, actives, polls,
                     answered, sent, again, putBack, crashes>>
  BY DEF CheckOk
<1>2. TypeOK'
  BY <1>0, <1>1, RequestsAssumption DEF IInv, TypeOK, JobStates, Stages, Lookers
<1>3. Held'
  BY <1>0, <1>1, RequestsAssumption DEF IInv, TypeOK, Held
<1>4. DoneKept'
  BY <1>0, <1>1, RequestsAssumption DEF IInv, TypeOK, Held, DoneKept
<1>5. FinishedIsSent'
  BY <1>0, <1>1, RequestsAssumption DEF IInv, TypeOK, FinishedIsSent
<1>6. ResentHasCause'
  BY <1>0, <1>1, RequestsAssumption DEF IInv, TypeOK, Held, ResentHasCause
<1>7. NothingLost'
  BY <1>0, <1>1, RequestsAssumption DEF IInv, TypeOK, FinishedIsSent, NothingLost, JobStates
<1>8. SentTwiceHasCause'
  BY <1>0, <1>1, RequestsAssumption DEF IInv, TypeOK, ResentHasCause, SentTwiceHasCause
<1>9. TrackedJobs'
  BY <1>0, <1>1, RequestsAssumption DEF IInv, TypeOK, TrackedJobs
<1> QED
  BY <1>2, <1>3, <1>4, <1>5, <1>6, <1>7, <1>8, <1>9 DEF IInv

\* The check at bootstrap or the timeout's, whatever it finds.
LEMMA LookKeepsInv ==
    ASSUME IInv, NEW looker \in Lookers, Look(looker)
    PROVE  IInv'
<1>0. /\ job' \in [Requests -> JobStates]
      /\ \A r \in Requests :
            job'[r] = job[r] \/ (job[r] = "unpaid" /\ job'[r] = "wait")
      /\ paused' \in BOOLEAN /\ leftPaused' \in BOOLEAN
      /\ pending' \subseteq Lookers /\ outs' \in 0..MaxOuts
  BY ChecksDo DEF Look, LookOk, LookOut
<1>1. UNCHANGED <<done, stalls, phase, cur, stage, moving, actives, polls,
                  answered, sent, again, putBack, crashes>>
  BY DEF Look, LookOk, LookOut
<1>2. TypeOK'
  BY <1>0, <1>1 DEF IInv, TypeOK, JobStates, Stages, Lookers
<1>3. Held'
  BY <1>0, <1>1 DEF IInv, TypeOK, Held
<1>4. DoneKept'
  BY <1>0, <1>1 DEF IInv, TypeOK, Held, DoneKept
<1>5. FinishedIsSent'
  BY <1>0, <1>1 DEF IInv, TypeOK, FinishedIsSent
<1>6. ResentHasCause'
  BY <1>0, <1>1 DEF IInv, TypeOK, Held, ResentHasCause
<1>7. NothingLost'
  BY <1>0, <1>1 DEF IInv, TypeOK, FinishedIsSent, NothingLost, JobStates
<1>8. SentTwiceHasCause'
  BY <1>0, <1>1 DEF IInv, TypeOK, ResentHasCause, SentTwiceHasCause
<1>9. TrackedJobs'
  BY <1>0, <1>1 DEF IInv, TypeOK, TrackedJobs
<1> QED
  BY <1>2, <1>3, <1>4, <1>5, <1>6, <1>7, <1>8, <1>9 DEF IInv

\* The extrinsic of the job is sent.
LEMMA SubmitKeepsInv ==
    ASSUME IInv, Submit
    PROVE  IInv'
<1>1. TypeOK'
  BY DEF IInv, TypeOK, JobStates, Stages, Submit, ProcessSingleTxn, ProcessBatchTxn, Sent, redisVars
<1>2. Held'
  BY DEF IInv, TypeOK, Held, Submit, ProcessSingleTxn, ProcessBatchTxn, Sent, redisVars
<1>3. DoneKept'
  BY DEF IInv, TypeOK, Held, DoneKept, Submit, ProcessSingleTxn, ProcessBatchTxn, Sent, redisVars
<1>4. FinishedIsSent'
  BY DEF IInv, TypeOK, FinishedIsSent, Submit, ProcessSingleTxn, ProcessBatchTxn, Sent, redisVars
<1>5. ResentHasCause'
  BY DEF IInv, TypeOK, Held, ResentHasCause, Submit, ProcessSingleTxn, ProcessBatchTxn, Sent, redisVars
<1>6. NothingLost'
  BY DEF IInv, TypeOK, FinishedIsSent, NothingLost, JobStates, Submit, ProcessSingleTxn, ProcessBatchTxn, Sent, redisVars
<1>7. SentTwiceHasCause'
  BY DEF IInv, TypeOK, ResentHasCause, SentTwiceHasCause, Submit, ProcessSingleTxn, ProcessBatchTxn, Sent, redisVars
<1>8. TrackedJobs'
  BY DEF IInv, TypeOK, TrackedJobs, Submit, ProcessSingleTxn, ProcessBatchTxn, Sent, redisVars
<1> QED
  BY <1>1, <1>2, <1>3, <1>4, <1>5, <1>6, <1>7, <1>8 DEF IInv

\* The job fails, before or after it was sent.
LEMMA FailKeepsInv ==
    ASSUME IInv, SubmitFails \/ RecordFails
    PROVE  IInv'
<1>1. TypeOK'
  BY RequestsAssumption DEF IInv, TypeOK, JobStates, Stages, SubmitFails, RecordFails, FailJob, EndJob, histVars
<1>2. Held'
  BY RequestsAssumption DEF IInv, TypeOK, Held, SubmitFails, RecordFails, FailJob, EndJob, histVars
<1>3. DoneKept'
  BY RequestsAssumption DEF IInv, TypeOK, Held, DoneKept, SubmitFails, RecordFails, FailJob, EndJob, histVars
<1>4. FinishedIsSent'
  BY RequestsAssumption DEF IInv, TypeOK, FinishedIsSent, SubmitFails, RecordFails, FailJob, EndJob, histVars
<1>5. ResentHasCause'
  BY RequestsAssumption DEF IInv, TypeOK, Held, ResentHasCause, SubmitFails, RecordFails, FailJob, EndJob, histVars
<1>6. NothingLost'
  BY RequestsAssumption DEF IInv, TypeOK, FinishedIsSent, NothingLost, JobStates, SubmitFails, RecordFails, FailJob, EndJob, histVars
<1>7. SentTwiceHasCause'
  BY RequestsAssumption DEF IInv, TypeOK, ResentHasCause, SentTwiceHasCause, SubmitFails, RecordFails, FailJob, EndJob, histVars
<1>8. TrackedJobs'
  BY RequestsAssumption DEF IInv, TypeOK, TrackedJobs, SubmitFails, RecordFails, FailJob, EndJob, histVars
<1> QED
  BY <1>1, <1>2, <1>3, <1>4, <1>5, <1>6, <1>7, <1>8 DEF IInv

\* The watch-list entry is written.
LEMMA RecordKeepsInv ==
    ASSUME IInv, Record
    PROVE  IInv'
<1>1. TypeOK'
  BY DEF IInv, TypeOK, JobStates, Stages, Record, histVars, redisVars
<1>2. Held'
  BY DEF IInv, TypeOK, Held, Record, histVars, redisVars
<1>3. DoneKept'
  BY DEF IInv, TypeOK, Held, DoneKept, Record, histVars, redisVars
<1>4. FinishedIsSent'
  BY DEF IInv, TypeOK, FinishedIsSent, Record, histVars, redisVars
<1>5. ResentHasCause'
  BY DEF IInv, TypeOK, Held, ResentHasCause, Record, histVars, redisVars
<1>6. NothingLost'
  BY DEF IInv, TypeOK, FinishedIsSent, NothingLost, JobStates, Record, histVars, redisVars
<1>7. SentTwiceHasCause'
  BY DEF IInv, TypeOK, ResentHasCause, SentTwiceHasCause, Record, histVars, redisVars
<1>8. TrackedJobs'
  BY DEF IInv, TypeOK, TrackedJobs, Record, histVars, redisVars
<1> QED
  BY <1>1, <1>2, <1>3, <1>4, <1>5, <1>6, <1>7, <1>8 DEF IInv

\* A job is put back.
LEMMA MoveLandsKeepsInv ==
    ASSUME IInv, NEW r \in Requests, MoveLands(r)
    PROVE  IInv'
<1>1. TypeOK'
  BY DEF IInv, TypeOK, JobStates, Stages, MoveLands
<1>2. Held'
  BY DEF IInv, TypeOK, Held, MoveLands
<1>3. DoneKept'
  BY DEF IInv, TypeOK, Held, DoneKept, MoveLands
<1>4. FinishedIsSent'
  BY DEF IInv, TypeOK, FinishedIsSent, MoveLands
<1>5. ResentHasCause'
  BY DEF IInv, TypeOK, Held, ResentHasCause, MoveLands
<1>6. NothingLost'
  BY DEF IInv, TypeOK, FinishedIsSent, NothingLost, JobStates, MoveLands
<1>7. SentTwiceHasCause'
  BY DEF IInv, TypeOK, ResentHasCause, SentTwiceHasCause, MoveLands
<1>8. TrackedJobs'
  BY DEF IInv, TypeOK, TrackedJobs, MoveLands
<1> QED
  BY <1>1, <1>2, <1>3, <1>4, <1>5, <1>6, <1>7, <1>8 DEF IInv

\* A job is found stalled.
LEMMA StalledKeepsInv ==
    ASSUME IInv, NEW r \in Requests, Stalled(r)
    PROVE  IInv'
<1>1. TypeOK'
  BY DEF IInv, TypeOK, JobStates, Stages, Stalled, workerVars
<1>2. Held'
  BY DEF IInv, TypeOK, Held, Stalled, workerVars
<1>3. DoneKept'
  BY DEF IInv, TypeOK, Held, DoneKept, Stalled, workerVars
<1>4. FinishedIsSent'
  BY DEF IInv, TypeOK, FinishedIsSent, Stalled, workerVars
<1>5. ResentHasCause'
  BY DEF IInv, TypeOK, Held, ResentHasCause, Stalled, workerVars
<1>6. NothingLost'
  BY DEF IInv, TypeOK, FinishedIsSent, NothingLost, JobStates, Stalled, workerVars
<1>7. SentTwiceHasCause'
  BY DEF IInv, TypeOK, ResentHasCause, SentTwiceHasCause, Stalled, workerVars
<1>8. TrackedJobs'
  BY DEF IInv, TypeOK, TrackedJobs, Stalled, workerVars
<1> QED
  BY <1>1, <1>2, <1>3, <1>4, <1>5, <1>6, <1>7, <1>8 DEF IInv

\* The steps of a shutdown, and the restart, leave the jobs alone.
LEMMA PhaseKeepsInv ==
    ASSUME IInv, Shutdown \/ Closed \/ Poll \/ Restart
    PROVE  IInv'
<1>1. TypeOK'
  <2>1. pending' \subseteq Lookers
    BY DEF IInv, TypeOK, Lookers, Shutdown, Closed, Poll, Restart
  <2>2. polls' \in 0..MaxPolls /\ crashes' \in 0..MaxCrashes
    BY BoundsAssumption, SettingsAssumption DEF IInv, TypeOK, Shutdown, Closed, Poll, Restart, histVars
  <2>3. phase' \in {"up", "closing", "drain", "down"}
    BY DEF Shutdown, Closed, Poll, Restart, IInv, TypeOK
  <2> QED
    BY <2>1, <2>2, <2>3 DEF IInv, TypeOK, Stages, Shutdown, Closed, Poll, Restart, redisVars, histVars
<1>2. Held'
  BY DEF IInv, TypeOK, Held, Shutdown, Closed, Poll, Restart, redisVars, histVars
<1>3. DoneKept'
  BY DEF IInv, TypeOK, Held, DoneKept, Shutdown, Closed, Poll, Restart, redisVars, histVars
<1>4. FinishedIsSent'
  BY DEF IInv, TypeOK, FinishedIsSent, Shutdown, Closed, Poll, Restart, redisVars, histVars
<1>5. ResentHasCause'
  BY DEF IInv, TypeOK, Held, ResentHasCause, Shutdown, Closed, Poll, Restart, redisVars, histVars
<1>6. NothingLost'
  BY DEF IInv, TypeOK, FinishedIsSent, NothingLost, JobStates, Shutdown, Closed, Poll, Restart, redisVars, histVars
<1>7. SentTwiceHasCause'
  BY DEF IInv, TypeOK, ResentHasCause, SentTwiceHasCause, Shutdown, Closed, Poll, Restart, redisVars, histVars
<1>8. TrackedJobs'
  BY DEF IInv, TypeOK, TrackedJobs, Shutdown, Closed, Poll, Restart, redisVars, histVars
<1> QED
  BY <1>1, <1>2, <1>3, <1>4, <1>5, <1>6, <1>7, <1>8 DEF IInv

\* What was in memory is gone.
LEMMA GoneKeepsInv ==
    ASSUME IInv, Exit \/ Crash
    PROVE  IInv'
<1>1. TypeOK'
  <2>1. leftPaused' \in BOOLEAN /\ UNCHANGED <<redisVars, outs>>
    BY DEF Gone, Exit, Crash
  <2> QED
    BY <2>1, RequestsAssumption, BoundsAssumption, SettingsAssumption
       DEF IInv, TypeOK, JobStates, Stages, Exit, Crash, Gone, EndJob, redisVars
<1>2. Held'
  BY RequestsAssumption, BoundsAssumption, SettingsAssumption DEF IInv, TypeOK, Held, Exit, Crash, Gone, EndJob, redisVars
<1>3. DoneKept'
  BY RequestsAssumption, BoundsAssumption, SettingsAssumption DEF IInv, TypeOK, Held, DoneKept, Exit, Crash, Gone, EndJob, redisVars
<1>4. FinishedIsSent'
  BY RequestsAssumption, BoundsAssumption, SettingsAssumption DEF IInv, TypeOK, FinishedIsSent, Exit, Crash, Gone, EndJob, redisVars
<1>5. ResentHasCause'
  BY RequestsAssumption, BoundsAssumption, SettingsAssumption DEF IInv, TypeOK, Held, ResentHasCause, Exit, Crash, Gone, EndJob, redisVars
<1>6. NothingLost'
  BY RequestsAssumption, BoundsAssumption, SettingsAssumption DEF IInv, TypeOK, FinishedIsSent, NothingLost, JobStates, Exit, Crash, Gone, EndJob, redisVars
<1>7. SentTwiceHasCause'
  BY RequestsAssumption, BoundsAssumption, SettingsAssumption DEF IInv, TypeOK, ResentHasCause, SentTwiceHasCause, Exit, Crash, Gone, EndJob, redisVars
<1>8. TrackedJobs'
  BY RequestsAssumption, BoundsAssumption, SettingsAssumption DEF IInv, TypeOK, TrackedJobs, Exit, Crash, Gone, EndJob, redisVars
<1> QED
  BY <1>1, <1>2, <1>3, <1>4, <1>5, <1>6, <1>7, <1>8 DEF IInv

\* A completed job joins those that are kept, and the oldest one may go.
LEMMA CompleteKeepsInv ==
    ASSUME IInv, Complete
    PROVE  IInv'
<1> DEFINE kept == Append(done, cur)
           full == Len(kept) > KeepDone
<1> USE RequestsAssumption, SettingsAssumption
<1>1. /\ cur \in Requests /\ job[cur] = "active" /\ cur \notin moving
      /\ sent[cur] > 0 /\ done \in Seq(Requests)
  BY DEF IInv, TypeOK, Held, FinishedIsSent, Complete
<1>2. /\ kept \in Seq(Requests) /\ Len(kept) = Len(done) + 1
      /\ \A i \in 1..Len(kept) :
            kept[i] = IF i = Len(done) + 1 THEN cur ELSE done[i]
  BY <1>1
<1>3. \A i \in 1..Len(kept) :
         /\ kept[i] \in Requests /\ kept[i] \notin moving /\ sent[kept[i]] > 0
         /\ kept[i] = cur \/ job[kept[i]] = "completed"
         /\ \A k \in 1..Len(kept) : kept[i] = kept[k] => i = k
  BY <1>1, <1>2 DEF IInv, DoneKept, Held
<1>4. /\ Head(kept) = kept[1] /\ Tail(kept) \in Seq(Requests)
      /\ Len(Tail(kept)) = Len(kept) - 1
      /\ \A i \in 1..Len(Tail(kept)) : Tail(kept)[i] = kept[i + 1]
  BY <1>2
<1>5. /\ done' = IF full THEN Tail(kept) ELSE kept
      /\ job' = [r \in Requests |->
                    IF full /\ r = kept[1] THEN "none"
                    ELSE IF r = cur THEN "completed" ELSE job[r]]
      /\ actives' = actives \ {cur} /\ cur' = NoJob /\ stage' = "none"
      /\ UNCHANGED <<stalls, paused, phase, moving, polls, pending, histVars>>
  BY <1>4 DEF Complete, TooMany, EndJob
<1> HIDE DEF kept
<1>6. TypeOK'
  <2>1. done' \in Seq(Requests)
    BY <1>2, <1>4, <1>5
  <2>2. job' \in [Requests -> JobStates]
    BY <1>5 DEF IInv, TypeOK, JobStates
  <2> QED
    BY <1>5, <2>1, <2>2 DEF IInv, TypeOK, Stages, histVars
<1>7. Held'
  BY <1>1, <1>2, <1>3, <1>5 DEF IInv, TypeOK, Held
<1>8. DoneKept'
  <2>1. CASE full
    <3>1. ASSUME NEW i \in 1..Len(done')
          PROVE  /\ done'[i] = kept[i + 1] /\ i + 1 \in 1..Len(kept)
                 /\ kept[i + 1] # kept[1]
      BY <1>2, <1>3, <1>4, <1>5, <2>1
    <3>2. ASSUME NEW i \in 1..Len(done')
          PROVE  /\ done'[i] \in Requests
                 /\ job'[done'[i]] = "completed" /\ sent'[done'[i]] > 0
      BY <1>3, <1>5, <2>1, <3>1 DEF histVars
    <3>3. ASSUME NEW i \in 1..Len(done'), NEW k \in 1..Len(done'),
                 done'[i] = done'[k]
          PROVE  i = k
      <4>1. i + 1 = k + 1
        BY <1>3, <3>1, <3>3
      <4>2. i \in Int /\ k \in Int
        BY <3>3
      <4> QED
        BY <4>1, <4>2
    <3> QED
      BY <3>2, <3>3 DEF DoneKept
  <2>2. CASE ~full
    BY <1>2, <1>3, <1>5, <2>2 DEF DoneKept, histVars
  <2> QED
    BY <2>1, <2>2
<1>9. FinishedIsSent' /\ SentTwiceHasCause'
  BY <1>1, <1>5 DEF IInv, TypeOK, FinishedIsSent, SentTwiceHasCause, histVars
<1>10. ResentHasCause'
  BY <1>1, <1>5 DEF IInv, TypeOK, ResentHasCause, histVars
<1>11. NothingLost'
  BY <1>2, <1>3, <1>5 DEF IInv, TypeOK, NothingLost, histVars, JobStates
<1>12. TrackedJobs'
  BY <1>5 DEF IInv, TypeOK, TrackedJobs, histVars
<1> QED
  BY <1>6, <1>7, <1>8, <1>9, <1>10, <1>11, <1>12 DEF IInv

LEMMA NextKeepsInv == ASSUME IInv, [Next]_vars PROVE IInv'
<1>1. CASE UNCHANGED vars
  BY <1>1 DEF vars, redisVars, workerVars, histVars, IInv, TypeOK, Held, DoneKept,
              FinishedIsSent, ResentHasCause, NothingLost, SentTwiceHasCause,
              TrackedJobs
<1>2. CASE \E r \in Requests : Post(r) \/ Take(r) \/ MoveLands(r) \/ Stalled(r)
  BY <1>2, PostKeepsInv, TakeKeepsInv, MoveLandsKeepsInv, StalledKeepsInv
<1>3. CASE JobStep
  BY <1>3, CheckOutKeepsInv, CheckOkKeepsInv, SubmitKeepsInv, FailKeepsInv,
     RecordKeepsInv, CompleteKeepsInv DEF JobStep
<1>4. CASE \E looker \in Lookers : Look(looker)
  BY <1>4, LookKeepsInv
<1>5. CASE ProcessStep \/ Shutdown \/ Crash
  BY <1>5, PhaseKeepsInv, GoneKeepsInv DEF ProcessStep
<1> QED
  BY <1>1, <1>2, <1>3, <1>4, <1>5 DEF Next

\* The inductive invariant of the queue and its worker.
THEOREM QueueCorrect == Spec => []IInv
BY InitInv, NextKeepsInv, PTL DEF Spec

\* Every variable keeps its type.
THEOREM TypeCorrect == Spec => []TypeOK
BY QueueCorrect, PTL DEF IInv

\* A request that was answered and never sent has a job that waits, is under
\* way or failed.
THEOREM NothingIsLost == Spec => []NothingLost
BY QueueCorrect, PTL DEF IInv

\* No second extrinsic without a job found stalled or a request posted again.
THEOREM ResendsHaveCause == Spec => []SentTwiceHasCause
BY QueueCorrect, PTL DEF IInv

\* The set of executing jobs has the job under way, and no other but one that
\* was put back.
THEOREM JobsAreTracked == Spec => []TrackedJobs
BY QueueCorrect, PTL DEF IInv

-----------------------------------------------------------------------------
(* The refinement of Publication                                           *)

\* What a step that sends nothing does to the status of a request.
LEMMA StatusFollows ==
    ASSUME NEW r \in Requests, UNCHANGED sent
    PROVE  /\ sent[r] > 0 => StatusOf(r) = "published" /\ StatusOf(r)' = "published"
           /\ job'[r] = job[r] => StatusOf(r)' = StatusOf(r)
           /\ {job[r], job'[r]} \cap {"none", "failed", "unpaid"} = {}
                 => StatusOf(r)' = StatusOf(r)
BY DEF StatusOf

\* A step that sends nothing, and keeps open what was not sent, is a stutter.
LEMMA Stutters ==
    ASSUME UNCHANGED <<answered, sent, again>>,
           \A r \in Requests :
              \/ sent[r] > 0
              \/ job'[r] = job[r]
              \/ {job[r], job'[r]} \cap {"none", "failed", "unpaid"} = {}
    PROVE  UNCHANGED Promise!vars
<1>1. \A r \in Requests : StatusOf(r)' = StatusOf(r)
  BY StatusFollows
<1> QED
  BY <1>1 DEF Promise!vars

LEMMA InitRefines == Init => Promise!Init
BY DEF Init, Promise!Init, StatusOf

\* A post is an Ask.
LEMMA PostRefines ==
    ASSUME IInv, NEW r \in Requests, Post(r)
    PROVE  Promise!Next
<1>1. /\ job' = [job EXCEPT ![r] = IF @ = "none" THEN "wait" ELSE @]
      /\ UNCHANGED sent
      /\ again' = IF job[r] = "none" /\ sent[r] > 0 THEN again \cup {r} ELSE again
      /\ UNCHANGED answered \/ answered' = answered \cup {r}
  BY DEF Post, PostCall, PostSignUp, PostUnanswered, Enqueue, Answered
<1>2. \A q \in Requests :
         StatusOf(q)' = IF q = r /\ StatusOf(q) = "new" THEN "open" ELSE StatusOf(q)
  BY <1>1 DEF IInv, TypeOK, StatusOf
<1>3. UNCHANGED again \/ (StatusOf(r) = "published" /\ again' = again \cup {r})
  BY <1>1 DEF StatusOf
<1>4. Promise!Ask(r)
  BY <1>1, <1>2, <1>3 DEF Promise!Ask, Promise!Excuse
<1> QED
  BY <1>4 DEF Promise!Next

\* The worker's submission is a Publish: it is excused if it is not the first.
LEMMA SubmitRefines ==
    ASSUME IInv, Submit
    PROVE  Promise!Next
<1>1. /\ cur \in Requests /\ job[cur] = "active"
      /\ sent[cur] > 0 => cur \in again
  BY DEF IInv, TypeOK, Held, ResentHasCause, Submit, ProcessSingleTxn,
         ProcessBatchTxn, Sent
<1>2. /\ sent' = [sent EXCEPT ![cur] = IF @ = 2 THEN 2 ELSE @ + 1]
      /\ UNCHANGED <<job, answered, again>>
  BY DEF Submit, ProcessSingleTxn, ProcessBatchTxn, Sent, redisVars
<1>3. sent \in [Requests -> 0..2]
  BY DEF IInv, TypeOK
<1>4. \A q \in Requests :
         StatusOf(q)' = IF q = cur THEN "published" ELSE StatusOf(q)
  BY <1>1, <1>2, <1>3 DEF StatusOf
<1>5. StatusOf(cur) = "open" \/ (StatusOf(cur) = "published" /\ cur \in again)
  BY <1>1 DEF StatusOf
<1>6. Promise!Publish(cur)
  BY <1>1, <1>2, <1>4, <1>5 DEF Promise!Publish
<1> QED
  BY <1>1, <1>6 DEF Promise!Next

\* Failing a job is a Fail if nothing was sent for it, and else nothing.
LEMMA FailingRefines ==
    ASSUME IInv, NEW r \in Requests, NEW end \in {"failed", "unpaid"},
           job[r] = "active", job' = [job EXCEPT ![r] = end],
           UNCHANGED <<answered, sent, again>>
    PROVE  [Promise!Next]_(Promise!vars)
<1>1. job \in [Requests -> JobStates]
  BY DEF IInv, TypeOK
<1>2. CASE sent[r] > 0
  BY <1>1, <1>2, Stutters
<1>3. CASE ~(sent[r] > 0)
  <2>1. \A q \in Requests : StatusOf(q)' = IF q = r THEN end ELSE StatusOf(q)
    BY <1>1, <1>3 DEF StatusOf
  <2>2. StatusOf(r) = "open"
    BY <1>3 DEF StatusOf
  <2>3. Promise!Fail(r)
    BY <2>1, <2>2 DEF Promise!Fail
  <2> QED
    BY <2>3 DEF Promise!Next
<1> QED
  BY <1>2, <1>3

\* What was sent before it fails stays published.
LEMMA FailRefines ==
    ASSUME IInv, SubmitFails \/ RecordFails
    PROVE  [Promise!Next]_(Promise!vars)
<1>1. cur \in Requests /\ job[cur] = "active"
  BY DEF IInv, TypeOK, Held, SubmitFails, RecordFails
<1>2. UNCHANGED <<answered, sent, again>>
  BY DEF SubmitFails, RecordFails, histVars
<1>3. PICK end \in {"failed", "unpaid"} : job' = [job EXCEPT ![cur] = end]
  BY DEF SubmitFails, RecordFails, FailJob
<1> QED
  BY <1>1, <1>2, <1>3, FailingRefines

\* A check that retries jobs is a TakeUp, and one that does not a stutter.
LEMMA HasCapacityRefines ==
    ASSUME IInv, NEW looker \in Lookers \cup {"job"}, HasCapacity(looker),
           UNCHANGED <<answered, sent, again>>
    PROVE  [Promise!Next]_(Promise!vars)
<1>1. CASE Retry
  <2>1. \A r \in Requests :
           StatusOf(r)' = IF StatusOf(r) = "unpaid" THEN "open" ELSE StatusOf(r)
    BY <1>1 DEF Retry, Retried, StatusOf
  <2>2. Promise!TakeUp
    BY <2>1 DEF Promise!TakeUp
  <2> QED
    BY <2>2 DEF Promise!Next
<1>2. CASE UNCHANGED job
  BY <1>2, Stutters
<1> QED
  BY <1>1, <1>2 DEF HasCapacity, Refill, RefillRejects

\* A job that is found stalled is forgotten, or fails for good.
LEMMA StalledRefines ==
    ASSUME IInv, NEW r \in Requests, Stalled(r)
    PROVE  [Promise!Next]_(Promise!vars)
<1>1. /\ job \in [Requests -> JobStates] /\ job[r] = "active"
      /\ UNCHANGED <<answered, sent>>
  BY DEF Stalled, IInv, TypeOK
<1>2. CASE r \in stalls
  <2>1. job' = [job EXCEPT ![r] = "failed"] /\ UNCHANGED again
    BY <1>2 DEF Stalled
  <2> QED
    BY <1>1, <2>1, FailingRefines
<1>3. CASE r \notin stalls
  <2>1. /\ job' = [job EXCEPT ![r] = "wait"]
        /\ again' = IF sent[r] > 0 THEN again \cup {r} ELSE again
    BY <1>3 DEF Stalled
  <2>2. CASE ~(sent[r] > 0)
    BY <1>1, <2>1, <2>2, Stutters
  <2>3. CASE sent[r] > 0
    <3>1. \A q \in Requests : StatusOf(q)' = StatusOf(q)
      BY <1>1, <2>1, StatusFollows
    <3>2. StatusOf(r) = "published"
      BY <2>3 DEF StatusOf
    <3>3. Promise!Forget(r)
      BY <1>1, <2>1, <2>3, <3>1, <3>2 DEF Promise!Forget, Promise!Excuse
    <3> QED
      BY <3>3 DEF Promise!Next
  <2> QED
    BY <2>2, <2>3
<1> QED
  BY <1>2, <1>3

\* A completed job was sent, and so was one that is removed.
LEMMA CompleteRefines ==
    ASSUME IInv, Complete
    PROVE  UNCHANGED Promise!vars
<1> DEFINE kept == Append(done, cur)
           full == Len(kept) > KeepDone
<1>1. cur \in Requests /\ sent[cur] > 0 /\ done \in Seq(Requests)
  BY RequestsAssumption DEF IInv, TypeOK, FinishedIsSent, Complete
<1>2. Head(kept) = IF Len(done) > 0 THEN done[1] ELSE cur
  BY <1>1
<1>3. Head(kept) \in Requests /\ sent[Head(kept)] > 0
  BY <1>1, <1>2 DEF IInv, DoneKept
<1>4. /\ job' = [r \in Requests |->
                    IF full /\ r = Head(kept) THEN "none"
                    ELSE IF r = cur THEN "completed" ELSE job[r]]
      /\ UNCHANGED <<answered, sent, again>>
  BY DEF Complete, TooMany, histVars
<1> HIDE DEF kept, full
<1>5. \A r \in Requests : sent[r] > 0 \/ job'[r] = job[r]
  BY <1>1, <1>3, <1>4
<1> QED
  BY <1>4, <1>5, Stutters

\* Taking a job, putting it back and finding the provider out of capacity leave
\* it open; recording, shutdown, crash and restart leave the jobs alone.
LEMMA RestRefines ==
    ASSUME IInv,
           \/ \E r \in Requests : Take(r) \/ MoveLands(r)
           \/ CheckOut \/ \E looker \in Lookers : LookOut(looker)
           \/ Record \/ ProcessStep \/ Shutdown \/ Crash
    PROVE  UNCHANGED Promise!vars
<1>1. UNCHANGED <<answered, sent, again>>
  BY DEF Take, MoveLands, CheckOut, LookOut, Record, ProcessStep, Closed, Poll,
         Exit, Restart, Shutdown, Crash, Gone, histVars
<1>2. CASE \E r \in Requests : Take(r) \/ MoveLands(r)
  <2>1. PICK r \in Requests : Take(r) \/ MoveLands(r)
    BY <1>2
  <2>2. \E new \in {"active", "wait"} :
           /\ job[r] \in {"active", "wait"}
           /\ job' = [job EXCEPT ![r] = new]
    BY <2>1 DEF Take, MoveLands, IInv, Held
  <2>3. job \in [Requests -> JobStates]
    BY DEF IInv, TypeOK
  <2> QED
    BY <1>1, <2>2, <2>3, Stutters
<1>3. CASE ~ \E r \in Requests : Take(r) \/ MoveLands(r)
  <2>1. UNCHANGED job
    BY <1>3 DEF CheckOut, LookOut, Record, ProcessStep, Closed, Poll, Exit,
                Restart, Shutdown, Crash, Gone, redisVars
  <2> QED
    BY <1>1, <2>1, Stutters
<1> QED
  BY <1>2, <1>3

LEMMA StepRefines ==
    ASSUME IInv, [Next]_vars
    PROVE  [Promise!Next]_(Promise!vars)
<1>1. CASE UNCHANGED vars
  BY <1>1, Stutters DEF vars, redisVars, histVars
<1>2. CASE \E r \in Requests : Post(r) \/ Take(r) \/ MoveLands(r) \/ Stalled(r)
  BY <1>2, PostRefines, RestRefines, StalledRefines
<1>3. CASE JobStep
  <2>1. CASE CheckOk
    BY <2>1, HasCapacityRefines DEF CheckOk
  <2>2. CASE CheckOut \/ Record
    BY <2>2, RestRefines
  <2> QED
    BY <1>3, <2>1, <2>2, SubmitRefines, FailRefines, CompleteRefines DEF JobStep
<1>4. CASE \E looker \in Lookers : Look(looker)
  <2>1. PICK looker \in Lookers : Look(looker)
    BY <1>4
  <2>2. CASE LookOk(looker)
    BY <2>2, HasCapacityRefines DEF LookOk
  <2>3. CASE LookOut(looker)
    BY <2>3, RestRefines
  <2> QED
    BY <2>1, <2>2, <2>3 DEF Look
<1>5. CASE ProcessStep \/ Shutdown \/ Crash
  BY <1>5, RestRefines
<1> QED
  BY <1>1, <1>2, <1>3, <1>4, <1>5 DEF Next

\* The queue and its worker implement Publication.
THEOREM PublicationImplemented == Spec => ImplementsPublication
<1>1. Spec => Promise!Spec
  BY QueueCorrect, InitRefines, StepRefines, PTL DEF Spec, Promise!Spec
<1> QED
  BY <1>1 DEF ImplementsPublication

=============================================================================
