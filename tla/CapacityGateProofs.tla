------------------------- MODULE CapacityGateProofs -------------------------
(***************************************************************************)
(* Proofs about CapacityGate, for any number of jobs, epochs, failed calls *)
(* and crashes.  PausedHasWaker is inductive relative to the types.        *)
(***************************************************************************)
EXTENDS CapacityLimit, FiniteSetTheorems, TLAPS

\* Leaving checkCapacity keeps the types of the calls.
LEMMA ReturnTypes ==
    ASSUME NEW c \in Callers, TypeOK, Return(c)
    PROVE  pc' \in [Callers -> PCs] /\ failed' \in [Callers -> SUBSET Jobs]
BY DEF TypeOK, Return, PCs

\* Stopping the process keeps every type.
LEMMA ExitTypes ==
    ASSUME TypeOK, ExitProcess, counted' \in [Epochs -> Nat],
           mishaps' \in 0..MaxMishaps, gaveUp' \in BOOLEAN
    PROVE  TypeOK'
<1>1. /\ up' \in BOOLEAN /\ closing' \in BOOLEAN /\ armed' \in BOOLEAN
      /\ pc' \in [Callers -> PCs] /\ out' \in [Callers -> BOOLEAN]
      /\ failed' \in [Callers -> SUBSET Jobs]
  BY DEF ExitProcess, PCs
<1>2. job' \in [Jobs -> JobStates]
  BY DEF ExitProcess, TypeOK, JobStates
<1> QED
  BY <1>1, <1>2 DEF TypeOK, ExitProcess, chainVars

\* A counter grows by what an extrinsic costs.
LEMMA CounterTypes ==
    ASSUME TypeOK, NEW j \in Jobs, AddToCounter(j)
    PROVE  counted' \in [Epochs -> Nat]
<1>1. /\ counted' = [e \in Epochs |->
                       IF e = inEpoch[j] THEN counted[e] + Cost ELSE counted[e]]
      /\ counted \in [Epochs -> Nat]
  BY DEF AddToCounter, TypeOK
<1>2. \A e \in Epochs : counted[e] + Cost \in Nat
  BY <1>1, AmountsAssumption
<1> QED
  BY <1>1, <1>2

\* The chain and the notifier keep the types.
LEMMA OutsideTypes ==
    ASSUME TypeOK,
           NewEpoch \/ \E j \in Jobs : ChainStep(j)
    PROVE  TypeOK'
<1>1. CASE NewEpoch
  BY <1>1, AmountsAssumption, BoundsAssumption
     DEF NewEpoch, TypeOK, Epochs, callVars, processVars, boundVars
<1>2. ASSUME NEW j \in Jobs, Include(j) PROVE TypeOK'
  <2>1. remaining' \in 0..Capacity
    BY <1>2, AmountsAssumption DEF Include, TypeOK
  <2>2. inEpoch' \in [Jobs -> 0..MaxEpoch] /\ job' \in [Jobs -> JobStates]
    BY <1>2, BoundsAssumption DEF Include, TypeOK, Epochs, JobStates
  <2> QED
    BY <1>2, <2>1, <2>2 DEF Include, TypeOK, callVars, processVars, boundVars
<1>3. ASSUME NEW j \in Jobs, Count(j) PROVE TypeOK'
  <2>1. counted' \in [Epochs -> Nat]
    BY <1>3, CounterTypes DEF Count
  <2>2. job' \in [Jobs -> JobStates]
    BY <1>3 DEF Count, TypeOK, JobStates
  <2> QED
    BY <1>3, <2>1, <2>2 DEF Count, TypeOK, chainVars, callVars, processVars, boundVars
<1>4. ASSUME NEW j \in Jobs, MissCount(j) PROVE TypeOK'
  <2>1. job' \in [Jobs -> JobStates] /\ mishaps' \in 0..MaxMishaps
    BY <1>4, BoundsAssumption DEF MissCount, TypeOK, JobStates
  <2> QED
    BY <1>4, <2>1 DEF MissCount, TypeOK, chainVars, callVars, processVars
<1> QED
  BY <1>1, <1>2, <1>3, <1>4 DEF ChainStep

\* Jobs, the timer and the restart keep the types.
LEMMA CallersTypes ==
    ASSUME TypeOK,
           TimerFires \/ Restart \/ \E j \in Jobs : JobStep(j)
    PROVE  TypeOK'
<1>1. CASE TimerFires
  BY <1>1 DEF TimerFires, TypeOK, PCs, Callers, chainVars, processVars,
                  boundVars
<1>2. CASE Restart
  BY <1>2 DEF Restart, TypeOK, PCs, Callers, chainVars, processVars,
                  boundVars
<1>3. ASSUME NEW j \in Jobs, TakeJob(j) PROVE TypeOK'
  <2>1. job' \in [Jobs -> JobStates] /\ pc' \in [Callers -> PCs]
    BY <1>3 DEF TakeJob, TypeOK, JobStates, PCs, Callers
  <2> QED
    BY <1>3, <2>1 DEF TakeJob, TypeOK, chainVars, processVars,
                  boundVars
<1>4. ASSUME NEW j \in Jobs, PutBack(j) PROVE TypeOK'
  <2>1. /\ job' \in [Jobs -> JobStates] /\ pc' \in [Callers -> PCs]
        /\ out' \in [Callers -> BOOLEAN]
    BY <1>4 DEF PutBack, TypeOK, JobStates, PCs, Callers
  <2> QED
    BY <1>4, <2>1 DEF PutBack, TypeOK, chainVars, processVars,
                  boundVars
<1>5. ASSUME NEW j \in Jobs, SubmitJob(j) PROVE TypeOK'
  <2>1. job' \in [Jobs -> JobStates] /\ pc' \in [Callers -> PCs]
    BY <1>5 DEF SubmitJob, TypeOK, JobStates, PCs, Callers
  <2> QED
    BY <1>5, <2>1 DEF SubmitJob, TypeOK, chainVars, processVars,
                  boundVars
<1> QED
  BY <1>1, <1>2, <1>3, <1>4, <1>5 DEF JobStep

\* So does every step of checkCapacity.
LEMMA CallTypes ==
    ASSUME TypeOK, NEW c \in Callers, CallStep(c) \/ CallFails(c)
    PROVE  TypeOK'
<1>1. CASE ReadLedger(c)
  BY <1>1 DEF ReadLedger, TypeOK, PCs, chainVars, processVars,
                  boundVars
<1>2. CASE ReadEpoch(c)
  BY <1>2 DEF ReadEpoch, TypeOK, PCs, chainVars, processVars,
                  boundVars
<1>3. CASE Decide(c)
  <2>1. out' \in [Callers -> BOOLEAN] /\ pc' \in [Callers -> PCs]
    BY <1>3 DEF Decide, TypeOK, PCs
  <2> QED
    BY <1>3, <2>1 DEF Decide, TypeOK, chainVars, processVars,
                  boundVars
<1>4. CASE Pause(c)
  BY <1>4 DEF Pause, TypeOK, PCs, chainVars, processVars,
                  boundVars
<1>5. CASE Arm(c)
  <2>1. pc' \in [Callers -> PCs] /\ failed' \in [Callers -> SUBSET Jobs]
    BY <1>5, ReturnTypes DEF Arm
  <2> QED
    BY <1>5, <2>1 DEF Arm, TypeOK, chainVars, processVars,
                  boundVars
<1>6. CASE GetFailed(c)
  BY <1>6 DEF GetFailed, TypeOK, PCs, chainVars, processVars,
                  boundVars
<1>7. CASE Retry(c)
  <2>1. CASE ExitProcess
    BY <1>7, <2>1, ExitTypes DEF Retry, TypeOK, boundVars
  <2>2. CASE ~ExitProcess
    <3>1. job' \in [Jobs -> JobStates] /\ pc' \in [Callers -> PCs]
      BY <1>7, <2>2 DEF Retry, TypeOK, JobStates, PCs
    <3> QED
      BY <1>7, <2>2, <3>1 DEF Retry, TypeOK, chainVars, processVars,
                  boundVars
  <2> QED
    BY <2>1, <2>2
<1>8. CASE Resume(c)
  <2>1. pc' \in [Callers -> PCs] /\ failed' \in [Callers -> SUBSET Jobs]
    BY <1>8, ReturnTypes DEF Resume
  <2> QED
    BY <1>8, <2>1 DEF Resume, TypeOK, chainVars, processVars,
                  boundVars
<1>9. CASE CallFails(c)
  <2>1. pc' \in [Callers -> PCs] /\ failed' \in [Callers -> SUBSET Jobs]
    BY <1>9, ReturnTypes DEF CallFails
  <2>2. mishaps' \in 0..MaxMishaps
    BY <1>9, BoundsAssumption DEF CallFails, TypeOK
  <2> QED
    BY <1>9, <2>1, <2>2 DEF CallFails, TypeOK, chainVars, processVars
<1> QED
  BY <1>1, <1>2, <1>3, <1>4, <1>5, <1>6, <1>7, <1>8, <1>9 DEF CallStep

\* Every step keeps the types.
LEMMA TypeStep ==
    ASSUME TypeOK, [Next]_vars
    PROVE  TypeOK'
<1>1. CASE NewEpoch \/ \E j \in Jobs : ChainStep(j)
  BY <1>1, OutsideTypes
<1>2. CASE TimerFires \/ Restart \/ \E j \in Jobs : JobStep(j)
  BY <1>2, CallersTypes
<1>3. CASE Crash \/ \E j \in Jobs : CrashUncommitted(j)
  <2>1. mishaps' \in 0..MaxMishaps
    BY <1>3, BoundsAssumption DEF Crash, CrashUncommitted, TypeOK
  <2>2. counted' \in [Epochs -> Nat]
    BY <1>3, CounterTypes DEF Crash, CrashUncommitted, TypeOK
  <2> QED
    BY <1>3, <2>1, <2>2, ExitTypes DEF Crash, CrashUncommitted, TypeOK
<1>4. CASE Shutdown
  <2>1. mishaps' \in 0..MaxMishaps
    BY <1>4, BoundsAssumption DEF Shutdown, TypeOK
  <2> QED
    BY <1>4, <2>1 DEF Shutdown, TypeOK, chainVars, callVars
<1>5. CASE Closed
  BY <1>5, ExitTypes DEF Closed, TypeOK, boundVars
<1>6. CASE \E c \in Callers : CallStep(c) \/ CallFails(c)
  BY <1>6, CallTypes
<1>7. CASE UNCHANGED vars
  BY <1>7 DEF vars, chainVars, callVars, processVars, boundVars, TypeOK
<1> QED
  BY <1>1, <1>2, <1>3, <1>4, <1>5, <1>6, <1>7 DEF Next, ProcessStep

-----------------------------------------------------------------------------
\* Every variable of the gate keeps its type.
THEOREM TypeCorrect == Spec => []TypeOK
<1>1. Init => TypeOK
  <2> SUFFICES ASSUME Init PROVE TypeOK
    OBVIOUS
  <2>1. 1 \in Epochs /\ 0 \in 0..Capacity /\ AtStart \subseteq 0..Capacity
    BY AmountsAssumption, BoundsAssumption DEF Epochs
  <2>2. 0 \in 0..MaxEpoch /\ 0 \in 0..MaxMishaps
    BY BoundsAssumption
  <2>3. /\ pc \in [Callers -> PCs] /\ job \in [Jobs -> JobStates]
        /\ counted \in [Epochs -> Nat]
    BY DEF Init, PCs, JobStates
  <2> QED
    BY <2>1, <2>2, <2>3 DEF Init, TypeOK
<1>2. TypeOK /\ [Next]_vars => TypeOK'
  BY TypeStep
<1> QED
  BY <1>1, <1>2, PTL DEF Spec

-----------------------------------------------------------------------------
\* While calls of checkCapacity pass their awaits, a paused queue keeps
\* somebody who looks again.
LEMMA CallKeepsWaker ==
    ASSUME TypeOK, PausedHasWaker, NEW c \in Callers, CallStep(c) \/ CallFails(c)
    PROVE  PausedHasWaker'
<1> SUFFICES ASSUME paused', up', ~gaveUp'
             PROVE  armed' \/ \E d \in Callers : pc'[d] \in Calling
  BY DEF PausedHasWaker
<1>1. CASE ReadLedger(c) \/ ReadEpoch(c) \/ Decide(c) \/ Pause(c) \/ GetFailed(c)
  <2>1. pc'[c] \in Calling
    BY <1>1 DEF ReadLedger, ReadEpoch, Decide, Pause, GetFailed, TypeOK,
                Calling, PCs
  <2> QED
    BY <2>1
<1>2. CASE Arm(c)
  BY <1>2 DEF Arm
<1>3. CASE Retry(c)
  <2>1. pc'[c] = "resume"
    BY <1>3 DEF Retry, ExitProcess, TypeOK
  <2> QED
    BY <2>1 DEF Calling, PCs
<1>4. CASE Resume(c)
  BY <1>4 DEF Resume
<1>5. CASE CallFails(c)
  BY <1>5 DEF CallFails, TypeOK
<1> QED
  BY <1>1, <1>2, <1>3, <1>4, <1>5 DEF CallStep

\* So do jobs, the timer, the chain and a restart.
LEMMA OthersKeepWaker ==
    ASSUME TypeOK, PausedHasWaker,
           \/ NewEpoch \/ TimerFires \/ Restart
           \/ \E j \in Jobs : ChainStep(j) \/ JobStep(j)
    PROVE  PausedHasWaker'
<1>1. CASE TimerFires \/ Restart
  <2>1. \E d \in Callers : pc'[d] = "ledger"
    BY <1>1 DEF TimerFires, Restart, TypeOK, Callers
  <2> QED
    BY <2>1 DEF PausedHasWaker, Calling, PCs
<1>2. CASE NewEpoch \/ \E j \in Jobs : ChainStep(j)
  BY <1>2 DEF NewEpoch, ChainStep, Include, Count, MissCount, PausedHasWaker,
              callVars, processVars, boundVars
<1>3. ASSUME NEW j \in Jobs, TakeJob(j) PROVE PausedHasWaker'
  BY <1>3 DEF TakeJob, PausedHasWaker, processVars
<1>4. ASSUME NEW j \in Jobs, PutBack(j) \/ SubmitJob(j) PROVE PausedHasWaker'
  <2>1. /\ pc["job"] \notin Calling
        /\ \A d \in Callers : d # "job" => pc'[d] = pc[d]
    BY <1>4 DEF PutBack, SubmitJob, TypeOK, Calling
  <2>2. UNCHANGED <<paused, up, armed, gaveUp>>
    BY <1>4 DEF PutBack, SubmitJob, processVars, boundVars
  <2> QED
    BY <2>1, <2>2 DEF PausedHasWaker
<1> QED
  BY <1>1, <1>2, <1>3, <1>4 DEF JobStep

\* A paused queue is never left without the timeout or a call that will look
\* at the capacity again, unless a call failed and none ended well since.
THEOREM WakerKept == Spec => []PausedHasWaker
<1>1. Init => PausedHasWaker
  BY DEF Init, PausedHasWaker, Callers, Calling, PCs
<1>2. TypeOK /\ PausedHasWaker /\ [Next]_vars => PausedHasWaker'
  <2> SUFFICES ASSUME TypeOK, PausedHasWaker, [Next]_vars PROVE PausedHasWaker'
    OBVIOUS
  <2>1. CASE \/ NewEpoch \/ TimerFires \/ Restart
             \/ \E j \in Jobs : ChainStep(j) \/ JobStep(j)
    BY <2>1, OthersKeepWaker
  <2>2. CASE \/ Crash \/ Shutdown \/ Closed
             \/ \E j \in Jobs : CrashUncommitted(j)
    BY <2>2 DEF Crash, Shutdown, Closed, CrashUncommitted, ExitProcess,
                PausedHasWaker, callVars
  <2>3. CASE \E c \in Callers : CallStep(c) \/ CallFails(c)
    BY <2>3, CallKeepsWaker
  <2>4. CASE UNCHANGED vars
    BY <2>4 DEF vars, callVars, processVars, boundVars, PausedHasWaker
  <2> QED
    BY <2>1, <2>2, <2>3, <2>4 DEF Next, ProcessStep
<1> QED
  BY <1>1, <1>2, TypeCorrect, PTL DEF Spec

-----------------------------------------------------------------------------
(* The limit.  With LimitSpec, TypeCorrect and WakerKept hold as well: it    *)
(* only adds history to Spec.                                                *)

Counted(e) == {j \in IncludedIn(e) : job[j] = "counted"}

\* Jobs that a check let pass for e and that are in e or may still be.
Passed(e) ==
    {j \in Jobs : /\ passedFor[j] = e
                  /\ job[j] \in {"active", "pooled"} \/ inEpoch[j] = e}

OneUnderWay == \A i, j \in Running : i = j

IncludedHasEpoch ==
    \A j \in Jobs : job[j] \in {"included", "missed", "counted"}
                      <=> inEpoch[j] \in Epochs

\* A counter may be too high, after a crash, but does not lack what was counted.
CounterCovers ==
    \A e \in Epochs : Cost * Cardinality(Counted(e)) <= counted[e]

\* Of those that passed for e, all but the last were counted for e, and kept
\* below the limit, or were not known to the last one's check.
PassedAreKnown ==
    \A e \in Epochs :
        \/ Passed(e) = {}
        \/ \E known \in SUBSET Jobs, last \in Jobs :
              /\ Cost * Cardinality(known) < Limit
              /\ Passed(e) \subseteq known \cup unseen[e] \cup {last}

LimitInv ==
    LimitTypes /\ OneUnderWay /\ IncludedHasEpoch /\ CounterCovers /\ PassedAreKnown

LEMMA LimitIsNat == Limit \in Nat
<1>1. ASSUME LimitType = "percentage" PROVE Limit \in Nat
  <2>1. Capacity * LimitValue \in Nat
    BY <1>1, LimitAssumption, AmountsAssumption DEF ValidLimit
  <2> QED
    BY <1>1, <2>1 DEF Limit
<1>2. ASSUME LimitType # "percentage" PROVE Limit \in Nat
  BY <1>2, LimitAssumption DEF ValidLimit, Limit
<1> QED
  BY <1>1, <1>2

\* How a step moves jobs: active ones were waiting or active, pooled ones
\* active or pooled, and an extrinsic is included from the pool.
LEMMA JobsMove ==
    ASSUME TypeOK, [Next]_vars, NEW j \in Jobs
    PROVE  /\ job'[j] = "active" => job[j] \in {"wait", "active"}
           /\ job'[j] = "pooled" => job[j] \in {"active", "pooled"}
           /\ inEpoch'[j] # inEpoch[j] => job[j] = "pooled"
<1>1. CASE \E i \in Jobs : ChainStep(i) \/ CrashUncommitted(i)
  BY <1>1 DEF ChainStep, Include, Count, MissCount, CrashUncommitted,
              ExitProcess, TypeOK, chainVars
<1>2. CASE \E i \in Jobs : JobStep(i)
  BY <1>2 DEF JobStep, TakeJob, PutBack, SubmitJob, TypeOK, chainVars
<1>3. CASE NewEpoch \/ TimerFires \/ ProcessStep
  BY <1>3 DEF NewEpoch, TimerFires, ProcessStep, Crash, Shutdown, Closed,
              Restart, ExitProcess, TypeOK, chainVars
<1>4. CASE \E c \in Callers : CallStep(c) \/ CallFails(c)
  BY <1>4 DEF CallStep, CallFails, ReadLedger, ReadEpoch, Decide, Pause, Arm,
              GetFailed, Retry, Resume, ExitProcess, TypeOK, chainVars
<1>5. CASE UNCHANGED vars
  BY <1>5 DEF vars, chainVars
<1> QED
  BY <1>1, <1>2, <1>3, <1>4, <1>5 DEF Next

\* Only the decision of a job's own check lets it pass.
LEMMA PassesIsDecide ==
    ASSUME TypeOK, [Next]_vars, Passes
    PROVE  Decide("job")
<1>1. CASE \E i \in Jobs : ChainStep(i) \/ CrashUncommitted(i) \/ JobStep(i)
  BY <1>1 DEF ChainStep, Include, Count, MissCount, CrashUncommitted,
              ExitProcess, JobStep, TakeJob, PutBack, SubmitJob, TypeOK,
              callVars, Callers, Passes
<1>2. CASE NewEpoch \/ TimerFires \/ ProcessStep
  BY <1>2 DEF NewEpoch, TimerFires, ProcessStep, Crash, Shutdown, Closed,
              Restart, ExitProcess, TypeOK, callVars, Callers, Passes
<1>3. ASSUME NEW c \in Callers, CallStep(c) \/ CallFails(c) PROVE Decide("job")
  <2>1. CASE c = "job"
    BY <1>3, <2>1 DEF CallStep, CallFails, ReadLedger, ReadEpoch, Pause, Arm,
              GetFailed, Retry, Resume, ExitProcess, Return, Awaits, TypeOK,
              Callers, Passes
  <2>2. CASE c # "job" /\ ~Retry(c)
    BY <1>3, <2>2 DEF CallStep, CallFails, ReadLedger, ReadEpoch, Decide, Pause,
              Arm, GetFailed, Resume, Return, TypeOK, Passes, Callers
  <2>3. CASE c # "job" /\ Retry(c)
    BY <2>3 DEF Retry, ExitProcess, TypeOK, Passes, Callers
  <2> QED
    BY <2>1, <2>2, <2>3
<1>4. CASE UNCHANGED vars
  BY <1>4 DEF vars, callVars, Passes
<1> QED
  BY <1>1, <1>2, <1>3, <1>4 DEF Next

LEMMA OneKept ==
    ASSUME TypeOK, OneUnderWay, [Next]_vars
    PROVE  OneUnderWay'
<1>1. ASSUME NEW j \in Jobs, TakeJob(j) PROVE OneUnderWay'
  BY <1>1 DEF TakeJob, OneUnderWay, Running, TypeOK
<1>2. CASE \A j \in Jobs : ~TakeJob(j)
  <2>1. \A j \in Jobs : job'[j] = "active" => job[j] = "active"
    <3>1. CASE \E i \in Jobs : ChainStep(i) \/ CrashUncommitted(i)
      BY <3>1 DEF ChainStep, Include, Count, MissCount, CrashUncommitted,
                  ExitProcess, TypeOK
    <3>2. CASE \E i \in Jobs : JobStep(i)
      BY <1>2, <3>2 DEF JobStep, PutBack, SubmitJob, TypeOK
    <3>3. CASE NewEpoch \/ TimerFires \/ ProcessStep
      BY <3>3 DEF NewEpoch, TimerFires, ProcessStep, Crash, Shutdown, Closed,
                  Restart, ExitProcess, TypeOK
    <3>4. CASE \E c \in Callers : CallStep(c) \/ CallFails(c)
      BY <3>4 DEF CallStep, CallFails, ReadLedger, ReadEpoch, Decide, Pause,
                  Arm, GetFailed, Retry, Resume, ExitProcess, TypeOK
    <3>5. CASE UNCHANGED vars
      BY <3>5 DEF vars
    <3> QED
      BY <3>1, <3>2, <3>3, <3>4, <3>5 DEF Next
  <2> QED
    BY <2>1 DEF OneUnderWay, Running
<1> QED
  BY <1>1, <1>2

LEMMA EpochsKept ==
    ASSUME TypeOK, IncludedHasEpoch, [Next]_vars
    PROVE  IncludedHasEpoch'
<1> USE DEF IncludedHasEpoch
<1>1. ASSUME NEW i \in Jobs, Include(i) PROVE IncludedHasEpoch'
  BY <1>1 DEF Include, TypeOK
<1>2. ASSUME NEW i \in Jobs, Count(i) \/ MissCount(i) PROVE IncludedHasEpoch'
  BY <1>2 DEF Count, MissCount, TypeOK, chainVars
<1>3. ASSUME NEW i \in Jobs, JobStep(i) PROVE IncludedHasEpoch'
  BY <1>3 DEF JobStep, TakeJob, PutBack, SubmitJob, TypeOK, chainVars
<1>4. CASE ProcessStep \/ \E i \in Jobs : CrashUncommitted(i)
  BY <1>4 DEF ProcessStep, Crash, Shutdown, Closed, Restart, CrashUncommitted,
              ExitProcess, TypeOK, chainVars
<1>5. CASE NewEpoch \/ TimerFires
  BY <1>5 DEF NewEpoch, TimerFires, chainVars
<1>6. CASE \E c \in Callers : CallStep(c) \/ CallFails(c)
  BY <1>6 DEF CallStep, CallFails, ReadLedger, ReadEpoch, Decide, Pause, Arm,
              GetFailed, Retry, Resume, ExitProcess, TypeOK, chainVars
<1>7. CASE UNCHANGED vars
  BY <1>7 DEF vars, chainVars
<1> QED
  BY <1>1, <1>2, <1>3, <1>4, <1>5, <1>6, <1>7 DEF Next, ChainStep

\* No step but Count changes which extrinsics were counted, and none lowers a
\* counter.
LEMMA CountedKept ==
    ASSUME TypeOK, IncludedHasEpoch, [Next]_vars, \A i \in Jobs : ~Count(i),
           NEW e \in Epochs
    PROVE  Counted(e)' = Counted(e) /\ counted'[e] >= counted[e]
<1> USE DEF Counted, IncludedIn
<1>1. ASSUME NEW i \in Jobs, Include(i) \/ MissCount(i)
      PROVE Counted(e)' = Counted(e) /\ counted'[e] >= counted[e]
  BY <1>1 DEF Include, MissCount, TypeOK, chainVars
<1>2. ASSUME NEW i \in Jobs, CrashUncommitted(i)
      PROVE Counted(e)' = Counted(e) /\ counted'[e] >= counted[e]
  <2>1. Counted(e)' = Counted(e)
    BY <1>2 DEF CrashUncommitted, ExitProcess, TypeOK, chainVars
  <2>2. counted'[e] = counted[e] \/ counted'[e] = counted[e] + Cost
    BY <1>2 DEF CrashUncommitted, AddToCounter, TypeOK
  <2>3. counted[e] \in Nat
    BY DEF TypeOK
  <2> QED
    BY <2>1, <2>2, <2>3, AmountsAssumption
<1>3. ASSUME NEW i \in Jobs, JobStep(i)
      PROVE Counted(e)' = Counted(e) /\ counted'[e] >= counted[e]
  BY <1>3 DEF JobStep, TakeJob, PutBack, SubmitJob, TypeOK, chainVars
<1>4. CASE ProcessStep
  BY <1>4 DEF ProcessStep, Crash, Shutdown, Closed, Restart, ExitProcess,
              TypeOK, chainVars
<1>5. CASE NewEpoch \/ TimerFires
  BY <1>5 DEF NewEpoch, TimerFires, TypeOK, chainVars
<1>6. CASE \E c \in Callers : CallStep(c) \/ CallFails(c)
  BY <1>6 DEF CallStep, CallFails, ReadLedger, ReadEpoch, Decide, Pause, Arm,
              GetFailed, Retry, Resume, ExitProcess, TypeOK, chainVars
<1>7. CASE UNCHANGED vars
  BY <1>7 DEF vars, chainVars, TypeOK
<1> QED
  BY <1>1, <1>2, <1>3, <1>4, <1>5, <1>6, <1>7 DEF Next, ChainStep

\* Sets of jobs are finite.
LEMMA CountedFinite ==
    ASSUME NEW S \in SUBSET Jobs
    PROVE  IsFiniteSet(S) /\ Cardinality(S) \in Nat
BY JobsAssumption, FS_Subset, FS_CardinalityType

LEMMA CoverKept ==
    ASSUME TypeOK, IncludedHasEpoch, CounterCovers, [Next]_vars
    PROVE  CounterCovers'
<1> SUFFICES ASSUME NEW e \in Epochs
             PROVE  Cost * Cardinality(Counted(e)') <= counted'[e]
  BY DEF CounterCovers
<1>1. Counted(e) \in SUBSET Jobs /\ counted[e] \in Nat
  BY DEF Counted, IncludedIn, TypeOK
<1>2. IsFiniteSet(Counted(e)) /\ Cardinality(Counted(e)) \in Nat
  BY <1>1, CountedFinite
<1>3. Cost * Cardinality(Counted(e)) <= counted[e]
  BY DEF CounterCovers
<1>4. CASE \A i \in Jobs : ~Count(i)
  <2>1. Counted(e)' = Counted(e) /\ counted'[e] >= counted[e]
    BY <1>4, CountedKept
  <2>2. Cost * Cardinality(Counted(e)) \in Int
    BY <1>2, AmountsAssumption
  <2>3. counted'[e] \in Nat
    <3>1. TypeOK'
      BY TypeStep
    <3> QED
      BY <3>1 DEF TypeOK
  <2> QED
    BY <1>1, <1>3, <2>1, <2>2, <2>3
<1>5. ASSUME NEW i \in Jobs, Count(i)
      PROVE  Cost * Cardinality(Counted(e)') <= counted'[e]
  <2>1. CASE inEpoch[i] = e
    <3>1. Counted(e)' = Counted(e) \cup {i} /\ i \notin Counted(e)
      BY <1>5, <2>1 DEF Count, Counted, IncludedIn, TypeOK, chainVars
    <3>2. Cardinality(Counted(e)') = Cardinality(Counted(e)) + 1
      BY <1>2, <3>1, FS_AddElement
    <3>3. counted'[e] = counted[e] + Cost
      BY <1>5, <2>1 DEF Count, AddToCounter, TypeOK
    <3>4. Cost * (Cardinality(Counted(e)) + 1) = Cost * Cardinality(Counted(e)) + Cost
      BY <1>2, AmountsAssumption
    <3>5. Cost * Cardinality(Counted(e)) \in Int
      BY <1>2, AmountsAssumption
    <3> QED
      BY <1>1, <1>3, <3>2, <3>3, <3>4, <3>5, AmountsAssumption
  <2>2. CASE inEpoch[i] # e
    <3>1. Counted(e)' = Counted(e) /\ counted'[e] = counted[e]
      BY <1>5, <2>2 DEF Count, AddToCounter, Counted, IncludedIn, TypeOK, chainVars
    <3> QED
      BY <1>3, <3>1
  <2> QED
    BY <2>1, <2>2
<1> QED
  BY <1>4, <1>5

\* The decision that lets a job pass: what the counter had is below the limit,
\* and every extrinsic that it had not is remembered as unseen.
LEMMA PassKeepsKnown ==
    ASSUME TypeOK, OneUnderWay, IncludedHasEpoch, CounterCovers, LimitTypes,
           Decide("job"), Passes, Remember, NEW e \in Epochs, e = ep["job"],
           Passed(e)' # {}
    PROVE  \E known \in SUBSET Jobs, last \in Jobs :
              /\ Cost * Cardinality(known) < Limit
              /\ Passed(e)' \subseteq known \cup unseen'[e] \cup {last}
<1>1. Cost * Cardinality(Counted(e)) < Limit
  <2>1. counted[e] < Limit
    <3>1. ~(rem["job"] <= 0 \/ counted[e] >= Limit)
      BY DEF Decide, Passes, TypeOK, Callers
    <3> QED
      BY <3>1, LimitIsNat DEF TypeOK
  <2>2. Cardinality(Counted(e)) \in Nat
    BY CountedFinite DEF Counted, IncludedIn
  <2>3. Cost * Cardinality(Counted(e)) \in Int
    BY <2>2, AmountsAssumption
  <2> QED
    BY <2>1, <2>3, LimitIsNat DEF CounterCovers, TypeOK
<1>2. UNCHANGED <<job, inEpoch>>
  BY DEF Decide, chainVars
<1>3. unseen'[e] = NotCounted(e)
  BY DEF Remember, LimitTypes
<1>4. ASSUME NEW j \in Passed(e)', job[j] # "active"
      PROVE  j \in Counted(e) \cup unseen'[e]
  BY <1>2, <1>3, <1>4 DEF Passed, Counted, NotCounted, IncludedIn,
     IncludedHasEpoch
<1>5. PICK last \in Jobs : \A j \in Running : j = last
  <2>1. PICK j \in Jobs : j \in Passed(e)'
    BY DEF Passed
  <2> QED
    BY <2>1 DEF OneUnderWay, Running
<1>6. Passed(e)' \subseteq Counted(e) \cup unseen'[e] \cup {last}
  BY <1>2, <1>4, <1>5 DEF Passed, Running
<1>7. Counted(e) \in SUBSET Jobs
  BY DEF Counted, IncludedIn
<1> QED
  BY <1>1, <1>6, <1>7

\* Every other step, and for every other epoch, leaves nobody who had not
\* passed before.
LEMMA NobodyElsePasses ==
    ASSUME TypeOK, LimitTypes, [Next]_vars, Remember, NEW e \in Epochs,
           ~Passes \/ e # ep["job"]
    PROVE  Passed(e)' \subseteq Passed(e) /\ unseen'[e] = unseen[e]
<1>1. unseen'[e] = unseen[e]
  BY DEF Remember, LimitTypes
<1>2. ASSUME NEW j \in Jobs, j \in Passed(e)' PROVE j \in Passed(e)
  <2>1. passedFor'[j] = e /\ e # 0
    BY <1>2 DEF Passed, Epochs
  <2>2. passedFor[j] = e /\ ~(job[j] = "wait" /\ job'[j] = "active")
    BY <2>1 DEF Remember
  <2>3. job'[j] \in {"active", "pooled"} => job[j] \in {"active", "pooled"}
    BY <2>2, JobsMove
  <2>4. inEpoch'[j] = e => inEpoch[j] = e \/ job[j] = "pooled"
    BY JobsMove
  <2> QED
    BY <1>2, <2>2, <2>3, <2>4 DEF Passed
<1> QED
  BY <1>1, <1>2 DEF Passed

LEMMA KnownKept ==
    ASSUME TypeOK, LimitInv, [Next]_vars, Remember
    PROVE  PassedAreKnown'
<1> USE DEF LimitInv
<1> SUFFICES ASSUME NEW e \in Epochs, Passed(e)' # {}
             PROVE  \E known \in SUBSET Jobs, last \in Jobs :
                      /\ Cost * Cardinality(known) < Limit
                      /\ Passed(e)' \subseteq known \cup unseen'[e] \cup {last}
  BY DEF PassedAreKnown
<1>1. CASE Passes /\ e = ep["job"]
  BY <1>1, PassesIsDecide, PassKeepsKnown
<1>2. CASE ~Passes \/ e # ep["job"]
  <2>1. Passed(e)' \subseteq Passed(e) /\ unseen'[e] = unseen[e]
    BY <1>2, NobodyElsePasses
  <2> QED
    BY <2>1 DEF PassedAreKnown
<1> QED
  BY <1>1, <1>2

LEMMA LimitTypesKept ==
    ASSUME TypeOK, LimitTypes, Remember
    PROVE  LimitTypes'
<1>1. \A e \in Epochs : NotCounted(e) \in SUBSET Jobs
  BY DEF NotCounted, IncludedIn
<1>2. ep["job"] \in Epochs /\ Epochs \subseteq 0..MaxEpoch /\ 0 \in 0..MaxEpoch
  BY BoundsAssumption DEF TypeOK, Callers, Epochs
<1>3. passedFor' \in [Jobs -> 0..MaxEpoch]
  BY <1>2 DEF Remember, LimitTypes
<1>4. unseen' \in [Epochs -> SUBSET Jobs]
  BY <1>1, <1>2 DEF Remember, LimitTypes
<1> QED
  BY <1>3, <1>4 DEF LimitTypes

\* What the known ones, the unseen ones and the strays may spend together.
LEMMA SpentBound ==
    ASSUME NEW S \in SUBSET Jobs, NEW known \in SUBSET Jobs, NEW U \in SUBSET Jobs,
           NEW last \in Jobs, S \subseteq known \cup U \cup {last},
           Cost * Cardinality(known) < Limit
    PROVE  Cost * Cardinality(S) < Limit + Cost * (1 + Cardinality(U))
<1> DEFINE KU == known \cup U
<1>1. IsFiniteSet(known) /\ IsFiniteSet(U) /\ IsFiniteSet(KU) /\ IsFiniteSet(S)
  BY CountedFinite
<1>2. /\ Cardinality(known) \in Nat /\ Cardinality(U) \in Nat
      /\ Cardinality(KU) \in Nat /\ Cardinality(S) \in Nat
  BY CountedFinite
<1>3. Cardinality(KU) <= Cardinality(known) + Cardinality(U)
  <2>1. /\ Cardinality(KU) = Cardinality(known) + Cardinality(U)
                                - Cardinality(known \cap U)
        /\ Cardinality(known \cap U) \in Nat
    BY <1>1, FS_Union, CountedFinite
  <2> QED
    BY <1>2, <2>1
<1>4. Cardinality(S) <= Cardinality(KU) + 1
  <2>1. IsFiniteSet(KU \cup {last}) /\ Cardinality(S) <= Cardinality(KU \cup {last})
    BY <1>1, FS_AddElement, FS_Subset
  <2>2. Cardinality(KU \cup {last}) \in {Cardinality(KU), Cardinality(KU) + 1}
    BY <1>1, FS_AddElement
  <2> QED
    BY <1>2, <2>1, <2>2
<1> DEFINE n == Cardinality(S)
           k == Cardinality(known)
           u == Cardinality(U)
<1>5. n \in Nat /\ k \in Nat /\ u \in Nat /\ n <= k + (1 + u)
  BY <1>2, <1>3, <1>4
<1>6. Cost * k < Limit
  OBVIOUS
<1> HIDE DEF n, k, u
<1>7. Cost * n <= Cost * (k + (1 + u))
  BY <1>5, AmountsAssumption
<1>8. Cost * (k + (1 + u)) = Cost * k + Cost * (1 + u)
  BY <1>5, AmountsAssumption
<1>9. Cost * n \in Int /\ Cost * k \in Int /\ Cost * (1 + u) \in Int
  BY <1>5, AmountsAssumption
<1>10. Cost * n < Limit + Cost * (1 + u)
  BY <1>6, <1>7, <1>8, <1>9, LimitIsNat
<1> QED
  BY <1>10 DEF n, k, u

LEMMA LimitFollows ==
    ASSUME LimitInv
    PROVE  LimitKept
<1> SUFFICES ASSUME NEW e \in Epochs
             PROVE  Cost * Cardinality(IncludedIn(e))
                      < Limit + Cost * (1 + Cardinality(unseen[e] \cup Strays(e)))
  BY DEF LimitKept
<1> DEFINE U == unseen[e] \cup Strays(e)
<1>1. IncludedIn(e) \in SUBSET Jobs /\ U \in SUBSET Jobs
  BY DEF IncludedIn, Strays, LimitInv, LimitTypes
<1>2. CASE Passed(e) = {}
  <2>1. IncludedIn(e) \subseteq U
    BY <1>2 DEF Passed, Strays, IncludedIn
  <2> HIDE DEF U
  <2>2. IsFiniteSet(U) /\ Cardinality(IncludedIn(e)) <= Cardinality(U)
    BY <1>1, <2>1, FS_Subset, JobsAssumption
  <2> DEFINE n == Cardinality(IncludedIn(e))
             u == Cardinality(U)
  <2>3. n \in Nat /\ u \in Nat /\ n <= u
    BY <1>1, <2>1, <2>2, FS_Subset, FS_CardinalityType
  <2> HIDE DEF n, u
  <2>4. Cost * n <= Cost * u /\ Cost * (1 + u) = Cost + Cost * u
    BY <2>3, AmountsAssumption
  <2>5. Cost * n \in Int /\ Cost * u \in Int
    BY <2>3, AmountsAssumption
  <2>6. Cost * n < Limit + Cost * (1 + u)
    BY <2>4, <2>5, LimitIsNat, AmountsAssumption
  <2> QED
    BY <2>6 DEF n, u, U
<1>3. CASE Passed(e) # {}
  <2>1. PICK known \in SUBSET Jobs, last \in Jobs :
                /\ Cost * Cardinality(known) < Limit
                /\ Passed(e) \subseteq known \cup unseen[e] \cup {last}
    BY <1>3 DEF LimitInv, PassedAreKnown
  <2>2. IncludedIn(e) \subseteq known \cup U \cup {last}
    BY <2>1 DEF Passed, Strays, IncludedIn
  <2> HIDE DEF U
  <2>3. Cost * Cardinality(IncludedIn(e)) < Limit + Cost * (1 + Cardinality(U))
    BY <1>1, <2>1, <2>2, SpentBound
  <2> QED
    BY <2>3 DEF U
<1> QED
  BY <1>2, <1>3

LEMMA LimitStarts ==
    ASSUME LimitInit
    PROVE  LimitInv
<1>1. LimitTypes /\ OneUnderWay
  BY BoundsAssumption DEF LimitInit, Init, LimitTypes, OneUnderWay, Running
<1>2. IncludedHasEpoch
  BY DEF LimitInit, Init, IncludedHasEpoch, Epochs
<1>3. CounterCovers
  <2>1. \A e \in Epochs : Counted(e) = {}
    BY DEF LimitInit, Init, Counted, IncludedIn, Epochs
  <2>2. Cost * Cardinality({}) = 0
    BY FS_EmptySet, AmountsAssumption
  <2>3. \A e \in Epochs : counted[e] = 0
    BY DEF LimitInit, Init
  <2> QED
    BY <2>1, <2>2, <2>3 DEF CounterCovers
<1>4. PassedAreKnown
  BY DEF LimitInit, PassedAreKnown, Passed, Epochs
<1> QED
  BY <1>1, <1>2, <1>3, <1>4 DEF LimitInv

\* CAPACITY_LIMIT is overspent by no more than the last extrinsic, those its
\* check could not know of, and those that reached the epoch unchecked.
THEOREM LimitHolds == LimitSpec => []LimitKept
<1>1. LimitSpec => []TypeOK
  <2>1. LimitInit => Init
    BY DEF LimitInit
  <2>2. [LimitNext]_limitVars => [Next]_vars
    BY DEF LimitNext, limitVars
  <2> QED
    BY <2>1, <2>2, TypeCorrect, PTL DEF LimitSpec, Spec
<1>2. LimitInit => LimitInv
  BY LimitStarts
<1>3. TypeOK /\ LimitInv /\ [LimitNext]_limitVars => LimitInv'
  <2> SUFFICES ASSUME TypeOK, LimitInv, [LimitNext]_limitVars PROVE LimitInv'
    OBVIOUS
  <2>1. CASE LimitNext
    <3>1. [Next]_vars /\ Remember
      BY <2>1 DEF LimitNext
    <3>2. LimitTypes'
      BY <3>1, LimitTypesKept DEF LimitInv
    <3>3. OneUnderWay' /\ IncludedHasEpoch' /\ CounterCovers'
      BY <3>1, OneKept, EpochsKept, CoverKept DEF LimitInv
    <3>4. PassedAreKnown'
      BY <3>1, KnownKept
    <3> QED
      BY <3>2, <3>3, <3>4 DEF LimitInv
  <2>2. CASE UNCHANGED limitVars
    <3>1. UNCHANGED <<job, inEpoch, counted, passedFor, unseen>>
      BY <2>2 DEF limitVars, vars, chainVars
    <3> QED
      BY <3>1 DEF LimitInv, LimitTypes, OneUnderWay, Running, IncludedHasEpoch,
                  CounterCovers, Counted, IncludedIn, PassedAreKnown, Passed
  <2> QED
    BY <2>1, <2>2
<1>4. LimitInv => LimitKept
  BY LimitFollows
<1> QED
  BY <1>1, <1>2, <1>3, <1>4, PTL DEF LimitSpec

=============================================================================
