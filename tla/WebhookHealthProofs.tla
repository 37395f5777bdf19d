------------------------ MODULE WebhookHealthProofs -------------------------
(***************************************************************************)
(* Proofs about WebhookHealth, for any number of unhealthy events and of   *)
(* turns of the provider, and any settings of retries and threshold.       *)
(***************************************************************************)
EXTENDS WebhookHealth, TLAPS

\* The runs of checks: each has a timeout or a request under way.
Runs == stray + asking + (IF entry = "pending" THEN 1 ELSE 0)

Types ==
    /\ fails \in Nat /\ succs \in Nat
    /\ entry \in {"none", "pending", "fired"}
    /\ stray \in Nat /\ asking \in Nat
    /\ process \in {"up", "closing", "destroyed", "crashed"}
    /\ good \in BOOLEAN /\ resumed \in BOOLEAN
    /\ events \in 0..MaxEvents /\ turns \in 0..MaxTurns

\* An event starts at most one run, and a run that goes on has not counted up
\* to its end: so the counters pass it by at most one for each run that ended.
RunsAreCounted ==
    /\ Runs <= events
    /\ fails + Runs <= MaxRetries + events
    /\ succs + Runs <= Threshold + events

\* The counter that the runs share counts good answers in a row.
CountIsStreak == streak = succs /\ earned = TRUE

\* Once there was a run the registry has an entry, until onModuleDestroy.
EntryIsKept == process \in {"up", "closing"} /\ events > 0 => entry # "none"

IInv == Types /\ RunsAreCounted /\ CountIsStreak /\ EntryIsKept

LEMMA TypesFromInv == ASSUME IInv PROVE TypeOK
<1>1. fails \in 0..(MaxRetries + MaxEvents) /\ succs \in 0..(Threshold + MaxEvents)
      /\ stray \in 0..MaxEvents /\ asking \in 0..MaxEvents
  BY SettingsAssumption, BoundsAssumption DEF IInv, Types, RunsAreCounted, Runs
<1>2. streak \in 0..(Threshold + MaxEvents)
  BY <1>1 DEF IInv, CountIsStreak
<1>3. earned \in BOOLEAN
  BY DEF IInv, CountIsStreak
<1> QED
  BY <1>1, <1>2, <1>3 DEF IInv, Types, TypeOK

LEMMA InitInv == Init => IInv
<1> SUFFICES ASSUME Init PROVE IInv
  OBVIOUS
<1>1. good \in BOOLEAN /\ resumed \in BOOLEAN
  BY DEF Init
<1>2. Types
  BY <1>1, SettingsAssumption, BoundsAssumption DEF Init, Types
<1>3. RunsAreCounted /\ CountIsStreak /\ EntryIsKept
  BY SettingsAssumption DEF Init, RunsAreCounted, Runs, CountIsStreak, EntryIsKept
<1> QED
  BY <1>2, <1>3 DEF IInv

\* An event starts a run.
LEMMA StartKeepsInv == ASSUME IInv, Start PROVE IInv'
<1> USE SettingsAssumption, BoundsAssumption
<1>1. resumed' \in BOOLEAN
  BY DEF Start
<1>2. Types'
  BY <1>1 DEF IInv, Types, Start, AddTimeout
<1>3. Runs' = Runs + 1 /\ Runs \in Nat
  BY DEF IInv, Types, Runs, Start, AddTimeout
<1>4. RunsAreCounted'
  BY <1>2, <1>3 DEF IInv, Types, RunsAreCounted, Start
<1>5. CountIsStreak' /\ EntryIsKept'
  BY DEF IInv, Types, CountIsStreak, EntryIsKept, Start, AddTimeout
<1> QED
  BY <1>2, <1>4, <1>5 DEF IInv

\* A timeout becomes a request.
LEMMA FireKeepsInv == ASSUME IInv, Fire PROVE IInv'
<1>1. Types' /\ Runs' = Runs
  BY DEF IInv, Types, Runs, Fire
<1>2. RunsAreCounted' /\ CountIsStreak' /\ EntryIsKept'
  BY <1>1 DEF IInv, RunsAreCounted, CountIsStreak, EntryIsKept, Fire
<1> QED
  BY <1>1, <1>2 DEF IInv

\* An answer ends a run, which goes on with at most one timeout.
LEMMA AnswerKeepsInv == ASSUME IInv, AnswerBad \/ AnswerGood PROVE IInv'
<1> USE SettingsAssumption, BoundsAssumption
<1>1. CASE AnswerBad
  <2>1. Types'
    BY <1>1 DEF IInv, Types, AnswerBad, CountBad, Again
  <2>2. Runs' <= Runs /\ (GivesUp => Runs' = Runs - 1)
    BY <1>1 DEF IInv, Types, Runs, AnswerBad, Again
  <2>3. RunsAreCounted'
    <3>1. CASE GivesUp
      BY <1>1, <2>1, <2>2, <3>1 DEF IInv, Types, RunsAreCounted, Runs, AnswerBad, CountBad
    <3>2. CASE ~GivesUp
      BY <1>1, <2>1, <2>2, <3>2
         DEF IInv, Types, RunsAreCounted, Runs, AnswerBad, CountBad, GivesUp
    <3> QED
      BY <3>1, <3>2
  <2>4. CountIsStreak' /\ EntryIsKept'
    BY <1>1 DEF IInv, Types, CountIsStreak, EntryIsKept, AnswerBad, CountBad, Again
  <2> QED
    BY <2>1, <2>3, <2>4 DEF IInv
<1>2. CASE AnswerGood
  <2>1. Types'
    <3>1. resumed' \in BOOLEAN
      BY <1>2 DEF IInv, Types, AnswerGood
    <3> QED
      BY <1>2, <3>1 DEF IInv, Types, AnswerGood, Healthy, Again
  <2>2. Runs' <= Runs /\ (Enough => Runs' = Runs - 1)
    BY <1>2 DEF IInv, Types, Runs, AnswerGood, Healthy, Again
  <2>3. RunsAreCounted'
    <3>1. CASE Enough
      BY <1>2, <2>1, <2>2, <3>1 DEF IInv, Types, RunsAreCounted, Runs, AnswerGood
    <3>2. CASE ~Enough
      BY <1>2, <2>1, <2>2, <3>2
         DEF IInv, Types, RunsAreCounted, Runs, AnswerGood, Enough
    <3> QED
      BY <3>1, <3>2
  <2>4. CountIsStreak'
    <3>1. streak' = succs' /\ (Enough => streak' >= Threshold)
      BY <1>2 DEF IInv, CountIsStreak, AnswerGood, Enough
    <3> QED
      BY <1>2, <3>1 DEF IInv, CountIsStreak, AnswerGood
  <2>5. EntryIsKept'
    BY <1>2 DEF IInv, Types, EntryIsKept, AnswerGood, Healthy, Again
  <2> QED
    BY <2>1, <2>3, <2>4, <2>5 DEF IInv
<1> QED
  BY <1>1, <1>2

\* The end of the worker, and the provider.
LEMMA OthersKeepInv == ASSUME IInv, Shutdown \/ Destroy \/ Turn PROVE IInv'
<1> USE SettingsAssumption, BoundsAssumption
<1>1. CASE Shutdown
  BY <1>1 DEF IInv, Types, RunsAreCounted, Runs, CountIsStreak, EntryIsKept, Shutdown
<1>2. CASE Destroy
  <2>1. Types' /\ Runs' <= Runs /\ Runs' \in Nat
    BY <1>2 DEF IInv, Types, Runs, Destroy
  <2>2. RunsAreCounted'
    BY <1>2, <2>1 DEF IInv, Types, RunsAreCounted, Runs, Destroy
  <2> QED
    BY <1>2, <2>1, <2>2 DEF IInv, CountIsStreak, EntryIsKept, Destroy
<1>3. CASE Turn
  <2>1. good' \in BOOLEAN
    BY <1>3 DEF Turn, IInv, Types
  <2>2. turns' \in 0..MaxTurns
    BY <1>3 DEF Turn, IInv, Types
  <2> QED
    BY <1>3, <2>1, <2>2
       DEF IInv, Types, RunsAreCounted, Runs, CountIsStreak, EntryIsKept, Turn
<1> QED
  BY <1>1, <1>2, <1>3

LEMMA NextKeepsInv == ASSUME IInv, [Next]_vars PROVE IInv'
<1>1. CASE UNCHANGED vars
  BY <1>1 DEF IInv, Types, RunsAreCounted, Runs, CountIsStreak, EntryIsKept, vars
<1> QED
  BY <1>1, StartKeepsInv, FireKeepsInv, AnswerKeepsInv, OthersKeepInv DEF Next

\* The inductive invariant of the checks.
THEOREM ChecksCorrect == Spec => []IInv
BY InitInv, NextKeepsInv, PTL DEF Spec

\* Every variable keeps its type; the counters overshoot by a run per event.
THEOREM TypeCorrect == Spec => []TypeOK
<1>1. IInv => TypeOK
  BY TypesFromInv
<1> QED
  BY <1>1, ChecksCorrect, PTL

\* webhook.healthy comes only after enough good answers in a row.
THEOREM HealthIsEarned == Spec => []HealthyIsEarned
<1>1. IInv => HealthyIsEarned
  BY DEF IInv, CountIsStreak, HealthyIsEarned
<1> QED
  BY <1>1, ChecksCorrect, PTL

\* A check throws only if onModuleDestroy took the entry away under it.
THEOREM ThrowsOnlyAtTheEnd == Spec => NoThrowWhileUp
<1>1. ASSUME IInv, [Next]_vars
      PROVE  [process' = "crashed" => process = "destroyed"]_process
  <2>1. CASE AnswerBad \/ AnswerGood
    <3>1. asking > 0 => events > 0
      BY <1>1 DEF IInv, Types, RunsAreCounted, Runs
    <3>2. asking > 0 /\ process # "crashed"
      BY <2>1 DEF AnswerBad, AnswerGood
    <3>3. process' = "crashed" => entry = "none"
      BY <2>1, <3>2 DEF AnswerBad, AnswerGood, Again, Healthy
    <3> QED
      BY <1>1, <3>1, <3>2, <3>3 DEF IInv, Types, EntryIsKept
  <2>2. CASE Start \/ Fire \/ Turn \/ UNCHANGED vars
    BY <2>2 DEF Start, Fire, Turn, vars
  <2>3. CASE Shutdown \/ Destroy
    BY <2>3 DEF Shutdown, Destroy
  <2> QED
    BY <1>1, <2>1, <2>2, <2>3 DEF Next
<1> QED
  BY <1>1, ChecksCorrect, PTL DEF Spec, NoThrowWhileUp

=============================================================================
