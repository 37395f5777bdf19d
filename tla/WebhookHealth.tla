---------------------------- MODULE WebhookHealth ----------------------------
(***************************************************************************)
(* ProviderWebhookService: once the provider's webhook is declared         *)
(* unhealthy, its /health is asked again and again, until it has answered  *)
(* well often enough in a row, or badly so often that the worker is to     *)
(* shut down.  The next check is a timeout that the SchedulerRegistry      *)
(* keeps under one name.  Nothing under src/ emits webhook.unhealthy yet:  *)
(* here it is an event of the environment, which may come at any time,     *)
(* also during a check run.                                                *)
(*                                                                         *)
(* setTimeout is called before addTimeout finds the name taken and throws, *)
(* so a timeout may be pending that the registry does not know ("stray").  *)
(***************************************************************************)
EXTENDS Integers

CONSTANTS
    MaxRetries, \* healthCheckMaxRetries
    Threshold,  \* healthCheckSuccessThreshold
    MaxEvents,  \* bound: webhook.unhealthy events
    MaxTurns    \* bound: how often the provider turns good or bad

ASSUME SettingsAssumption == MaxRetries \in Nat /\ Threshold \in Nat \ {0}
ASSUME BoundsAssumption == MaxEvents \in Nat /\ MaxTurns \in Nat

VARIABLES
    fails,      \* failedHealthChecks
    succs,      \* successfulHealthChecks
    entry,      \* the registry's timeout: "none", "pending", "fired"
    stray,      \* pending timeouts that are not the registry's
    asking,     \* requests of /health under way
    process,    \* "up", "closing", "destroyed" (onModuleDestroy), "crashed"
    good,       \* the provider answers well
    \* history, read by properties only
    streak,     \* good answers since the last bad one or the last event
    earned,     \* every webhook.healthy came after enough of them
    resumed,    \* a webhook.healthy came since the last webhook.unhealthy
    events,
    turns

vars == <<fails, succs, entry, stray, asking, process, good, streak, earned,
          resumed, events, turns>>

TypeOK ==
    /\ fails \in 0..(MaxRetries + MaxEvents)
    /\ succs \in 0..(Threshold + MaxEvents)
    /\ entry \in {"none", "pending", "fired"}
    /\ stray \in 0..MaxEvents /\ asking \in 0..MaxEvents
    /\ process \in {"up", "closing", "destroyed", "crashed"}
    /\ good \in BOOLEAN
    /\ streak \in 0..(Threshold + MaxEvents)
    /\ earned \in BOOLEAN /\ resumed \in BOOLEAN
    /\ events \in 0..MaxEvents /\ turns \in 0..MaxTurns

Init ==
    /\ fails = 0 /\ succs = 0 /\ streak = 0
    /\ entry = "none" /\ stray = 0 /\ asking = 0
    /\ process = "up" /\ good \in BOOLEAN
    /\ earned = TRUE /\ resumed = TRUE /\ events = 0 /\ turns = 0

-----------------------------------------------------------------------------
(* The registry                                                            *)

\* addTimeout(name, setTimeout(...)): if the name is taken it throws, with
\* the timeout set.
AddTimeout ==
    IF entry = "none" THEN entry' = "pending" /\ UNCHANGED stray
                      ELSE stray' = stray + 1 /\ UNCHANGED entry

\* Mutant: the run that was under way is taken to go on, and no check follows
\* an event that finds the name taken (setTimeout moved after the addTimeout).
StartOnlyIfFree ==
    /\ process = "up" /\ events < MaxEvents
    /\ events' = events + 1
    /\ fails' = 0 /\ succs' = 0 /\ streak' = 0 /\ resumed' = FALSE
    /\ entry' = IF entry = "none" THEN "pending" ELSE entry
    /\ UNCHANGED <<stray, asking, process, good, earned, turns>>

\* startWebhookHealthCheck, on webhook.unhealthy.
Start ==
    /\ process = "up" /\ events < MaxEvents
    /\ events' = events + 1
    /\ fails' = 0 /\ succs' = 0 /\ streak' = 0 /\ resumed' = FALSE
    /\ AddTimeout
    /\ UNCHANGED <<asking, process, good, earned, turns>>

\* A timeout fires: checkProviderWebhook asks /health.
Fire ==
    /\ process \in {"up", "closing", "destroyed"}
    /\ \/ entry = "pending" /\ entry' = "fired" /\ UNCHANGED stray
       \/ stray > 0 /\ stray' = stray - 1 /\ UNCHANGED entry
    /\ asking' = asking + 1
    /\ UNCHANGED <<fails, succs, process, good, streak, earned, resumed, events, turns>>

\* deleteTimeout, which throws if there is none, and addTimeout: the rejection
\* of the check is unhandled, and the process exits.
Again ==
    IF entry = "none" THEN process' = "crashed" /\ UNCHANGED entry
                      ELSE entry' = "pending" /\ UNCHANGED process

-----------------------------------------------------------------------------
(* checkProviderWebhook, after its await                                   *)

\* Mutant: a bad answer does not end the count of good ones.
CountBadOnly == fails' = fails + 1 /\ UNCHANGED succs

CountBad == fails' = fails + 1 /\ succs' = 0

GivesUp == fails' >= MaxRetries

AnswerBad ==
    /\ process # "crashed" /\ asking > 0 /\ ~good
    /\ asking' = asking - 1
    /\ CountBad /\ streak' = 0
    /\ IF GivesUp
       THEN process' = (IF process = "up" THEN "closing" ELSE process) /\ UNCHANGED entry
       ELSE Again
    /\ UNCHANGED <<stray, good, earned, resumed, events, turns>>

\* Mutant: the run is over, so its entry is deleted.
HealthyDeletes == entry' = "none" /\ UNCHANGED process

\* Enough good answers: webhook.healthy.  The entry stays in the registry.
Healthy == UNCHANGED <<entry, process>>

\* Mutant: the run ends when the count is the threshold.
EnoughExactly == succs' = Threshold

Enough == succs' >= Threshold

AnswerGood ==
    /\ process # "crashed" /\ asking > 0 /\ good
    /\ asking' = asking - 1
    /\ succs' = succs + 1 /\ fails' = 0 /\ streak' = streak + 1
    /\ IF Enough
       THEN Healthy /\ resumed' = TRUE /\ earned' = (earned /\ streak' >= Threshold)
       ELSE Again /\ UNCHANGED <<resumed, earned>>
    /\ UNCHANGED <<stray, good, events, turns>>

-----------------------------------------------------------------------------
(* The end, and the provider                                               *)

\* A signal, or the shutdown of another part.
Shutdown ==
    /\ process = "up"
    /\ process' = "closing"
    /\ UNCHANGED <<fails, succs, entry, stray, asking, good, streak, earned,
                   resumed, events, turns>>

\* onModuleDestroy: the registry's timeout is cleared and deleted.
Destroy ==
    /\ process = "closing"
    /\ process' = "destroyed"
    /\ entry' = "none"
    /\ UNCHANGED <<fails, succs, stray, asking, good, streak, earned, resumed,
                   events, turns>>

Turn ==
    /\ turns < MaxTurns
    /\ turns' = turns + 1
    /\ good' = ~good
    /\ UNCHANGED <<fails, succs, entry, stray, asking, process, streak, earned,
                   resumed, events>>

Next == Start \/ Fire \/ AnswerBad \/ AnswerGood \/ Shutdown \/ Destroy \/ Turn

Spec == Init /\ [][Next]_vars

\* Timers fire and requests are answered.
FairSpec == Spec /\ WF_vars(Fire) /\ WF_vars(AnswerBad \/ AnswerGood)

-----------------------------------------------------------------------------
(* Properties                                                              *)

\* webhook.healthy comes only after Threshold good answers in a row since the
\* last bad one, and since the last webhook.unhealthy (the comment at line 55),
\* also when the answers belong to two runs of checks.
HealthyIsEarned == earned

\* deleteTimeout finds its entry, however many runs share it, unless
\* onModuleDestroy deleted it under a check: only a close is cut off by it.
NoThrowWhileUp == [][process' = "crashed" => process = "destroyed"]_process

\* After a webhook.unhealthy the provider's health is found out, even if the
\* event met another run: webhook.healthy, or the worker shuts down.
RunEnds == ~resumed ~> resumed \/ process # "up"

=============================================================================
