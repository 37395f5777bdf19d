---------------------------- MODULE RedisWatchdog ----------------------------
(***************************************************************************)
(* How a process of the service lives with its Redis connection: the       *)
(* bootstrap() of the API and of the worker (main.ts), with the timeout    *)
(* that ends a process whose connection is not there.  The client's events *)
(* reach the handlers through the event emitter (redis.ts), and only those *)
(* that come after the application was created and the handlers added.     *)
(*                                                                         *)
(* Time is a countdown: Timeout ticks stand for the 30 seconds.            *)
(***************************************************************************)
EXTENDS Integers, FiniteSets

CONSTANT Timeout    \* 30_000

ASSUME TimeoutAssumption == Timeout \in Nat \ {0}

VARIABLES
    kind,       \* "api" or "worker"
    phase,      \* "creating", "serving", "closing", "killed", "closed"
    link,       \* the client's connection is up
    redisReady, \* of redis.ts
    pending,    \* the time left of each timeout that was set and not cleared
    handle,     \* redisConnectTimeout: a timeout's time left, or Null
    \* history, read by properties only
    down,       \* for how long the connection has been down, Timeout if longer
    missed,     \* a ready event came too early, and none since the handlers
    wired       \* the handlers were added

vars == <<kind, phase, link, redisReady, pending, handle, down, missed, wired>>

Null == -1
Alive == phase \in {"creating", "serving", "closing"}

TypeOK ==
    /\ kind \in {"api", "worker"}
    /\ phase \in {"creating", "serving", "closing", "killed", "closed"}
    /\ link \in BOOLEAN /\ redisReady \in BOOLEAN
    /\ pending \subseteq 0..Timeout /\ Cardinality(pending) <= 1
    /\ handle \in pending \cup {Null}
    /\ down \in 0..Timeout
    /\ missed \in BOOLEAN /\ wired \in BOOLEAN

Start ==
    /\ phase = "creating" /\ wired = FALSE
    /\ link = FALSE /\ redisReady = FALSE
    /\ pending = {Timeout} /\ handle = Timeout
    /\ down = 0 /\ missed = FALSE

Init == kind \in {"api", "worker"} /\ Start

-----------------------------------------------------------------------------
(* bootstrap(): the handlers, and what they do                             *)

\* Mutant: the variable keeps the timeout that was cleared.
ClearKeepsHandle ==
    /\ pending' = IF handle = Null THEN pending ELSE pending \ {handle}
    /\ UNCHANGED handle

\* if (redisConnectTimeout !== null): clearTimeout, and forget it.
Clear ==
    /\ pending' = pending \ {handle}
    /\ handle' = Null

\* The redis.ready handler, if it has been added.
Heard == IF wired THEN Clear ELSE UNCHANGED <<pending, handle>>

\* The application is created, and the handlers are added in one go.  The
\* worker asks redisReady whether the first ready event came before.
Created ==
    /\ phase = "creating"
    /\ phase' = "serving" /\ wired' = TRUE
    /\ IF kind = "worker" /\ redisReady THEN Clear ELSE UNCHANGED <<pending, handle>>
    /\ missed' = (kind = "api" /\ redisReady)
    /\ UNCHANGED <<kind, link, redisReady, down>>

\* The client's ready event.
Ready ==
    /\ Alive /\ ~link
    /\ link' = TRUE /\ down' = 0
    /\ redisReady' = TRUE
    /\ Heard
    /\ missed' = (missed /\ ~wired)
    /\ UNCHANGED <<kind, phase, wired>>

\* Mutant: a new timeout whether or not there is one.
ArmAgain == pending' = pending \cup {Timeout} /\ handle' = Timeout

\* if (redisConnectTimeout === null): set it.
Arm ==
    IF handle = Null THEN pending' = {Timeout} /\ handle' = Timeout
                     ELSE UNCHANGED <<pending, handle>>

\* The client's close event: of a connection that is lost, or of an attempt
\* to connect again that failed.  The client does not give up.
Close ==
    /\ Alive
    /\ link' = FALSE
    /\ IF wired THEN Arm ELSE UNCHANGED <<pending, handle>>
    /\ UNCHANGED <<kind, phase, redisReady, down, missed, wired>>

\* The shutdown event or a signal: app.close().
Shutdown ==
    /\ phase = "serving"
    /\ phase' = "closing"
    /\ UNCHANGED <<kind, link, redisReady, pending, handle, down, missed, wired>>

Closed ==
    /\ phase = "closing"
    /\ phase' = "closed"
    /\ pending' = {} /\ handle' = Null
    /\ UNCHANGED <<kind, link, redisReady, down, missed, wired>>

-----------------------------------------------------------------------------
(* Time                                                                    *)

\* A timeout is not late.
Tick ==
    /\ Alive /\ 0 \notin pending
    /\ pending' = {t - 1 : t \in pending}
    /\ handle' = IF handle \in pending THEN handle - 1 ELSE handle
    /\ down' = IF link THEN 0 ELSE IF down = Timeout THEN Timeout ELSE down + 1
    /\ UNCHANGED <<kind, phase, link, redisReady, missed, wired>>

\* process.exit(1)
Fire ==
    /\ Alive /\ 0 \in pending
    /\ phase' = "killed"
    /\ UNCHANGED <<kind, link, redisReady, pending, handle, down, missed, wired>>

\* restart: on-failure
Restart ==
    /\ phase = "killed"
    /\ phase' = "creating" /\ wired' = FALSE
    /\ link' = FALSE /\ redisReady' = FALSE
    /\ pending' = {Timeout} /\ handle' = Timeout
    /\ down' = 0 /\ missed' = FALSE
    /\ UNCHANGED kind

-----------------------------------------------------------------------------
Next ==
    \/ Created \/ Ready \/ Close \/ Shutdown \/ Closed
    \/ Tick \/ Fire \/ Restart

Spec == Init /\ [][Next]_vars

\* The clock goes on, timers fire, a close ends, and while the client has no
\* connection it tries again and again.
FairSpec ==
    /\ Spec
    /\ WF_vars(Tick) /\ WF_vars(Fire) /\ WF_vars(Closed) /\ WF_vars(Restart)
    /\ WF_vars(Close /\ ~link)

-----------------------------------------------------------------------------
(* Properties                                                              *)

\* A process that was created is killed by the timeout only if Redis has been
\* away for all of it; or it is an API, whose ready event came before there
\* was a handler: no matter how Redis has been since, until a ready event that
\* is heard.
KilledForCause ==
    phase = "killed" /\ wired => down = Timeout \/ (kind = "api" /\ missed)

\* A process without Redis does not stay: Redis comes back, or it ends, also
\* if the connection was lost while the application was being created.
NoLimbo == Alive /\ ~link ~> link \/ ~Alive

=============================================================================
