------------------------ MODULE RedisWatchdogProofs -------------------------
(***************************************************************************)
(* Proofs about RedisWatchdog, for any length of the timeout: there is     *)
(* never more than one timer, and it ends a process only with a cause.     *)
(***************************************************************************)
EXTENDS RedisWatchdog, FiniteSetTheorems, TLAPS

\* The timer that runs, if any, is the one that the variable remembers.
OneTimer ==
    /\ kind \in {"api", "worker"}
    /\ phase \in {"creating", "serving", "closing", "killed", "closed"}
    /\ link \in BOOLEAN /\ redisReady \in BOOLEAN
    /\ missed \in BOOLEAN /\ wired \in BOOLEAN
    /\ down \in 0..Timeout
    /\ handle \in 0..Timeout \cup {Null}
    /\ pending = IF handle = Null THEN {} ELSE {handle}

\* What each phase knows of the handlers, and of a ready event they missed.
Wiring ==
    /\ phase = "creating" => ~wired
    /\ phase \in {"serving", "closing"} => wired
    /\ ~wired => ~missed
    /\ missed => kind = "api"

\* The timer and the outage end together: as long as every ready event was
\* heard, or there was none, Redis has been away for as long as it runs.
CountsOutage ==
    /\ ~missed /\ (wired \/ ~redisReady) /\ handle # Null
          => ~link /\ down + handle >= Timeout
    /\ phase = "killed" => handle = 0

IInv == OneTimer /\ Wiring /\ CountsOutage

LEMMA TypesFromInv == ASSUME OneTimer PROVE TypeOK
<1>1. Cardinality({}) = 0 /\ Cardinality({handle}) = 1
  BY FS_EmptySet, FS_Singleton
<1>2. pending \subseteq 0..Timeout /\ handle \in pending \cup {Null}
  BY DEF OneTimer, Null
<1>3. Cardinality(pending) <= 1
  <2>1. CASE handle = Null
    BY <1>1, <2>1 DEF OneTimer
  <2>2. CASE handle # Null
    BY <1>1, <2>2 DEF OneTimer
  <2> QED
    BY <2>1, <2>2
<1> QED
  BY <1>2, <1>3 DEF TypeOK, OneTimer

LEMMA CauseFromInv == ASSUME IInv PROVE KilledForCause
BY TimeoutAssumption
   DEF IInv, OneTimer, Wiring, CountsOutage, KilledForCause, Null

\* A timer that was just set is one.
LEMMA FreshTimer ==
    ASSUME NEW h, NEW p, h = Timeout, p = {Timeout}
    PROVE  /\ h \in 0..Timeout \cup {Null} /\ h # Null
           /\ p = IF h = Null THEN {} ELSE {h}
BY TimeoutAssumption DEF Null

LEMMA InitInv == Init => IInv
<1> SUFFICES ASSUME Init PROVE IInv
  OBVIOUS
<1>1. OneTimer
  <2>1. link \in BOOLEAN /\ redisReady \in BOOLEAN /\ missed \in BOOLEAN
        /\ wired \in BOOLEAN
    BY DEF Init, Start
  <2>2. /\ handle \in 0..Timeout \cup {Null}
        /\ pending = IF handle = Null THEN {} ELSE {handle}
    BY FreshTimer DEF Init, Start
  <2> QED
    BY <2>1, <2>2, TimeoutAssumption DEF Init, Start, OneTimer
<1>2. Wiring /\ CountsOutage
  BY TimeoutAssumption DEF Init, Start, Wiring, CountsOutage
<1> QED
  BY <1>1, <1>2 DEF IInv

\* The handlers.
LEMMA HandlersKeepInv ==
    ASSUME IInv, Created \/ Ready \/ Close
    PROVE  IInv'
<1> USE TimeoutAssumption DEF Null
<1>1. CASE Created
  <2>1. OneTimer'
    BY <1>1 DEF IInv, OneTimer, Created, Clear
  <2>2. Wiring'
    BY <1>1 DEF IInv, OneTimer, Wiring, Created
  <2>3. CountsOutage'
    BY <1>1 DEF IInv, OneTimer, Wiring, CountsOutage, Created, Clear
  <2> QED
    BY <2>1, <2>2, <2>3 DEF IInv
<1>2. CASE Ready
  <2>1. OneTimer'
    BY <1>2 DEF IInv, OneTimer, Ready, Heard, Clear
  <2>2. Wiring'
    BY <1>2 DEF IInv, OneTimer, Wiring, Ready, Heard
  <2>3. CountsOutage'
    BY <1>2 DEF IInv, OneTimer, Wiring, CountsOutage, Ready, Heard, Clear, Alive
  <2> QED
    BY <2>1, <2>2, <2>3 DEF IInv
<1>3. CASE Close
  <2>1. OneTimer'
    <3>1. CASE handle = Null
      BY <1>3, <3>1, FreshTimer DEF IInv, OneTimer, Close, Arm
    <3>2. CASE handle # Null \/ ~wired
      BY <1>3, <3>2 DEF IInv, OneTimer, Close, Arm
    <3> QED
      BY <3>1, <3>2
  <2>2. Wiring'
    BY <1>3 DEF IInv, OneTimer, Wiring, Close
  <2>3. CountsOutage'
    BY <1>3 DEF IInv, OneTimer, Wiring, CountsOutage, Close, Arm, Alive
  <2> QED
    BY <2>1, <2>2, <2>3 DEF IInv
<1> QED
  BY <1>1, <1>2, <1>3

\* A tick takes one from the timer and adds one to the outage.
LEMMA TickKeepsInv == ASSUME IInv, Tick PROVE IInv'
<1> USE TimeoutAssumption DEF Null
<1>1. CASE handle = Null
  <2>1. pending' = {} /\ handle' = Null
    BY <1>1 DEF Tick, IInv, OneTimer
  <2> QED
    BY <1>1, <2>1 DEF Tick, IInv, OneTimer, Wiring, CountsOutage, Alive
<1>2. CASE handle # Null
  <2>1. /\ pending = {handle} /\ handle \in 1..Timeout
        /\ pending' = {handle'} /\ handle' = handle - 1
    BY <1>2 DEF Tick, IInv, OneTimer
  <2>2. OneTimer'
    BY <2>1 DEF Tick, IInv, OneTimer
  <2>3. Wiring' /\ (phase = "killed" => handle = 0)'
    BY <2>1 DEF Tick, IInv, Wiring, Alive
  <2>4. ASSUME ~missed', wired' \/ ~redisReady'
        PROVE  ~link' /\ down' + handle' >= Timeout
    BY <1>2, <2>1, <2>4 DEF Tick, IInv, OneTimer, CountsOutage
  <2> QED
    BY <2>2, <2>3, <2>4 DEF IInv, CountsOutage
<1> QED
  BY <1>1, <1>2

\* The ends of a process, and its restart.
LEMMA EndsKeepInv ==
    ASSUME IInv, Shutdown \/ Closed \/ Fire \/ Restart
    PROVE  IInv'
<1> USE TimeoutAssumption DEF Null
<1>1. CASE Shutdown
  BY <1>1 DEF IInv, OneTimer, Wiring, CountsOutage, Shutdown
<1>2. CASE Closed
  BY <1>2 DEF IInv, OneTimer, Wiring, CountsOutage, Closed
<1>3. CASE Fire
  <2>1. handle = 0
    BY <1>3 DEF Fire, IInv, OneTimer
  <2> QED
    BY <1>3, <2>1 DEF IInv, OneTimer, Wiring, CountsOutage, Fire
<1>4. CASE Restart
  <2>1. OneTimer'
    <3>1. /\ link' \in BOOLEAN /\ redisReady' \in BOOLEAN
          /\ missed' \in BOOLEAN /\ wired' \in BOOLEAN
      BY <1>4 DEF Restart
    <3>2. /\ handle' \in 0..Timeout \cup {Null}
          /\ pending' = IF handle' = Null THEN {} ELSE {handle'}
      BY <1>4, FreshTimer DEF Restart
    <3> QED
      BY <1>4, <3>1, <3>2 DEF IInv, OneTimer, Restart
  <2>2. Wiring' /\ CountsOutage'
    BY <1>4 DEF IInv, OneTimer, Wiring, CountsOutage, Restart
  <2> QED
    BY <2>1, <2>2 DEF IInv
<1> QED
  BY <1>1, <1>2, <1>3, <1>4

LEMMA NextKeepsInv == ASSUME IInv, [Next]_vars PROVE IInv'
<1>1. CASE UNCHANGED vars
  BY <1>1 DEF IInv, OneTimer, Wiring, CountsOutage, vars
<1> QED
  BY <1>1, HandlersKeepInv, TickKeepsInv, EndsKeepInv DEF Next

\* The clock, the timer and the outage agree in every reachable state.
THEOREM TimerCorrect == Spec => []IInv
BY InitInv, NextKeepsInv, PTL DEF Spec

\* Every variable keeps its type, and there is never more than one timer.
THEOREM TypeCorrect == Spec => []TypeOK
<1>1. IInv => TypeOK
  BY TypesFromInv DEF IInv
<1> QED
  BY <1>1, TimerCorrect, PTL

\* Whatever the events and their order, a timeout that ends a process that was
\* created has run for as long as Redis was away, or the API missed an event.
THEOREM CauseHolds == Spec => []KilledForCause
<1>1. IInv => KilledForCause
  BY CauseFromInv
<1> QED
  BY <1>1, TimerCorrect, PTL

=============================================================================
