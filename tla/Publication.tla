----------------------------- MODULE Publication -----------------------------
(***************************************************************************)
(* What the service promises about a request, without queue, jobs, workers *)
(* or restarts: whoever got an answer has a request that is open until its *)
(* extrinsic is published or it has failed; a failure for lack of capacity *)
(* may be taken up again, any other is the end; what was published stays   *)
(* so, and is published again only where that is excused.                  *)
(***************************************************************************)
EXTENDS Naturals

CONSTANT Requests

VARIABLES
    status,     \* "new", "open", "unpaid", "failed" or "published"
    answered,   \* the requests that somebody got a referenceId for
    times,      \* times[r]: how often r was published, 2 if more
    excused     \* published requests that may be published again

vars == <<status, answered, times, excused>>

Init ==
    /\ status = [r \in Requests |-> "new"]
    /\ answered = {}
    /\ times = [r \in Requests |-> 0]
    /\ excused = {}

Excuse(r) ==
    /\ status[r] = "published"
    /\ excused' = excused \cup {r}

\* A request comes in, for the first time or again, and perhaps is answered.
Ask(r) ==
    /\ status' = [status EXCEPT ![r] = IF @ = "new" THEN "open" ELSE @]
    /\ UNCHANGED answered \/ answered' = answered \cup {r}
    /\ UNCHANGED excused \/ Excuse(r)
    /\ UNCHANGED times

Publish(r) ==
    /\ status[r] = "open" \/ (status[r] = "published" /\ r \in excused)
    /\ status' = [status EXCEPT ![r] = "published"]
    /\ times' = [times EXCEPT ![r] = IF @ = 2 THEN 2 ELSE @ + 1]
    /\ UNCHANGED <<answered, excused>>

Fail(r) ==
    /\ status[r] = "open"
    /\ \E end \in {"failed", "unpaid"} : status' = [status EXCEPT ![r] = end]
    /\ UNCHANGED <<answered, times, excused>>

\* There is capacity: what could not be paid is open again.
TakeUp ==
    /\ status' = [r \in Requests |->
                    IF status[r] = "unpaid" THEN "open" ELSE status[r]]
    /\ UNCHANGED <<answered, times, excused>>

\* The worker loses sight of what it did for r.
Forget(r) == Excuse(r) /\ UNCHANGED <<status, answered, times>>

Next ==
    \/ \E r \in Requests : Ask(r) \/ Publish(r) \/ Fail(r) \/ Forget(r)
    \/ TakeUp

Spec == Init /\ [][Next]_vars

=============================================================================
