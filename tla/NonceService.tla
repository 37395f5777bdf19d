---------------------------- MODULE NonceService ----------------------------
(***************************************************************************)
(* Nonces for the provider's extrinsics: getNextNonce asks the node for    *)
(* the account's next index and reserves the first free of NumKeys keys in *)
(* Redis, which expire after two seconds.  Each NonceService of the worker *)
(* takes a nonce at bootstrap and drops it; the publisher takes one for    *)
(* each job, one job at a time.                                            *)
(*                                                                         *)
(* The index the node answers with is a codec (a BN), so `currentNonce +   *)
(* i' is the concatenation of two decimals, and not their sum.             *)
(***************************************************************************)
EXTENDS Integers, FiniteSetsExt

CONSTANTS
    Jobs,           \* jobs of the publish queue
    Services,       \* instances of NonceService in the worker
    NumKeys,        \* NUMBER_OF_NONCE_KEYS_TO_CHECK
    Expire,         \* NONCE_KEY_EXPIRE_SECONDS
    First,          \* the account's index at the start
    MaxCrashes      \* bound: crashes

ASSUME CallersAssumption == IsFiniteSet(Jobs) /\ Jobs \cap Services = {}
ASSUME KeysAssumption == NumKeys \in 1..100 /\ Expire \in Nat \ {0}
\* The provider's own registration used up the index 0.
ASSUME FirstAssumption == First \in Nat \ {0}
ASSUME CrashesAssumption == MaxCrashes \in Nat

Callers == Jobs \cup Services

VARIABLES
    sent,       \* nonces of the extrinsics that the node holds or has included
    ttl,        \* ttl[k]: seconds for which the key k is still there
    pc,         \* pc[c]: where caller c is
    base,       \* base[c]: the index the node answered with
    nonce,      \* nonce[c]: the nonce c got, or 0
    left,       \* history: left[c]: seconds that c's own key is still there
    crashes

vars == <<sent, ttl, pc, base, nonce, left, crashes>>

\* Every reservation is at most NumKeys above the index, which moves on by one
\* extrinsic at a time.
LastNonce == First + Cardinality(Jobs) + NumKeys
Nonces == First..LastNonce

\* getNonceKey of the i-th candidate: the decimal n, followed by the decimal i.
KeyOf(n, i) == n * (IF i < 10 THEN 10 ELSE 100) + i
Keys == {KeyOf(n, i) : n \in Nonces, i \in 0..(NumKeys - 1)}

PCs == {"idle", "index", "reserve", "submit", "done", "failed"}

TypeOK ==
    /\ sent \subseteq Nonces
    /\ ttl \in [Keys -> 0..Expire]
    /\ pc \in [Callers -> PCs]
    /\ base \in [Callers -> Nonces]
    /\ nonce \in [Callers -> Nonces \cup {0}]
    /\ left \in [Callers -> 0..Expire]
    /\ crashes \in 0..MaxCrashes

Init ==
    /\ sent = {}
    /\ ttl = [k \in Keys |-> 0]
    /\ pc = [c \in Callers |-> IF c \in Services THEN "index" ELSE "idle"]
    /\ base = [c \in Callers |-> First]
    /\ nonce = [c \in Callers |-> 0]
    /\ left = [c \in Callers |-> 0]
    /\ crashes = 0

-----------------------------------------------------------------------------
\* accountNextIndex: the first index that no extrinsic uses, in a block or
\* ready in the node's pool.
NextIndex == Min({n \in Nonces : n \notin sent})

Working == {j \in Jobs : pc[j] \in {"index", "reserve", "submit"}}

\* Mutant: the worker takes jobs while another is under way.
TakeJobAnyTime(j) ==
    /\ pc[j] = "idle"
    /\ pc' = [pc EXCEPT ![j] = "index"]
    /\ UNCHANGED <<sent, ttl, base, nonce, left, crashes>>

TakeJob(j) ==
    /\ Working = {}
    /\ pc[j] = "idle"
    /\ pc' = [pc EXCEPT ![j] = "index"]
    /\ UNCHANGED <<sent, ttl, base, nonce, left, crashes>>

ReadIndex(c) ==
    /\ pc[c] = "index"
    /\ base' = [base EXCEPT ![c] = NextIndex]
    /\ pc' = [pc EXCEPT ![c] = "reserve"]
    /\ UNCHANGED <<sent, ttl, nonce, left, crashes>>

Free(n) == {i \in 0..(NumKeys - 1) : ttl[KeyOf(n, i)] = 0}

\* Mutant: the key of the nonce found is not set.
TakeUnset(c, i) ==
    /\ nonce' = [nonce EXCEPT ![c] = base[c] + i]
    /\ left' = [left EXCEPT ![c] = Expire]
    /\ UNCHANGED ttl

\* Mutant: the script's index, which counts from one, is added as it is.
TakeNext(c, i) ==
    /\ nonce' = [nonce EXCEPT ![c] = base[c] + i + 1]
    /\ ttl' = [ttl EXCEPT ![KeyOf(base[c], i)] = Expire]
    /\ left' = [left EXCEPT ![c] = Expire]

\* Mutant: the expiry is given in milliseconds.
TakeMillis(c, i) ==
    /\ nonce' = [nonce EXCEPT ![c] = base[c] + i]
    /\ ttl' = [ttl EXCEPT ![KeyOf(base[c], i)] = Expire * 1000]
    /\ left' = [left EXCEPT ![c] = Expire]

Take(c, i) ==
    /\ nonce' = [nonce EXCEPT ![c] = base[c] + i]
    /\ ttl' = [ttl EXCEPT ![KeyOf(base[c], i)] = Expire]
    /\ left' = [left EXCEPT ![c] = Expire]

\* incrementNonce sets the first key that is free; if none is, the nonce after
\* the last candidate is used, and no key says so.
Reserve(c) ==
    /\ pc[c] = "reserve"
    /\ \/ /\ Free(base[c]) # {}
          /\ Take(c, Min(Free(base[c])))
       \/ /\ Free(base[c]) = {}
          /\ nonce' = [nonce EXCEPT ![c] = base[c] + NumKeys]
          /\ UNCHANGED <<ttl, left>>
    /\ pc' = [pc EXCEPT ![c] = IF c \in Jobs THEN "submit" ELSE "done"]
    /\ UNCHANGED <<sent, base, crashes>>

\* signAndSend: the node takes the extrinsic unless its nonce is spent or one
\* with that nonce is in its pool ...
Submit(j) ==
    /\ pc[j] = "submit"
    /\ nonce[j] >= NextIndex /\ nonce[j] \notin sent
    /\ sent' = sent \cup {nonce[j]}
    /\ pc' = [pc EXCEPT ![j] = "done"]
    /\ UNCHANGED <<ttl, base, nonce, left, crashes>>

\* ... or it rejects the extrinsic, for that or for another reason.
SubmitFails(j) ==
    /\ pc[j] = "submit"
    /\ pc' = [pc EXCEPT ![j] = "failed"]
    /\ UNCHANGED <<sent, ttl, base, nonce, left, crashes>>

-----------------------------------------------------------------------------
\* A second passes.
Tick ==
    /\ \E k \in Keys : ttl[k] > 0
    /\ ttl' = [k \in Keys |-> IF ttl[k] > 0 THEN ttl[k] - 1 ELSE 0]
    /\ left' = [c \in Callers |-> IF left[c] > 0 THEN left[c] - 1 ELSE 0]
    /\ UNCHANGED <<sent, pc, base, nonce, crashes>>

\* The worker is killed and started again: a job under way waits again.
Crash ==
    /\ crashes < MaxCrashes
    /\ crashes' = crashes + 1
    /\ pc' = [c \in Callers |-> CASE c \in Services -> "index"
                                  [] c \in Working  -> "idle"
                                  [] OTHER          -> pc[c]]
    /\ nonce' = [c \in Callers |-> IF c \in Working \cup Services THEN 0 ELSE nonce[c]]
    /\ left' = [c \in Callers |-> IF c \in Working \cup Services THEN 0 ELSE left[c]]
    /\ UNCHANGED <<sent, ttl, base>>

GetNextNonce(c) == ReadIndex(c) \/ Reserve(c)

Next ==
    \/ Tick \/ Crash
    \/ \E c \in Callers : GetNextNonce(c)
    \/ \E j \in Jobs : TakeJob(j) \/ Submit(j) \/ SubmitFails(j)

Spec == Init /\ [][Next]_vars

-----------------------------------------------------------------------------
(* Properties                                                              *)

\* A nonce is never below the account's index when its extrinsic is signed:
\* nothing moves the index on between the node's answer and signAndSend
\* (publisher, lines 149-151).
NeverStale == \A j \in Jobs : pc[j] = "submit" => nonce[j] >= NextIndex

\* The script checks and sets a key in one step: of the callers that were
\* given the same index, those whose keys are there hold different nonces.
SameListDistinct ==
    \A c, d \in Callers :
        c # d /\ left[c] > 0 /\ left[d] > 0 /\ base[c] = base[d]
            => nonce[c] # nonce[d]

\* Nonce keys expire shortly so that a skipped nonce can still be submitted
\* (redis.ts, lines 24-27): a job that finds no key set gets the account's
\* next index, whatever was skipped before.
SkippedIsReused ==
    [][\A j \in Jobs : pc[j] = "reserve" /\ pc'[j] = "submit"
                       /\ (\A k \in Keys : ttl[k] = 0)
            => nonce'[j] = NextIndex]_vars

\* Keys lock nonces, so that the nonces handed out are mostly unique (redis.ts,
\* lines 19-22): two callers whose keys are there hold different nonces.
LockedAreDistinct ==
    \A c, d \in Callers : c # d /\ left[c] > 0 /\ left[d] > 0 => nonce[c] # nonce[d]

=============================================================================
