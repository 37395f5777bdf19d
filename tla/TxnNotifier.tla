---------------------------- MODULE TxnNotifier ----------------------------
(***************************************************************************)
(* The worker's TxnNotifierService: it scans the chain block by block for  *)
(* the extrinsics on the Redis watch list, posts a webhook for each that   *)
(* succeeded, adds up the capacity they withdrew and forgets those it      *)
(* found or that expired.  The part of TransactionPublisherService that    *)
(* submits an extrinsic and puts it on the watch list is here too: the two *)
(* services share the list and run in one process.                         *)
(*                                                                         *)
(* Each action is the code between two awaits.  A scan is one call of      *)
(* BlockchainScannerService.scan(), started by the interval timer.         *)
(***************************************************************************)
EXTENDS Chain

CONSTANTS
    NoTxn,              \* stands for no extrinsic
    Scans,              \* the calls of scan() that can be under way at once
    TrustUnfinalized,   \* TRUST_UNFINALIZED_BLOCKS
    MaxRetries,         \* HEALTH_CHECK_MAX_RETRIES
    EpochLength,        \* blocks in a capacity epoch
    MaxCrashes          \* bound: crashes the code is not the cause of

ASSUME NoTxnAssumption == NoTxn \notin Txns
ASSUME ScansAssumption == IsFiniteSet(Scans)
ASSUME TrustUnfinalizedAssumption == TrustUnfinalized \in BOOLEAN
ASSUME MaxRetriesAssumption == MaxRetries \in Nat
ASSUME EpochLengthAssumption == EpochLength \in Nat \ {0}
ASSUME MaxCrashesAssumption == MaxCrashes \in Nat

VARIABLES
    \* Redis: survives the process.
    watch,      \* the transactions on the watch list
    birth,      \* birth[t], death[t]: the range recorded in t's ITxStatus
    death,
    lastSeen,   \* TxnNotifierService:lastSeenBlockNumber
    used,       \* used[e]: the value of epochCapacity:e
    \* the publisher's jobs
    pub,        \* pub[t]: where the job that submits t is
    fin,        \* fin[t]: the finalized block number it read before submitting
    \* the notifier
    phase,      \* of the worker process
    scanInProgress,
    pc,         \* pc[s]: the await scan s is at
    cur,        \* cur[s]: currentBlockNumber
    blk,        \* blk[s]: the transactions in the block of currentBlockHash
    pend,       \* pend[s]: pendingTxns
    todo,       \* todo[s]: found in the block and not yet handled
    now,        \* now[s]: the one being posted
    tries,      \* tries[s]: retries
    saved,      \* saved[s]: savedCapacity
    \* history, read by properties only
    crashes,    \* how many of the MaxCrashes crashes happened
    delivered,  \* delivered[t]: webhooks the provider got for t, 2 if more
    gaveUp,     \* transactions whose webhook retries ran out
    found,      \* transactions forgotten after being found in a block
    missed,     \* transactions the cursor passed before they were watched
    mishaps     \* which of AllMishaps happened

pubVars   == <<pub, fin>>
storeVars == <<watch, birth, death, lastSeen, used>>
scanVars  == <<scanInProgress, pc, cur, blk, pend, todo, now, tries, saved>>
histVars  == <<crashes, delivered, gaveUp, found, missed, mishaps>>
vars == <<chainVars, pubVars, storeVars, phase, scanVars, histVars>>

PubStates == {"queued", "read", "sent", "watched", "lost"}
PCs == {"idle", "initial", "last", "births", "hash", "check", "load",
        "examine", "post", "capGet", "capSet", "exec", "advance"}
AllMishaps == {"exit", "overlap", "reply", "capacity", "staleHash"}
Epochs == {b \div EpochLength : b \in Blocks}

\* The extrinsics of s's block that were on the list when s loaded it
\* (extrinsicIndices).
Indices(s) == blk[s] \cap pend[s]

\* The extrinsics in block b of the best chain.
BlockAt(b) == {t \in Txns : incl[t] = b}

\* Past the load of the watch list for the block cur[s].
OnBlock == {"examine", "post", "capGet", "capSet", "exec"}

\* s has set scanInProgress and not yet cleared it.
Scanning(s) == pc[s] \notin {"idle", "initial"}

\* s will still look at block b with t on its list, if t is watched by then.
Ahead(s, t, b) ==
    /\ pc[s] \in {"births", "advance"} => cur[s] < b
    /\ pc[s] \in {"hash", "check", "load"} => cur[s] <= b
    /\ pc[s] \in OnBlock => cur[s] < b \/ (cur[s] = b /\ t \in pend[s])

\* The cursor, or the cursor of a scan under way, is past the block with t.
Passed(t) ==
    /\ incl[t] # 0
    /\ incl[t] <= lastSeen \/ \E s \in Scans : ~Ahead(s, t, incl[t])

-----------------------------------------------------------------------------
StoreTypeOK ==
    /\ watch \subseteq Txns
    /\ birth \in [Txns -> Nat]
    /\ death \in [Txns -> Nat]
    /\ lastSeen \in Blocks
    /\ used \in [Epochs -> Nat]
    /\ pub \in [Txns -> PubStates]
    /\ fin \in [Txns -> Blocks]
    /\ phase \in {"down", "boot", "skip", "up"}

ScanTypeOK ==
    /\ scanInProgress \in BOOLEAN
    /\ pc \in [Scans -> PCs]
    /\ cur \in [Scans -> 0..(MaxBlock + 1)]
    /\ blk \in [Scans -> SUBSET Txns]
    /\ pend \in [Scans -> SUBSET Txns]
    /\ todo \in [Scans -> SUBSET Txns]
    /\ now \in [Scans -> Txns \cup {NoTxn}]
    /\ \A s \in Scans : pc[s] = "post" => now[s] \in Txns
    /\ tries \in [Scans -> 0..MaxRetries]
    /\ saved \in [Scans -> Nat]

HistTypeOK ==
    /\ crashes \in 0..MaxCrashes
    /\ delivered \in [Txns -> 0..2]
    /\ gaveUp \subseteq Txns
    /\ found \subseteq Txns
    /\ missed \subseteq Txns
    /\ mishaps \subseteq AllMishaps

TypeOK == ChainTypeOK /\ StoreTypeOK /\ ScanTypeOK /\ HistTypeOK

NoScan ==
    /\ scanInProgress = FALSE
    /\ pc = [s \in Scans |-> "idle"]
    /\ cur = [s \in Scans |-> 0]
    /\ blk = [s \in Scans |-> {}]
    /\ pend = [s \in Scans |-> {}]
    /\ todo = [s \in Scans |-> {}]
    /\ now = [s \in Scans |-> NoTxn]
    /\ tries = [s \in Scans |-> 0]
    /\ saved = [s \in Scans |-> 0]

Init ==
    /\ ChainInit
    /\ watch = {} /\ lastSeen = 0
    /\ birth = [t \in Txns |-> 0]
    /\ death = [t \in Txns |-> 0]
    /\ used = [e \in Epochs |-> 0]
    /\ pub = [t \in Txns |-> "queued"]
    /\ fin = [t \in Txns |-> 0]
    /\ phase = "boot"
    /\ NoScan
    /\ crashes = 0
    /\ delivered = [t \in Txns |-> 0]
    /\ gaveUp = {} /\ found = {} /\ missed = {} /\ mishaps = {}

-----------------------------------------------------------------------------
(* The publisher: TransactionPublisherService.process.                     *)

\* getLatestFinalizedBlockNumber, before the extrinsic is built.
PubRead(t) ==
    /\ phase # "down"
    /\ pub[t] = "queued"
    /\ fin' = [fin EXCEPT ![t] = finalized]
    /\ pub' = [pub EXCEPT ![t] = "read"]
    /\ UNCHANGED <<chainVars, storeVars, phase, scanVars, histVars>>

\* signAndSend: from here on the extrinsic is in the node's pool.
PubSubmit(t) ==
    /\ phase # "down"
    /\ pub[t] = "read"
    /\ Submit(t)
    /\ pub' = [pub EXCEPT ![t] = "sent"]
    /\ UNCHANGED <<fin, storeVars, phase, scanVars, histVars>>

\* The node's answer arrives and the status goes to the watch list (the hset
\* is not awaited), its range computed from the number read earlier.
PubWatch(t) ==
    /\ phase # "down"
    /\ pub[t] = "sent"
    /\ pub' = [pub EXCEPT ![t] = "watched"]
    /\ watch' = watch \cup {t}
    /\ birth' = [birth EXCEPT ![t] = EraBirth(signed[t], fin[t])]
    /\ death' = [death EXCEPT ![t] = EraDeath(signed[t], fin[t])]
    /\ missed' = IF Passed(t) THEN missed \cup {t} ELSE missed
    /\ UNCHANGED <<chainVars, fin, lastSeen, used, phase, scanVars,
                   crashes, delivered, gaveUp, found, mishaps>>

\* Something fails after the submission (tx.era holds no mortal era, Redis is
\* away): the extrinsic is in the pool and nobody watches it.
PubFails(t) ==
    /\ phase # "down"
    /\ pub[t] = "sent"
    /\ pub' = [pub EXCEPT ![t] = "lost"]
    /\ UNCHANGED <<chainVars, fin, storeVars, phase, scanVars, histVars>>

-----------------------------------------------------------------------------
(* BlockchainScannerService.scan                                           *)

\* Mutant: the flag stays set.
FinishKeepsFlag(s) ==
    /\ pc' = [pc EXCEPT ![s] = "idle"]
    /\ cur' = [cur EXCEPT ![s] = 0]
    /\ blk' = [blk EXCEPT ![s] = {}]
    /\ pend' = [pend EXCEPT ![s] = {}]
    /\ UNCHANGED <<scanInProgress, todo, now, tries, saved>>

\* The `finally' clause.  It clears the flag whoever set it.
Finish(s) ==
    /\ scanInProgress' = FALSE
    /\ pc' = [pc EXCEPT ![s] = "idle"]
    /\ cur' = [cur EXCEPT ![s] = 0]
    /\ blk' = [blk EXCEPT ![s] = {}]
    /\ pend' = [pend EXCEPT ![s] = {}]
    /\ UNCHANGED <<todo, now, tries, saved>>

\* The interval timer calls scan(); it suspends in checkInitialScanParameters
\* before it sets the flag.
ScanStart(s) ==
    /\ phase = "up"
    /\ pc[s] = "idle"
    /\ ~scanInProgress
    /\ pc' = [pc EXCEPT ![s] = "initial"]
    /\ UNCHANGED <<chainVars, pubVars, storeVars, phase, scanInProgress, cur,
                   blk, pend, todo, now, tries, saved, histVars>>

\* checkInitialScanParameters: hlen of the watch list.
CheckInitial(s) ==
    /\ pc[s] = "initial"
    /\ \/ /\ watch = {}                                     \* NullScanError
          /\ Finish(s)
          /\ UNCHANGED histVars
       \/ /\ watch # {}
          /\ scanInProgress' = TRUE
          /\ pc' = [pc EXCEPT ![s] = "last"]
          /\ mishaps' = IF \E r \in Scans \ {s} : Scanning(r)
                        THEN mishaps \cup {"overlap"} ELSE mishaps
          /\ UNCHANGED <<cur, blk, pend, todo, now, tries, saved, crashes,
                         delivered, gaveUp, found, missed>>
    /\ UNCHANGED <<chainVars, pubVars, storeVars, phase>>

\* getLastSeenBlockNumber, in two reads: the saved cursor ...
ReadLastSeen(s) ==
    /\ pc[s] = "last"
    /\ cur' = [cur EXCEPT ![s] = lastSeen]
    /\ pc' = [pc EXCEPT ![s] = "births"]
    /\ UNCHANGED <<chainVars, pubVars, storeVars, phase, scanInProgress, blk,
                   pend, todo, now, tries, saved, histVars>>

\* Mutant: the highest birth instead of the lowest.
ReadBirthsHighest(s) ==
    /\ pc[s] = "births"
    /\ \/ /\ watch = {}
          /\ cur' = [cur EXCEPT ![s] = @ + 1]
       \/ \E last \in watch :
             /\ \A t \in watch : birth[last] >= birth[t]
             /\ cur' = [cur EXCEPT ![s] =
                           IF birth[last] > @ THEN birth[last] + 1 ELSE @ + 1]
    /\ pc' = [pc EXCEPT ![s] = "hash"]
    /\ UNCHANGED <<chainVars, pubVars, storeVars, phase, scanInProgress, blk,
                   pend, todo, now, tries, saved, histVars>>

\* Mutant: the lowest birth even when it is not higher (Math.max is missing).
ReadBirthsAlways(s) ==
    /\ pc[s] = "births"
    /\ \/ /\ watch = {}
          /\ cur' = [cur EXCEPT ![s] = @ + 1]
       \/ \E first \in watch :
             /\ \A t \in watch : birth[first] <= birth[t]
             /\ cur' = [cur EXCEPT ![s] = birth[first] + 1]
    /\ pc' = [pc EXCEPT ![s] = "hash"]
    /\ UNCHANGED <<chainVars, pubVars, storeVars, phase, scanInProgress, blk,
                   pend, todo, now, tries, saved, histVars>>

\* ... and the lowest birth on the list, when that is higher.
ReadBirths(s) ==
    /\ pc[s] = "births"
    /\ \/ /\ watch = {}
          /\ cur' = [cur EXCEPT ![s] = @ + 1]
       \/ \E first \in watch :
             /\ \A t \in watch : birth[first] <= birth[t]
             /\ cur' = [cur EXCEPT ![s] =
                           IF birth[first] > @ THEN birth[first] + 1 ELSE @ + 1]
    /\ pc' = [pc EXCEPT ![s] = "hash"]
    /\ UNCHANGED <<chainVars, pubVars, storeVars, phase, scanInProgress, blk,
                   pend, todo, now, tries, saved, histVars>>

\* getBlockHash.  The hash fixes the block's content, whatever becomes of the
\* best chain; beyond the head it is all zeros, which ends the scan both
\* before the loop and, through checkScanParameters, inside it.
FetchHash(s) ==
    /\ pc[s] = "hash"
    /\ \/ /\ cur[s] > head
          /\ Finish(s)
       \/ /\ cur[s] <= head
          /\ blk' = [blk EXCEPT ![s] = BlockAt(cur[s])]
          /\ pc' = [pc EXCEPT ![s] = "check"]
          /\ UNCHANGED <<scanInProgress, cur, pend, todo, now, tries, saved>>
    /\ UNCHANGED <<chainVars, pubVars, storeVars, phase, histVars>>

\* The constructor passes { onlyFinalized: trustUnfinalizedBlocks }.
OnlyFinalized == TrustUnfinalized

\* Mutant: the finalized number is not looked at.
CheckParamsAnyBlock(s) ==
    /\ pc[s] = "check" /\ watch # {}
    /\ pc' = [pc EXCEPT ![s] = "load"]
    /\ UNCHANGED <<chainVars, pubVars, storeVars, phase, scanInProgress, cur,
                   blk, pend, todo, now, tries, saved, histVars>>

\* BlockchainScannerService.checkScanParameters finds the end of the chain.
PastEnd(s) == OnlyFinalized /\ cur[s] > finalized

\* The notifier's checkScanParameters: hlen, then the one above.  The hash was
\* fetched before: it may by now belong to an abandoned fork.
CheckParams(s) ==
    /\ pc[s] = "check"
    /\ \/ /\ watch = {} \/ PastEnd(s)
          /\ Finish(s)
          /\ UNCHANGED histVars
       \/ /\ watch # {} /\ ~PastEnd(s)
          /\ pc' = [pc EXCEPT ![s] = "load"]
          /\ mishaps' = IF blk[s] = BlockAt(cur[s]) THEN mishaps
                        ELSE mishaps \cup {"staleHash"}
          /\ UNCHANGED <<scanInProgress, cur, blk, pend, todo, now, tries,
                         saved, crashes, delivered, gaveUp, found, missed>>
    /\ UNCHANGED <<chainVars, pubVars, storeVars, phase>>

\* setLastSeenBlockNumber, then on to the next block.
Advance(s) ==
    /\ pc[s] = "advance"
    /\ lastSeen' = cur[s]
    /\ cur' = [cur EXCEPT ![s] = @ + 1]
    /\ pc' = [pc EXCEPT ![s] = "hash"]
    /\ blk' = [blk EXCEPT ![s] = {}]
    /\ pend' = [pend EXCEPT ![s] = {}]
    /\ UNCHANGED <<chainVars, pubVars, watch, birth, death, used, phase,
                   scanInProgress, todo, now, tries, saved, histVars>>

-----------------------------------------------------------------------------
(* TxnNotifierService.processCurrentBlock                                  *)

\* Mutant: the cursor is saved before the block is processed, not after.
LoadPendingSavesCursor(s) ==
    /\ pc[s] = "load"
    /\ lastSeen' = cur[s]
    /\ pend' = [pend EXCEPT ![s] = watch]
    /\ todo' = [todo EXCEPT ![s] = blk[s] \cap watch]
    /\ pc' = [pc EXCEPT ![s] = IF blk[s] \cap watch = {} THEN "exec"
                               ELSE "examine"]
    /\ UNCHANGED <<chainVars, pubVars, watch, birth, death, used, phase,
                   scanInProgress, cur, blk, now, tries, saved, histVars>>

\* hvals of the watch list and the block's extrinsics.
LoadPending(s) ==
    /\ pc[s] = "load"
    /\ pend' = [pend EXCEPT ![s] = watch]
    /\ todo' = [todo EXCEPT ![s] = blk[s] \cap watch]
    /\ pc' = [pc EXCEPT ![s] = IF blk[s] \cap watch = {} THEN "exec"
                               ELSE "examine"]
    /\ UNCHANGED <<chainVars, pubVars, storeVars, phase, scanInProgress, cur,
                   blk, now, tries, saved, histVars>>

\* The process exits: in-memory state is gone, and with it every job under
\* way.  One that had not submitted is run again when found stalled; one that
\* had leaves an extrinsic nobody watches.
ExitProcess ==
    /\ phase' = "down"
    /\ scanInProgress' = FALSE
    /\ pc' = [s \in Scans |-> "idle"]
    /\ cur' = [s \in Scans |-> 0]
    /\ blk' = [s \in Scans |-> {}]
    /\ pend' = [s \in Scans |-> {}]
    /\ todo' = [s \in Scans |-> {}]
    /\ now' = [s \in Scans |-> NoTxn]
    /\ tries' = [s \in Scans |-> 0]
    /\ saved' = [s \in Scans |-> 0]
    /\ pub' = [t \in Txns |-> CASE pub[t] = "read" -> "queued"
                                [] pub[t] = "sent" -> "lost"
                                [] OTHER -> pub[t]]
    /\ mishaps' = mishaps \cup {"exit"}
    /\ UNCHANGED <<chainVars, fin, storeVars, delivered, gaveUp, found, missed>>

\* hget answers null and JSON.parse(null).successEvent throws, or asModule
\* throws on an error that is not a module's.  The rejection of the floating
\* scan() promise reaches the uncaughtException handler, which exits.
ScanThrows(s) ==
    /\ pc[s] = "examine"
    /\ \E t \in todo[s] : t \notin watch \/ outcome[t] = "nonModule"
    /\ ExitProcess
    /\ UNCHANGED crashes

\* ExtrinsicFailed is only logged.
SkipFailed(s) ==
    /\ pc[s] = "examine"
    /\ \E t \in todo[s] :
          /\ t \in watch /\ outcome[t] = "failed"
          /\ todo' = [todo EXCEPT ![s] = @ \ {t}]
    /\ UNCHANGED <<chainVars, pubVars, storeVars, phase, scanInProgress, pc,
                   cur, blk, pend, now, tries, saved, histVars>>

\* Neither event is there: that is logged, and no webhook posted.  Like a failed
\* one, the extrinsic goes into the pipeline that takes it off the list.
SkipNeither(s) ==
    /\ pc[s] = "examine"
    /\ \E t \in todo[s] :
          /\ t \in watch /\ outcome[t] = "neither"
          /\ todo' = [todo EXCEPT ![s] = @ \ {t}]
    /\ UNCHANGED <<chainVars, pubVars, storeVars, phase, scanInProgress, pc,
                   cur, blk, pend, now, tries, saved, histVars>>

\* The success event is there: start posting its webhook.
StartPost(s) ==
    /\ pc[s] = "examine"
    /\ \E t \in todo[s] :
          /\ t \in watch /\ outcome[t] = "success"
          /\ now' = [now EXCEPT ![s] = t]
          /\ todo' = [todo EXCEPT ![s] = @ \ {t}]
    /\ pc' = [pc EXCEPT ![s] = "post"]
    /\ tries' = [tries EXCEPT ![s] = 0]
    /\ UNCHANGED <<chainVars, pubVars, storeVars, phase, scanInProgress, cur,
                   blk, pend, saved, histVars>>

\* Leave the retry loop.
EndPost(s) ==
    /\ pc' = [pc EXCEPT ![s] = "examine"]
    /\ now' = [now EXCEPT ![s] = NoTxn]
    /\ tries' = [tries EXCEPT ![s] = 0]

Deliver(t) ==
    delivered' = [delivered EXCEPT ![t] = IF @ = 2 THEN 2 ELSE @ + 1]

\* Mutant: no break after a webhook that got through.
PostOkNoBreak(s) ==
    /\ pc[s] = "post" /\ tries[s] < MaxRetries
    /\ Deliver(now[s])
    /\ UNCHANGED <<chainVars, pubVars, storeVars, phase, scanVars, crashes,
                   gaveUp, found, missed, mishaps>>

\* axios.post resolves.
PostOk(s) ==
    /\ pc[s] = "post" /\ tries[s] < MaxRetries
    /\ Deliver(now[s])
    /\ EndPost(s)
    /\ UNCHANGED <<chainVars, pubVars, storeVars, phase, scanInProgress, cur,
                   blk, pend, todo, saved, crashes, gaveUp, found, missed,
                   mishaps>>

\* Mutant: one attempt too many.
PostFailsOneMore(s) ==
    /\ pc[s] = "post" /\ tries[s] <= MaxRetries
    /\ tries' = [tries EXCEPT ![s] = @ + 1]
    /\ UNCHANGED <<chainVars, pubVars, storeVars, phase, scanInProgress, pc,
                   cur, blk, pend, todo, now, saved, histVars>>

\* Mutant: the break is reached after a failure too.
PostFailsAndBreaks(s) ==
    /\ pc[s] = "post" /\ tries[s] < MaxRetries
    /\ EndPost(s)
    /\ UNCHANGED <<chainVars, pubVars, storeVars, phase, scanInProgress, cur,
                   blk, pend, todo, saved, histVars>>

\* axios.post rejects: the provider is unreachable, or it got the request and
\* the answer was lost or no 2xx.  Tried again at once.
PostFails(s) ==
    /\ pc[s] = "post" /\ tries[s] < MaxRetries
    /\ \/ UNCHANGED <<delivered, mishaps>>
       \/ Deliver(now[s]) /\ mishaps' = mishaps \cup {"reply"}
    /\ tries' = [tries EXCEPT ![s] = @ + 1]
    /\ UNCHANGED <<chainVars, pubVars, storeVars, phase, scanInProgress, pc,
                   cur, blk, pend, todo, now, saved, crashes, gaveUp, found,
                   missed>>

\* retries = healthCheckMaxRetries: go on as if the webhook had been sent.
PostGivesUp(s) ==
    /\ pc[s] = "post" /\ tries[s] = MaxRetries
    /\ gaveUp' = gaveUp \cup {now[s]}
    /\ EndPost(s)
    /\ UNCHANGED <<chainVars, pubVars, storeVars, phase, scanInProgress, cur,
                   blk, pend, todo, saved, crashes, delivered, found, missed,
                   mishaps>>

\* Every extrinsic of the block is handled: setEpochCapacity.
EndExamine(s) ==
    /\ pc[s] = "examine" /\ todo[s] = {}
    /\ pc' = [pc EXCEPT ![s] = "capGet"]
    /\ UNCHANGED <<chainVars, pubVars, storeVars, phase, scanInProgress, cur,
                   blk, pend, todo, now, tries, saved, histVars>>

\* setEpochCapacity reads the epoch's counter ...
CapacityGet(s) ==
    /\ pc[s] = "capGet"
    /\ saved' = [saved EXCEPT ![s] = used[cur[s] \div EpochLength]]
    /\ pc' = [pc EXCEPT ![s] = "capSet"]
    /\ UNCHANGED <<chainVars, pubVars, storeVars, phase, scanInProgress, cur,
                   blk, pend, todo, now, tries, histVars>>

\* Mutant: what was saved before is not added.
CapacitySetForgets(s) ==
    /\ pc[s] = "capSet"
    /\ used' = [used EXCEPT ![cur[s] \div EpochLength] = Cardinality(Indices(s))]
    /\ saved' = [saved EXCEPT ![s] = 0]
    /\ pc' = [pc EXCEPT ![s] = "exec"]
    /\ UNCHANGED <<chainVars, pubVars, watch, birth, death, lastSeen, phase,
                   scanInProgress, cur, blk, pend, todo, now, tries, histVars>>

\* ... and writes it back, each extrinsic having withdrawn one unit.  Failed
\* extrinsics withdraw capacity as well.
CapacitySet(s) ==
    /\ pc[s] = "capSet"
    /\ used' = [used EXCEPT ![cur[s] \div EpochLength] =
                   saved[s] + Cardinality(Indices(s))]
    /\ saved' = [saved EXCEPT ![s] = 0]
    /\ pc' = [pc EXCEPT ![s] = "exec"]
    /\ UNCHANGED <<chainVars, pubVars, watch, birth, death, lastSeen, phase,
                   scanInProgress, cur, blk, pend, todo, now, tries, histVars>>

\* An error in between is logged and swallowed.
CapacityFails(s) ==
    /\ pc[s] \in {"capGet", "capSet"}
    /\ saved' = [saved EXCEPT ![s] = 0]
    /\ pc' = [pc EXCEPT ![s] = "exec"]
    /\ mishaps' = mishaps \cup {"capacity"}
    /\ UNCHANGED <<chainVars, pubVars, storeVars, phase, scanInProgress, cur,
                   blk, pend, todo, now, tries, crashes, delivered, gaveUp,
                   found, missed>>

\* Mutant: the wrong end of the range.
ExpiredAtBirth(s) == {t \in pend[s] : birth[t] <= cur[s]}

\* pendingTxns whose recorded range ended at or before the block.
Expired(s) == {t \in pend[s] : death[t] <= cur[s]}

\* pipeline.exec(): one Redis transaction removes what was found or expired.
Exec(s) ==
    /\ pc[s] = "exec"
    /\ watch' = watch \ (Indices(s) \cup Expired(s))
    /\ found' = found \cup Indices(s)
    /\ pc' = [pc EXCEPT ![s] = "advance"]
    /\ UNCHANGED <<chainVars, pubVars, birth, death, lastSeen, used, phase,
                   scanInProgress, cur, blk, pend, todo, now, tries, saved,
                   crashes, delivered, gaveUp, missed, mishaps>>

-----------------------------------------------------------------------------
(* The worker process                                                      *)

\* A crash from outside: the process is killed, or loses Redis for too long.
Crash ==
    /\ phase # "down"
    /\ crashes < MaxCrashes
    /\ crashes' = crashes + 1
    /\ ExitProcess

\* `restart: on-failure'
Restart ==
    /\ phase = "down"
    /\ phase' = "boot"
    /\ UNCHANGED <<chainVars, pubVars, storeVars, scanVars, histVars>>

\* onApplicationBootstrap: hkeys of the watch list ...
BootKeys ==
    /\ phase = "boot"
    /\ phase' = IF watch = {} THEN "skip" ELSE "up"
    /\ UNCHANGED <<chainVars, pubVars, storeVars, scanVars, histVars>>

\* ... and, when it was empty, skip to the finalized end of the chain.  Jobs
\* are already being processed, so the list may have filled meanwhile.
BootSkip ==
    /\ phase = "skip"
    /\ lastSeen' = finalized
    /\ missed' = missed \cup {t \in watch : incl[t] # 0 /\ incl[t] <= finalized}
    /\ phase' = "up"
    /\ UNCHANGED <<chainVars, pubVars, watch, birth, death, used, scanVars,
                   crashes, delivered, gaveUp, found, mishaps>>

-----------------------------------------------------------------------------
Chains == ChainNext /\ UNCHANGED <<pubVars, storeVars, phase, scanVars, histVars>>

PubStep(t) == PubRead(t) \/ PubSubmit(t) \/ PubWatch(t) \/ PubFails(t)

PostStep(s) == PostOk(s) \/ PostFails(s) \/ PostGivesUp(s)

ExamineStep(s) ==
    \/ ScanThrows(s) \/ SkipFailed(s) \/ SkipNeither(s) \/ StartPost(s)
    \/ EndExamine(s)

CapacityStep(s) == CapacityGet(s) \/ CapacitySet(s) \/ CapacityFails(s)

ScanStep(s) ==
    \/ CheckInitial(s) \/ ReadLastSeen(s) \/ ReadBirths(s) \/ FetchHash(s)
    \/ CheckParams(s) \/ LoadPending(s) \/ ExamineStep(s) \/ PostStep(s)
    \/ CapacityStep(s) \/ Exec(s) \/ Advance(s)

ProcessStep == Restart \/ BootKeys \/ BootSkip

Next ==
    \/ Chains
    \/ \E t \in Txns : PubStep(t)
    \/ \E s \in Scans : ScanStart(s) \/ ScanStep(s)
    \/ Crash
    \/ ProcessStep

Spec == Init /\ [][Next]_vars

\* The chain goes on; a submitted job gets its answer; the interval timer
\* fires again and again and every await resolves; the process is restarted.
FairSpec ==
    /\ Spec
    /\ WF_vars(ProduceBlock /\ Chains) /\ WF_vars(Finalize /\ Chains)
    /\ \A t \in Txns : WF_vars(PubWatch(t) \/ PubFails(t))
    /\ \A s \in Scans : WF_vars(ScanStart(s)) /\ WF_vars(ScanStep(s))
    /\ WF_vars(ProcessStep)

-----------------------------------------------------------------------------
(* Safety                                                                  *)

\* No block the scanner went through has been replaced since: there was no
\* fork, or it kept to finalized blocks and the hash it had fetched was still
\* the right one when it looked at the finalized number.
NoForkSeen == reorgs = 0 \/ (OnlyFinalized /\ "staleHash" \notin mishaps)

\* The scanner's cursor never goes past a block that holds a watched
\* extrinsic: every one gets looked at.  The two races that can break it,
\* the watch list entry written after the scan went by and the jump to the
\* finalized end at bootstrap, are told apart by `missed'.
NoSilentSkip ==
    NoForkSeen =>
        \A t \in watch \ missed : incl[t] # 0 => lastSeen < incl[t]

\* What makes NoSilentSkip inductive: the cursors are on the chain, on its
\* finalized part when only that is scanned; ...
Limit == IF OnlyFinalized THEN finalized ELSE head

CursorsOnChain ==
    /\ 1 <= finalized /\ finalized <= head /\ lastSeen <= Limit
    /\ \A s \in Scans :
          /\ pc[s] \in OnBlock \cup {"births", "load", "advance"}
                => cur[s] <= Limit
          /\ pc[s] = "check" => cur[s] <= head
          /\ pc[s] \in {"hash", "check"} => cur[s] <= Limit + 1
          /\ pc[s] \in OnBlock \cup {"hash", "check", "load"} => cur[s] >= 1

InclusionsOnChain ==
    \A t \in Txns :
       /\ signed[t] <= finalized
       /\ incl[t] # 0 => 0 < signed[t] /\ signed[t] < incl[t] /\ incl[t] <= head

\* ... a recorded range never starts after the extrinsic's real one; ...
WatchedAreSubmitted ==
    \A t \in Txns :
       /\ pub[t] \in {"queued", "read"} => signed[t] = 0
       /\ pub[t] \in {"sent", "watched"} => fin[t] <= signed[t] /\ signed[t] # 0
       /\ pub[t] = "read" => fin[t] <= finalized
       /\ t \in watch => pub[t] = "watched" /\ birth[t] <= signed[t]

\* ... a scan's copy of its block is still that block, and no scan under way
\* has passed a watched extrinsic.
BlocksAreExact ==
    NoForkSeen =>
       \A s \in Scans :
          /\ pc[s] \in OnBlock \cup {"load"} => blk[s] = BlockAt(cur[s])
          /\ reorgs = 0 /\ pc[s] = "check" => blk[s] = BlockAt(cur[s])

NoScanPast ==
    NoForkSeen =>
       \A t \in watch \ missed : incl[t] # 0 =>
          \A s \in Scans : Ahead(s, t, incl[t])

\* The inductive invariant: NoSilentSkip and what its proof rests on.
CursorInv ==
    /\ CursorsOnChain /\ InclusionsOnChain /\ WatchedAreSubmitted
    /\ BlocksAreExact /\ NoScanPast /\ NoSilentSkip

\* The provider gets at most one webhook for an extrinsic unless the process
\* exited between the post and the removal from the list, two scans ran at
\* once, or the provider's answer to an earlier attempt was lost.
DuplicateNeedsCause ==
    (\E t \in Txns : delivered[t] > 1)
        => mishaps \cap {"exit", "overlap", "reply"} # {}

\* When only finalized blocks are scanned, a webhook goes out only for an
\* extrinsic that no fork can undo any more.
DeliveredIsFinal ==
    OnlyFinalized /\ NoForkSeen =>
        \A t \in Txns : delivered[t] > 0 =>
            /\ incl[t] \in 1..finalized
            /\ outcome[t] = "success"

\* epochCapacity:e counts each watched extrinsic found in epoch e exactly
\* once, when no scan was cut short, doubled or failed to save it.
CountedIn(e) ==
    LET unsaved == UNION {Indices(s) : s \in {r \in Scans : pc[r] = "exec"}}
    IN  {t \in found \cup unsaved : incl[t] \div EpochLength = e}

CapacityExact ==
    reorgs = 0 /\ mishaps \cap {"exit", "overlap", "capacity"} = {}
        => \A e \in Epochs : used[e] = Cardinality(CountedIn(e))

\* An entry leaves the watch list only by the exec of a scan, and then for a
\* reason: the scanned block is past its recorded range, its dispatch failed or
\* showed neither event (both are logged, and the provider never hears of
\* them), its webhook was delivered or its webhook retries ran out.
Accounted(t) ==
    \/ outcome[t] \in {"failed", "neither"} \/ delivered[t] > 0 \/ t \in gaveUp
    \/ \E s \in Scans : pc[s] = "exec" /\ death[t] <= cur[s]

NotifiedBeforeForgotten ==
    [][\A t \in watch \ watch' : Accounted(t)]_vars

\* The cursor goes back only when two scans write it, or at a bootstrap that
\* finds the list empty after unfinalized blocks were scanned: then blocks that
\* were processed are processed once more.
CursorMovesOn ==
    [][lastSeen' < lastSeen =>
          "overlap" \in mishaps \/ (phase = "skip" /\ ~OnlyFinalized)]_vars

\* What makes NotifiedBeforeForgotten, and the refinement below, inductive: a
\* scan on a block works through its extrinsics one by one, on a copy of a list
\* that only ever held submitted ones; a single scan finds every one of them
\* still on the list.
Handled(s, t) ==
    \/ t \in todo[s] \/ (pc[s] = "post" /\ t = now[s])
    \/ outcome[t] \in {"failed", "neither"} \/ delivered[t] > 0 \/ t \in gaveUp

SettledInv ==
    \A s \in Scans :
       /\ \A t \in pend[s] : pub[t] = "watched"
       /\ pc[s] \in OnBlock => \A t \in Indices(s) : Handled(s, t)
       /\ pc[s] \in {"capGet", "capSet", "exec"} => todo[s] = {}
       /\ pc[s] \in {"examine", "post"} => todo[s] \subseteq pend[s]
       /\ pc[s] = "post" => now[s] \in pend[s] /\ outcome[now[s]] = "success"
       /\ (pc[s] \in OnBlock /\ \A r \in Scans : r = s) => pend[s] \subseteq watch

\* The watch as TxnWatch describes it, seen through the list in Redis, the
\* webhooks that arrived and the scans that found an entry expired.
StatusOf(t) ==
    IF t \in watch THEN "watched"
    ELSE IF pub[t] = "watched" THEN "forgotten" ELSE "new"

ExpiredNow == {t \in Txns : \E s \in Scans :
                  pc[s] = "exec" /\ t \in pend[s] /\ death[t] <= cur[s]}

Abs == INSTANCE TxnWatch WITH
           succeeds <- {t \in Txns : outcome[t] = "success"},
           status   <- [t \in Txns |-> StatusOf(t)],
           told     <- delivered,
           excused  <- gaveUp \cup ExpiredNow,
           Overlap  <- \E r, s \in Scans : r # s

\* The notifier implements TxnWatch: however scans, retries, lost answers and
\* restarts interleave, an entry is watched once, posted only for a success
\* and while it is on the list (an overlapping scan may post a removed one),
\* and one whose success event was emitted is removed untold only for one of
\* the two reasons that excuse it.
ImplementsWatch == Abs!Spec

-----------------------------------------------------------------------------
(* Liveness, under FairSpec                                                *)

\* Scanning never stalls while something is watched: the list empties of
\* each entry or the cursor reaches the end of the bounded chain.  Needs the
\* flag to be cleared on every way out of a scan.
ScanProgresses ==
    \A t \in Txns : (t \in watch /\ birth[t] < MaxBlock)
                        ~> (t \notin watch \/ lastSeen = MaxBlock)

\* A successful extrinsic that is watched in time, and whose recorded range
\* covers its block, is reported to the provider or its retries run out,
\* unless a restart jumps over it.
TimelyIsReported ==
    \A t \in Txns :
        (/\ t \in watch \ missed /\ incl[t] # 0 /\ incl[t] <= death[t]
         /\ outcome[t] = "success")
        ~> (delivered[t] > 0 \/ t \in gaveUp \cup missed)

-----------------------------------------------------------------------------
(* What the repository says, and the code does not keep                    *)

\* ENVIRONMENT.md: TRUST_UNFINALIZED_BLOCKS says whether to examine blocks
\* that have not been finalized.  When it is off, none should be examined.
OnlyFinalizedUnlessTrusted ==
    \A s \in Scans : pc[s] \in OnBlock /\ ~TrustUnfinalized
        => cur[s] <= finalized

=============================================================================
