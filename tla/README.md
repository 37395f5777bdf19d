# account-service in TLA+

TLA+ models of the account service, the TLC runs that check them on small
instances, and TLAPS proofs of what matters most for every size.  Paths are
relative to the root of the repository; `publisher` is
`apps/worker/src/transaction_publisher/publisher.service.ts`, `notifier` is
`apps/worker/src/transaction_notifier/notifier.service.ts`, `scanner` is
`libs/common/src/utils/blockchain-scanner.service.ts`.

The API validates a request (sign-up, handle, key) and puts a job into a BullMQ
queue.  The worker signs and submits an extrinsic for the job, paid from the
provider's capacity, and records it in a watch list in Redis.  A scanner in the
same worker walks the chain block by block, looks for watched extrinsics, and
tells the provider by webhook.  Everything that outlives the worker process is in
Redis; everything else is lost when it exits.

## 1. Inventory

| Part | Code | State it keeps | Operations | Modelled in |
| --- | --- | --- | --- | --- |
| Transaction notifier and scanner | `notifier`, `scanner` | Redis: the cursor `lastSeenBlockNumber`, the hash `txnWatchList`, counters `epochCapacity:e`. Memory: `scanInProgress`, the variables of each `scan()` | bootstrap, `scan()` from an interval timer, webhooks with retries, removal of entries | `TxnNotifier`; what it promises: `TxnWatch` |
| Transaction publisher | `publisher` | The jobs (BullMQ) | `process` of a job: capacity check, sign, submit, `hset` of the watch-list entry | `PublishQueue` (a job's life), `TxnNotifier` (head, submit and watch), `CapacityGate`, `NonceService` |
| Enqueue service | `libs/common/src/services/enqueue-request.service.ts` | The queue in Redis | `add` with a content hash as job id | `PublishQueue`; what it promises: `Publication` |
| Base consumer | `apps/worker/src/BaseConsumer.ts` | Memory: `actives` | track, untrack, graceful shutdown | `PublishQueue` |
| Capacity gate | `publisher` 188-272 | Redis: the queue's pause. Memory: the timeout `capacity_check` | `checkCapacity` from bootstrap, from every job, from the timeout | `CapacityGate`; what the limit is worth: `CapacityLimit` |
| Nonce service | `libs/common/src/services/nonce.service.ts`, `lua/incrementNonce.lua` | Redis: keys `chain:nonce:k`, expiring after 2 s | `getNextNonce`, a reservation at bootstrap | `NonceService` |
| Redis watchdog | `apps/api/src/main.ts`, `apps/worker/src/main.ts`, `libs/common/src/utils/redis.ts` | Memory: one timeout, the flag `redisReady` | `redis.ready`, `redis.close`, the exit | `RedisWatchdog` |
| Webhook health check | `libs/common/src/services/provider-webhook.service.ts` | Memory: two counters, the registry's timeout | check, retry, healthy again, shut down | `WebhookHealth` |
| API controllers and services | `apps/api/src` | none | GET: two queries of the node each. POST: one `enqueueRequest` each | `AccountViews` (GET), `PublishQueue` (POST) |
| Webhook bodies | `notifier` 158-208, `libs/common/src/blockchain/blockchain.service.ts` 329 ff. | none | made from a block's events; the mock server of `rust-webhook-server` says which are well formed | `AccountViews` |
| Worker process | `apps/worker/src/main.ts`, `docker-compose.yaml` | Up or down | exit on an uncaught error, shutdown, crash, restart | in each module, for the state it touches |
| Frequency chain | used through `libs/common/src/blockchain` | Blocks, finality, epochs, pool, accounts | produce, finalize, fork, include, transact | external: `Chain`, and the external actions of the other modules |
| Configuration | `libs/common/src/config` | constants | read at start | as CONSTANTS and their ASSUMEs |
| `addToBatch.lua`, `lockBatch.lua`, `updateLastProcessed.lua` | `lua` | | not loaded by any code here | no |
| k6 tests, scripts, generated metadata | | | | no |

### How they interact

- API -> publisher: jobs in the queue, named by a hash of their content, so that the
  same request finds the same job.  Publisher -> notifier: the watch list.
  Notifier -> gate: `epochCapacity:e`, which the notifier writes and the gate
  compares with CAPACITY_LIMIT.  Notifier -> provider: webhooks.
- Publisher, gate and nonce service run in one event loop with the scanner: code
  between two awaits is atomic, and at each await any other part may run.  Those
  are the grains of the models' actions.
- `checkCapacity` has three callers that may be under way at once, and `scan()`
  may be under way twice: the flag is tested before an await and set after it
  (`scanner` 45-54).
- The health check and the Redis watchdog end the process they live in;
  `docker-compose.yaml` 82 and 98 restart a container that exits with an error.

### What makes each part correct, and what makes it hard

- *Notifier*: no block holding a watched extrinsic is skipped; nothing is
  forgotten without a reason; the provider is told, once, of what is final.
  Hard: crashes between webhook and removal, forks, a hash fetched before
  finality is looked up, entries written late, errors that end the process.
- *Queue*: a request that was answered is not lost, and not sent twice without a
  cause; every job ends.  Hard: ids that outlive failed jobs and not completed ones, a
  `moveToDelayed` that nobody awaits, jobs found stalled, a crash at each await.
- *Shutdown*: it ends, and waits for the job under way.  Hard: a job put back is
  neither completed nor failed, so it stays in the set that is waited for.
- *Gate*: a paused queue is resumed.  Hard: three interleaved callers, a pause that
  survives the process and a timeout that does not, swallowed errors, a counter
  that lags behind what was submitted.
- *Nonces*: reserved nonces are distinct and never below the account's index;
  skipped ones come back.  Hard: two services asked in turn, keys that expire.
- *Watchdog*: a connected process is not killed, a disconnected one is.  Hard:
  events that come before there is a handler.
- *Health check*: good only after enough good answers in a row, and it comes to a
  result.  Hard: two runs of checks that share counters and a registry entry.
- *Answers and webhooks*: an answer was right at some moment; a body tells what its
  transaction changed.  Hard: two queries against no fixed block, events that are
  there or not.

PROJECT.json lists the hazards at their lines, with the properties that cover them.

## 2. Modules

A definition with the comment "Mutant:" is a variant that the specification does
not use: a plausible mistake, kept to show that a property notices it.

### Chain

The external chain: blocks, finality, one switch of forks per allowed reorg,
mortal eras, inclusion.  It has just enough for the scanner: `head`, `finalized`,
`incl[t]` (the block that holds extrinsic `t`), `signed[t]` (where its era
starts), `outcome[t]` (what `notifier` 141-154 finds of it among the block's events: its success
event, a module's error, another error, or neither).  `EraBirth` and `EraDeath` compute
what the era classes of `@polkadot/types` compute, phase and quantisation by the period included, because a
property depends on it.

### TxnNotifier

Publisher (`pub[t]`: queued, read, sent, watched), watch list (`watch`, `birth`,
`death`), scanner (one record of locals per call of `scan()`, `pc[s]` names the
await it is at) and process.

| Actions | Code |
| --- | --- |
| PubRead, PubSubmit, PubWatch, PubFails | `publisher` 70-126: finalized number, sign and submit, `hset`, error |
| ScanStart, CheckInitial, ReadLastSeen, ReadBirths | `scanner` 44-56, `notifier` 76-109 |
| FetchHash, CheckParams (PastEnd), Advance, Finish | `scanner` 58-94, 110-121; `notifier` 85-93 |
| LoadPending, ScanThrows, SkipFailed, SkipNeither, StartPost | `notifier` 111-210, 224-226 |
| PostOk, PostFails, PostGivesUp | `notifier` 210-223 |
| CapacityGet, CapacitySet, CapacityFails | `notifier` 60-74 |
| Exec | `notifier` 236-251: expiry, removal and cursor in one pipeline |
| BootKeys, BootSkip | `notifier` 26-38 |
| Crash, Restart, ExitProcess | outside; `main.ts` 30-33 |

`mishaps`, `missed`, `gaveUp`, `delivered` and `found` are history variables: they
record which race or failure happened, so that a property can say exactly when it
holds.  None of them is read by an action's guard.

### TxnWatch

What the notifier promises about one extrinsic, without blocks, scans, Redis or
restarts: it is watched once, told of only if it succeeded and while it is watched
(after that only if scans overlap), and forgotten untold only if it did not
succeed or is excused.  `TxnNotifier!Abs` is its instance: the status is read off the watch list,
`told` is `delivered`, and an extrinsic is excused when its retries ran out or a scan
at its exec found it expired.

| Action of TxnWatch | Steps of TxnNotifier that are one |
| --- | --- |
| Watch | PubWatch |
| Tell | PostOk; PostFails when only the answer was lost |
| Forget | Exec, for all the extrinsics that its block settles |
| Excuse | PostGivesUp; the steps that bring a scan to, or away from, its exec |

### PublishQueue

Requests, their jobs in BullMQ's states, and the worker that processes one at a time.

| Actions | Code |
| --- | --- |
| Post (PostCall, PostSignUp, PostUnanswered) | the POST endpoints, `enqueueRequest`; the answer may be lost |
| Take | BullMQ, `BaseConsumer.onActive` |
| CheckOut, CheckOk | `publisher` 66-71, the check of a job: put back without await, or go on |
| Submit, SubmitFails | `publisher` 72-104, 135-186 |
| Record, RecordFails | `publisher` 105-125 |
| Complete, FailJob | BullMQ, `onCompleted`, `onFailed`; `removeOnComplete: 20` |
| MoveLands, Stalled | BullMQ: what `moveToDelayed` does when it gets there, and the look for stalled jobs |
| Look (LookOk, LookOut) | a check from bootstrap or from the timeout, `pending`: it resumes and retries, or pauses, or is cut short |
| Shutdown, Closed, Poll, Exit | `BaseConsumer` `onModuleDestroy` |
| Crash, Restart | outside |

`checkCapacity` is one step here; CapacityGate has its awaits.  Its outcomes
(`publisher` 195-272), the same for all three callers:

| | The check ends well | An awaited call rejects, which is caught and logged (267-269) |
| --- | --- | --- |
| NoCapacity: the answer is no | PauseQueue: paused, and the timeout set | PauseRejects: paused or not, and no timeout set |
| HasCapacity: the answer is yes | Refill: failed jobs retried, the timeout deleted, resumed | RefillRejects: nothing done (a query or `getFailed` rejects), or all but resumed |

`leftPaused` is a history variable: the queue is paused since a check that an error cut
short.

### Publication

What the service promises about a request, without queue, jobs, worker or restarts:
whoever got an answer has a request that is open until it is published or has failed;
what failed for lack of capacity may be taken up again, any other failure is the end;
what was published stays so, and goes out again only once that is excused.
`PublishQueue!Promise` is its instance: the status is read off the job and `sent`,
`times` is `sent`, and a request is excused when it is in `again`.

| Action of Publication | Steps of PublishQueue that are one |
| --- | --- |
| Ask | Post, which excuses a request whose job was trimmed |
| Publish | Submit |
| Fail | SubmitFails; Stalled, of a job found stalled the second time; both while nothing was sent |
| TakeUp | CheckOk, LookOk, when they retry a job |
| Forget | Stalled, of a job found stalled the first time after its extrinsic was sent |

All other steps are stutters, shutdown, crash and restart among them.

### CapacityGate

`checkCapacity` with callers `boot`, `job` and `timer`, each at its own await.
`paused` and the jobs are Redis's, `armed` is the timeout, `remaining`, `epoch` and
`inEpoch` are the chain's, `counted` is `epochCapacity`.  The worker starts with
whatever an earlier run left: waiting and failed jobs, a paused queue.
`capacityInfo` makes several queries; the ledger and the epoch are read in two steps.
The notifier's part is Count, MissCount (its update fails, and the extrinsic is never
counted) and CrashUncommitted (it is counted and will be once more).  Shutdown and
Closed are `onModuleDestroy`, Crash and Restart come from outside.
`ExitProcess` is what an unhandled rejection of `job.retry()` leads to.

### CapacityLimit

CapacityGate with two history variables that its steps determine: `passedFor[j]`, the
epoch for which a check let job `j` pass, and `unseen[e]`, the extrinsics that
`epochCapacity:e` did not have when a check last let a job pass for `e`.  They make it
possible to say by how much CAPACITY_LIMIT can be overspent.

### NonceService

`getNextNonce` in two steps, the node's answer and the Lua script, for the
worker's two instances of the service (`worker.module.ts` 79,
`publisher.module.ts` 23) at bootstrap and for one job at a time.  `KeyOf` is the
concatenation that the code really computes: the node's answer is a codec and not
a number, in spite of its declared type, so `currentNonce + i` joins strings.
`left` is a history variable: how long a caller's own key is still there.

### RedisWatchdog

`bootstrap()` of the API or of the worker, as `kind` says, which differ in one line:
the worker asks `redisReady` whether the first ready event came before its handlers
(Created).  Ready and Close are the client's events, at any time; Arm, Clear, Fire and
Tick are the one timeout, whose 30 s are `Timeout` ticks.  `pending` is the set of
timeouts that run and `handle` what the variable remembers, so that a timeout that
nobody can clear would be seen.

### WebhookHealth

Start is `webhook.unhealthy` (no code emits it yet, so it comes at any time), Fire the
timeout, AnswerBad and AnswerGood the code after the await, Shutdown and Destroy the
end of the module.  `setTimeout` runs before `addTimeout` throws, so a second event
starts a run that the registry does not know: `stray`.  Both runs share the counters
and the entry.  Again throws if the entry is gone, which ends the process.

### AccountViews

Two halves that share the accounts of the chain.  Requests: Ask, ReadMax
(`isValidMsaId`) and ReadDetail, with what each of the four services and its
controller make of the result and of an error; accounts change between the two
queries.  Webhooks: a sign-up is whatever calls the client lists (`accounts.service.ts`
65-80), so SignUp claims a handle or none, and SignUpAgain any of a handle and a
delegation; these, CreateHandle, ChangeHandle and AddKey are the
provider's transactions with their events (external), Report makes the body as the
notifier does, Receive is the provider's check of it as the mock server states it.
`views` and `change` are history variables: the answers that would have been right
since a request began, and the account before and after the transaction.

## 3. Runs

| Run | Instance | Checks | Distinct states |
| --- | --- | --- | --- |
| NotifierScan | 2 extrinsics that succeed or show neither event, 1 scan, 4 blocks, period 2, 1 retry, 1 crash | TypeOK, CursorInv, NoSilentSkip, DuplicateNeedsCause, CapacityExact, NotifiedBeforeForgotten, ImplementsWatch | 2,973,772 |
| NotifierRaces | 1 extrinsic, 2 overlapping scans, 5 blocks, 1 fork, 1 crash, dispatch errors of a module and others, which throw, finalized blocks only | CursorInv, DuplicateNeedsCause, DeliveredIsFinal, CursorMovesOn, NotifiedBeforeForgotten | 4,515,042 |
| NotifierLive | 1 extrinsic, 1 scan, 5 blocks, 1 crash, fairness | ScanProgresses, TimelyIsReported | 154,571 |
| QueueJobs | 2 requests, one a batch, 1 completed job kept, 2 delays, 2 checks out of capacity or cut short, 2 stops, fairness | TypeOK, NothingLost, SentTwiceHasCause, TrackedJobs, ShutdownEnds, EveryJobEnds, ImplementsPublication | 212,444 |
| GateChecks | CapacityLimit: 2 jobs, capacity 5, of which 0, 1 or 5 left at the start, limit 40 % (that is 2), cost 2, 2 epochs, 1 failed call, crash or shutdown, fairness | TypeOK, PausedHasWaker, LimitKept, PauseEnds | 898,414 |
| NonceSafe | 3 jobs, 2 services, 2 keys, 2 s, first index 9, 1 crash | TypeOK, NeverStale, SameListDistinct, SkippedIsReused | 153,758 |
| RedisLink | both programs, 4 ticks, fairness | TypeOK, KilledForCause, NoLimbo | 216 |
| HealthRuns | 3 retries, threshold 2, 3 events, 3 turns of the provider, fairness | TypeOK, HealthyIsEarned, NoThrowWhileUp, RunEnds | 2,884 |
| AccountAnswers | 1 request, 1 account, 2 handles, 2 keys | TypeOK, AnswerWasRight, BodyTellsChange, RefusedSignUps | 135,642 |

What they show:

- The cursor never passes a watched extrinsic, but for two races that the model
  names: the entry written after the scan went by, and the jump at bootstrap.
- The cursor goes back only when overlapping scans both write it, or at a bootstrap
  that finds the list empty after unfinalized blocks were scanned.
- An entry leaves the list only after a webhook, a failed dispatch, a block with neither
  its failure nor its success event, the end of its recorded range or the end of the
  retries.  A webhook is repeated only after an
  exit between post and removal, by overlapping scans, or when an answer was lost.
  In short, the notifier implements TxnWatch.
- When only finalized blocks are scanned, what is reported is final, except when a
  hash fetched before a fork is used after it (`scanner` 60-76).
- `epochCapacity` is exact unless the process exited, scans overlapped, the chain
  forked or its update failed.
- A request that was answered is in the queue until its extrinsic is submitted or it
  has failed.  Two extrinsics go out for one request only if its job was found
  stalled after the first, or posted again after its job was trimmed.  Jobs end, unless a
  check that an error cut short left the queue paused and nobody checks again.  A shutdown
  ends, though jobs that were put back stay in the set it waits for.
  In short, the queue and its worker implement Publication.
- A paused queue has the timeout or a check under way, and is resumed when there is
  capacity, unless the last check that ended was cut off by a failed call.  That
  covers every interleaving of the callers: a check that resumes late, or deletes
  another one's timeout.
- What an epoch's limit is overspent by is less than the cost of one extrinsic, plus
  that of each that `epochCapacity` did not have when the last check let a job pass,
  plus that of each that was included in an epoch for which no check had let it pass.
  Without any one of the three terms the run finds it violated.
- Nonces are never stale, because the publisher works on one job at a time: with
  two at once the property fails.  A skipped nonce comes back with the first job after
  the keys expired.
- The watchdog kills a process that was created only after a whole timeout without
  Redis; the API also if it did not hear its first ready event.  No process stays
  without Redis.
- Runs of health checks that overlap still do not declare the provider healthy too
  early, do not throw before the module is destroyed, and come to a result.
- An answer put together from two queries was right at one moment.  A webhook tells
  what changed; only the sign-up of an account that exists does not say whose it is.  The
  provider refuses two kinds of body, until the notifier gives them up, and no other: that
  sign-up's, and the one of a new account without a handle.

Runs that find a disagreement between the repository's words and its code:

| Run | Finding |
| --- | --- |
| DocTrustFlag | `notifier` 53 passes TRUST_UNFINALIZED_BLOCKS on as `onlyFinalized`: with the default setting unfinalized blocks are examined (ENVIRONMENT.md 9) |
| DocPoison | `dispatchError.asModule` throws for other errors (`notifier` 154): the worker exits on the same block for ever, and what is behind it is never reported |
| DocNonceLock | Keys are concatenations: a lock taken under one index is not seen under the next (`redis.ts` 19) |

Others were met and are named in the models, without a run of their own:

- An extrinsic submitted just before a crash is not watched, and its job submits
  another one (PublishQueue, the cause in SentTwiceHasCause).
- The death recorded at `publisher` 112-113 uses a finalized number older than the one
  signed with, so that an extrinsic can be dropped as expired while it is valid
  (TxnNotifier: TimelyIsReported speaks of the recorded range only).
- One failed call in `checkCapacity` (`publisher` 267-269) leaves a paused queue
  paused (CapacityGate: `gaveUp`; PublishQueue: `leftPaused`).
- An extrinsic whose events show neither a failure nor its success is logged as an error
  and taken off the list, and nobody is told (`notifier` 224-228; SkipNeither).
- A sign-up may be a new account and its delegation only, as in
  `docs/new-sign-up-flow.md` 16-17; its body has no handle, which the provider's type
  requires (`rust-webhook-server/src/types.rs` 64; RefusedSignUps).
- With less left than one extrinsic costs a job fails, nothing is paused or timed, and
  only some later check retries it (PublishQueue: EveryJobEnds counts such a job as
  ended).
- The limit is compared with what the notifier has counted (`publisher` 203), not with
  what was submitted: LimitKept says what that costs.
- Two overlapping checks retry the same job, and the unhandled rejection ends the
  process (CapacityGate, second disjunct of Retry).
- The API does not ask `redisReady` (KilledForCause names it).

### Bounds, and why they are enough

- *Blocks and period* (NotifierScan 4 and 2; NotifierLive, NotifierRaces 5 and 3): a block
  before the extrinsic's, its own, one after, and the end of its range all fit, and
  the period boundary between reading the finalized number and signing occurs.
  ProduceBlock is guarded by MaxBlock; liveness properties leave out entries whose
  range begins at the last block.
- *Two extrinsics, one scan* or *one extrinsic, two scans*: two extrinsics meet in
  one block, in one scan's loop and in one epoch counter; two scans are the
  smallest overlap.  NotifierLive has one scan: that scanning goes on is not checked for
  scans that clear each other's flag.
- *Outcomes*: each run has those that its question needs, between them all four.  With
  two extrinsics an outcome without a webhook is "neither"; the loop treats a failed
  dispatch in the same way, and NotifierRaces and NotifierLive have it.
- *One crash, one fork, one retry, one failed call*: each property's exceptions name
  single events; a second is the first again from a state that one already reaches.
- *Two jobs, two epochs, capacity 5 at cost 2, limit 2*: one extrinsic reaches the
  limit and the second overspends it; an amount that is above zero and pays for nothing
  is what may be left at the start, and so is nothing; an epoch turns while a check is
  under way.  Failed jobs from an earlier run make two checks meet over one failed job.
  A failed call and a crash in one behaviour are left to the proofs, except for
  PauseEnds, which a crash only helps: the restart begins with a check.
- *Two keys, three jobs, first index 9*: all keys can be taken, and indices cross
  from one digit to two.
- *Two requests, one completed job kept* (the code keeps 20): one job trims the
  other, and each is processed while the other waits, is put back or is stalled.  Two
  checks without capacity or cut short are one that pauses the queue and one that leaves
  it paused.  Two stops are a shutdown and a crash during it, or two crashes, after which a job has
  been stalled twice.  The code polls for 20 times; how often does not matter to it
  once it is more than once.  Bootstrap's and the timeout's checks can be to come together.
- *Four ticks*: room for the connection to come and go twice within one timeout.
- *Three events, threshold 2, three retries*: two runs overlap, end in any order, and
  a third begins over the entry they left.
- *One request, one account*: requests do not see each other.  The account can come
  into being between the queries, and ids 0, 2 and a malformed one are refused.
- Counters that only tell "once" from "more than once" stop at 2 (`delivered`,
  `sent`).
- CHECK_DEADLOCK is off where the system may stop: with all jobs done, epochs used up
  and keys expired; after a shutdown; with the last webhook taken; with the provider
  healthy again and no event left.

## 4. Fairness

FairSpec of TxnNotifier: blocks are produced and finalized (the chain goes on); a
publisher that has submitted gets its answer; the interval timer fires and awaits
resolve (`setInterval` in `notifier` 34-37, Node's event loop); a process
that exited is restarted (`docker-compose.yaml` 98).  Nothing is assumed about
forks, crashes, failing webhooks or when a job is taken.

LimitFairSpec, the Fairness of CapacityGate: awaits resolve, the timeout fires, epochs begin, the
notifier counts, a waiting job of a queue that is not paused is taken, a shutdown
closes the process, which is restarted.  Nothing is assumed about inclusion, errors or crashes.

FairSpec of PublishQueue: awaits resolve, commands on their way land, BullMQ looks
for stalled jobs, each check to come is made (the timeout fires, bootstrap's call goes
on), the shutdown's delays pass, the process is
restarted.  Take has strong fairness for each job: the queue is paused and resumed
and the worker busy and free again, so that the step is enabled only now and then,
and BullMQ takes waiting jobs in their order.  Nothing is assumed about which
outcome a check or a submission has, beyond the bound MaxOuts on the checks that find no
capacity or end in an error.  In particular the last check there is may be one that an
error cut short: EveryJobEnds excepts the queue that stays paused since.

FairSpec of RedisWatchdog: the clock goes on, the timeout fires, a close ends, and a
client without a connection tries again, each failed attempt a close event (ioredis'
default).  Redis need not come back.  FairSpec of WebhookHealth: timers fire and
requests are answered, well or badly.

Elsewhere weak fairness is enough: once enabled, these steps stay enabled until
taken or until the process exits, which happens finitely often within the bounds.

## 5. Assumptions

- One worker process, with BullMQ's default concurrency of one job.
- BullMQ: `add` of an id that is there changes nothing; a job found stalled waits
  again once and fails the second time; failed jobs are kept (`removeOnFail: false`).
- A provider's `remainingCapacity` reads as refilled once a new epoch has begun.  If
  the chain refills it only on the provider's next extrinsic, a queue paused at
  zero is not resumed at all; the models do not rest on that.
- Redis keeps its data, executes commands of one connection in order, and a
  pipeline as one step.
- `asModule` of a dispatch error that is not a module's throws; an unhandled
  rejection reaches the `uncaughtException` handler (Node 15 and later).
- `accountNextIndex` counts consecutive ready extrinsics of the pool; the account's
  index is at least 1, since the provider has registered itself.
- Events of a transaction are those of its calls, at most one of each name; so a sign-up
  lists at most one call of each kind.  Calls of other kinds emit none that a body is made
  of.
- CapacityGate has one check at a time for each of bootstrap, the job and the timeout: a
  timeout that is set again while its own check is under way fires when that has ended.
- Constants: the sets of jobs, requests, extrinsics and callers are finite, limits and
  bounds are natural numbers, CAPACITY_LIMIT is what the schema lets pass, `Missing`
  is no handle and no number.  Each is a named ASSUME in the module that declares it.

## 6. Proofs

All by TLAPS, for every value of the constants that satisfies the modules'
ASSUMEs.  Every invariant and every action property that a passing run checks is a
theorem, and so are both refinements.

*TxnNotifierProofs*.  TypeCorrect, CursorCorrect and NoSilentSkipHolds.
NoSilentSkip is not inductive: a step could pass an extrinsic because a scan's
own cursor was already wrong, because its copy of the block was not the block, or
because the recorded range began too late.  CursorInv adds these, in two layers.
`Basics` (types, cursors on the chain, inclusions on the chain, recorded births never
after the real ones) is inductive by itself; its arithmetic is in the lemma
EraBirthBound, that a mortal era asked about an earlier block never begins late.
`Tracking` (block copies are exact, no scan under way is past a watched extrinsic,
the saved cursor is not either) is inductive relative to it.  One lemma per group of
actions, one step per action.

*TxnWatchProofs*, each part inductive relative to those:

- NotForgotten and WatchImplemented, from SettledInv: an index found in a block is
  still to do, under way or accounted for, until exec, and a single scan finds every
  one of them still on the list.  The refinement has a lemma per action of TxnWatch;
  StepImplements joins them.
- ReportedIsFinal, from FromBlock: what a scan works on is from its own copy of the
  block, and the copy is exact and of a finalized block by CursorInv.
- DuplicatesHaveCause, from OneAtATime and ToldOnce: without an overlap one scan is
  at work, and an extrinsic that it has told of and not yet removed is not one that it
  has still to do.
- CursorGoesForward, from Onward: no scan is under way unless the process is up, and
  without an overlap a scan that is past the read of the cursor is ahead of it, so that
  what it writes is not behind.  OneAtATime rules out a second writer.
- CapacityIsExact, from Counting: what was found has left the list for good, the one
  scan on a block finds its extrinsics still there, and nobody writes the counter
  between its read and its write.

*CapacityGateProofs*.  TypeCorrect, and WakerKept: a paused queue has a waker unless
the last check was cut off.  PausedHasWaker is inductive relative to the types: a step
that pauses is a step of a call; one that deletes the timeout leaves its caller on the
way to `resume()`; a restart begins with a check.  LimitHolds, about CapacityLimit:
LimitKept says nothing of jobs that are under way, and is not inductive.  LimitInv adds
that one job is under way (OneUnderWay); that an extrinsic is in an epoch exactly if it
is in a block (IncludedHasEpoch); that a counter does not lack what was counted
(CounterCovers); and PassedAreKnown, about the jobs that passed for an epoch and are in
it or may still be: all but the last were either unknown to the check that let that one
pass, or are among extrinsics that together cost less than the limit.  The rest is
cardinalities.

*NonceServiceProofs*.  TypeCorrect, NeverStaleHolds, SameListDiffers and
SkippedComesBack.  Never stale needs that one job is under way and that what it knows
of the index is still true; that there is an index at all needs that each extrinsic
in the pool is of a job of its own (FewSent, a statement about cardinalities).
SameListDistinct is about
reservations that got a key: callers who are given the index + 50 because no key is left
get the same nonce (`nonce.service.ts` 39-41), of which only NeverStale speaks.
Distinct reservations need that a key whose reservation is remembered is set, and that
keys of one index differ (KeysDiffer).

*PublishQueueProofs*.  TypeCorrect, NothingIsLost, ResendsHaveCause, JobsAreTracked,
together one inductive invariant: a job under way, or being put back, is active and
never both; a check (lemma ChecksDo) changes jobs only from unpaid to waiting, whatever
cuts it short; completed jobs that are kept were sent and are kept once; what is being
recorded was sent; a sent request that may be sent again has its cause already.
PublicationImplemented, from that invariant: one lemma per group of steps says which
step of Publication it is or that it is a stutter, and StepRefines joins them.  The
invariant is needed for Submit (a job under way is open, or its resend is excused), and
for SubmitFails and Stalled (a job that fails was open, or was sent and stays published).

*RedisWatchdogProofs*.  TypeCorrect and CauseHolds.  The timer that runs is the one
that the variable remembers (OneTimer), and it has run no longer than the outage has
lasted (CountsOutage), unless a ready event was missed.

*WebhookHealthProofs*.  TypeCorrect, HealthIsEarned, ThrowsOnlyAtTheEnd.  The counter
of good answers is the streak; the entry stays from the first run until
`onModuleDestroy`; and the type bound of the counters needs that each run passes its end at most once.

*AccountViewsProofs*.  TypeCorrect and AnswersWereRight, from NowIsSeen: what a
request should be told now is among what it should have been told.  BodiesTellChanges
and OnlySomeSignUpsRefused, from WebhookInv: for each kind of transaction, which of the
events a body is made of are there and what they say of the change.  The second says
exactly which bodies are refused, so that it is about sign-ups with any list of calls.

Only model-checked: the liveness properties ScanProgresses, TimelyIsReported,
PauseEnds, ShutdownEnds, EveryJobEnds, NoLimbo and RunEnds (the prover has no rules
for fairness).

## 7. Not modelled

- Sign-in and the SIWF configuration: one call of a library, and a constant; the
  health endpoints, which answer constants; DTO validation and the Swagger set-up.
- Getters of single configuration values, and the schema except for CAPACITY_LIMIT.
- Queries of the chain that no service uses, and the set-up of its connection.
- The mock webhook server's memory of the last sign-up, which only the load test
  reads; the load tests, the scripts, the generated metadata.
- `addToBatch.lua`, `lockBatch.lua`, `updateLastProcessed.lua`: nothing loads them.
- Without a property, though listed as hazards: jobs that fail for lack of capacity
  and that no check retries (nothing in the code makes one happen, so there is
  nothing to state); a unit that is off by a constant factor (`notifier` 69).

## 8. Plan

Done, in this order: Chain, TxnNotifier with its proofs, CapacityGate with its proofs,
NonceService; then TxnWatch and the refinement, PublishQueue, RedisWatchdog,
WebhookHealth, AccountViews, and the proofs of all of them; then CapacityLimit, Publication
and its refinement, CursorMovesOn, and their proofs.  What could follow:

1. The whole way of a request: Publication and TxnWatch composed over the `hset` at
   `publisher` 114, where the two meet, as the promise that a request that was answered
   ends in a webhook, a visible failure or one of the named losses.
2. PublishQueue with CapacityGate's awaits inside it, in place of the check in one step.
3. Two worker processes on one Redis: the assumption of one is the compose file's, and
   the nonces and the gate are where a second would be noticed first.
