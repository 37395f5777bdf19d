---------------------------- MODULE AccountViews ----------------------------
(***************************************************************************)
(* What a client learns about an account: the answers of the GET endpoints *)
(* for accounts, handles, keys and delegations, each made of two queries   *)
(* of the node, and the webhook bodies that the worker makes of the events *)
(* of the provider's own transactions, which the provider (the mock server *)
(* of the repository) takes or refuses.  Accounts change meanwhile.        *)
(***************************************************************************)
EXTENDS Integers, FiniteSets

CONSTANTS
    Requests,   \* GET requests
    Handles,    \* names
    Missing,    \* undefined: a field that JSON.stringify leaves out
    MaxMsa,     \* bound: the last MSA id that is given out
    MaxKeys     \* bound: control keys of an account

ASSUME BoundsAssumption == MaxMsa \in Nat \ {0} /\ MaxKeys \in Nat \ {0}

ASSUME MissingAssumption == Missing \notin Handles \cup Int

Kinds == {"account", "handle", "keys", "delegation"}
Malformed == -1         \* a path parameter that BigInt() does not parse
Ids == {Malformed} \cup 0..(MaxMsa + 1)

VARIABLES
    \* the chain
    msaMax,     \* currentMsaIdentifierMaximum
    account,    \* account[m]: handle, number of keys, delegation to the provider
    txn,        \* the provider's latest transaction: its type and events
    \* the worker
    body,       \* the webhook body made of it
    verdict,    \* the provider's answer to it: 201, 400, or 0
    \* the requests
    pc,         \* pc[q]: the await q is at
    kind, id,   \* what q asks for
    answer,     \* answer[q]: status and content
    \* history
    views,      \* views[q]: the right answers since q began
    change      \* the account that txn was about, before and after it

chainVars == <<msaMax, account, txn, change>>
requestVars == <<pc, kind, id, answer>>
workVars == <<body, verdict>>
vars == <<chainVars, workVars, requestVars, views>>

Msas == 1..MaxMsa
Account(h, k, d) == [handle |-> h, keys |-> k, delegation |-> d]
NoAccount == Account(Missing, 0, "none")
Accounts == [handle : Handles \cup {Missing}, keys : 0..MaxKeys,
             delegation : {"none", "granted", "revoked"}]
Answer(status, content) == [status |-> status, content |-> content]
Nothing == Answer(0, Missing)

Types == {"CREATE_HANDLE", "CHANGE_HANDLE", "SIWF_SIGNUP", "ADD_KEY"}

NoTxn == [type |-> "none", events |-> {}]
NoBody == [type |-> "none", msaId |-> Missing, accountId |-> Missing,
           handle |-> Missing, newPublicKey |-> Missing]

TypeOK ==
    /\ msaMax \in 0..MaxMsa
    /\ account \in [Msas -> Accounts]
    /\ \A m \in Msas : m > msaMax => account[m] = NoAccount
    /\ pc \in [Requests -> {"idle", "max", "detail", "done"}]
    /\ kind \in [Requests -> Kinds] /\ id \in [Requests -> Ids]
    /\ txn.type \in Types \cup {"none"} /\ body.type \in {"none", txn.type}
    /\ verdict \in {0, 201, 400} /\ (body = NoBody => verdict = 0)
    /\ \A q \in Requests :
          /\ answer[q].status \in {0, 200, 400, 404, 500}
          /\ pc[q] = "detail" => id[q] \in 1..msaMax

Init ==
    /\ msaMax = 0
    /\ account = [m \in Msas |-> NoAccount]
    /\ txn = NoTxn /\ body = NoBody /\ verdict = 0
    /\ change = [msa |-> 0, before |-> NoAccount, after |-> NoAccount]
    /\ pc = [q \in Requests |-> "idle"]
    /\ kind = [q \in Requests |-> "account"] /\ id = [q \in Requests |-> 0]
    /\ answer = [q \in Requests |-> Nothing]
    /\ views = [q \in Requests |-> {}]

-----------------------------------------------------------------------------
(* The endpoints                                                           *)

\* What each controller makes of an error of its service.  Only that for
\* handles looks whether it was an invalid id.
AccountError == Answer(400, Missing)
KeysError == Answer(400, Missing)
DelegationError == Answer(400, Missing)
HandleError(invalid) == Answer(IF invalid THEN 400 ELSE 500, Missing)

Error(k, invalid) ==
    CASE k = "account"    -> AccountError
      [] k = "handle"     -> HandleError(invalid)
      [] k = "keys"       -> KeysError
      [] k = "delegation" -> DelegationError

Refused(k) == Error(k, TRUE)
Broken(k)  == Error(k, FALSE)

\* What each service, and its controller, make of the second query: an
\* account without a handle is one, and the others are missed.
AccountAnswer(a) == Answer(200, a.handle)
HandleAnswer(a) ==
    IF a.handle = Missing THEN Answer(404, Missing) ELSE Answer(200, a.handle)
KeysAnswer(a) == IF a.keys = 0 THEN KeysError ELSE Answer(200, a.keys)
DelegationAnswer(a) ==
    IF a.delegation = "none" THEN DelegationError ELSE Answer(200, a.delegation)

Detail(k, a) ==
    CASE k = "account"    -> AccountAnswer(a)
      [] k = "handle"     -> HandleAnswer(a)
      [] k = "keys"       -> KeysAnswer(a)
      [] k = "delegation" -> DelegationAnswer(a)

\* isValidMsaId
Valid(i, max) == i > 0 /\ i <= max

\* What an endpoint should say if it looked at one state of the chain.
View(k, i, max, accounts) ==
    CASE i = Malformed  -> Broken(k)
      [] Valid(i, max)  -> Detail(k, accounts[i])
      [] OTHER          -> Refused(k)

Ask(q) ==
    /\ pc[q] = "idle"
    /\ \E k \in Kinds, i \in Ids :
          /\ kind' = [kind EXCEPT ![q] = k]
          /\ id' = [id EXCEPT ![q] = i]
          /\ views' = [views EXCEPT ![q] = {View(k, i, msaMax, account)}]
    /\ pc' = [pc EXCEPT ![q] = "max"]
    /\ UNCHANGED <<chainVars, workVars, answer>>

Respond(q, a) ==
    /\ answer' = [answer EXCEPT ![q] = a]
    /\ pc' = [pc EXCEPT ![q] = "done"]

\* Mutant: an id that was not given out yet passes for a valid one.
ReadMaxNoUpper(q) ==
    /\ pc[q] = "max"
    /\ \/ /\ id[q] <= 0
          /\ Respond(q, Refused(kind[q]))
       \/ /\ id[q] > 0
          /\ pc' = [pc EXCEPT ![q] = "detail"]
          /\ UNCHANGED answer
    /\ UNCHANGED <<chainVars, workVars, kind, id, views>>

\* Mutant: the latest id is not a valid one (< for <=).
ReadMaxExclusive(q) ==
    /\ pc[q] = "max"
    /\ \/ /\ id[q] = Malformed
          /\ Respond(q, Broken(kind[q]))
       \/ /\ id[q] # Malformed /\ ~Valid(id[q], msaMax - 1)
          /\ Respond(q, Refused(kind[q]))
       \/ /\ Valid(id[q], msaMax - 1)
          /\ pc' = [pc EXCEPT ![q] = "detail"]
          /\ UNCHANGED answer
    /\ UNCHANGED <<chainVars, workVars, kind, id, views>>

\* getMsaIdMax, and the comparison.
ReadMax(q) ==
    /\ pc[q] = "max"
    /\ \/ /\ id[q] = Malformed
          /\ Respond(q, Broken(kind[q]))
       \/ /\ id[q] # Malformed /\ ~Valid(id[q], msaMax)
          /\ Respond(q, Refused(kind[q]))
       \/ /\ Valid(id[q], msaMax)
          /\ pc' = [pc EXCEPT ![q] = "detail"]
          /\ UNCHANGED answer
    /\ UNCHANGED <<chainVars, workVars, kind, id, views>>

\* getHandleForMsa, getKeysByMsaId or delegatorAndProviderToDelegation.
ReadDetail(q) ==
    /\ pc[q] = "detail"
    /\ Respond(q, Detail(kind[q], account[id[q]]))
    /\ UNCHANGED <<chainVars, workVars, kind, id, views>>

\* Either query rejects.
NodeFails(q) ==
    /\ pc[q] \in {"max", "detail"}
    /\ Respond(q, Broken(kind[q]))
    /\ views' = [views EXCEPT ![q] = @ \cup {Broken(kind[q])}]
    /\ UNCHANGED <<chainVars, workVars, kind, id>>

-----------------------------------------------------------------------------
(* The chain                                                               *)

Event(name, m, data) == [name |-> name, msaId |-> m, data |-> data]

\* Account m becomes a, by a transaction or by somebody else.
Change(m, a) ==
    /\ UNCHANGED requestVars
    /\ account' = [account EXCEPT ![m] = a]
    /\ msaMax' = IF m > msaMax THEN m ELSE msaMax
    /\ views' = [q \in Requests |->
                    IF pc[q] \in {"max", "detail"}
                    THEN views[q] \cup {View(kind[q], id[q], msaMax', account')}
                    ELSE views[q]]

\* A transaction of the provider is in a block, and its success event with it.
Transact(type, m, a, events) ==
    /\ Change(m, a)
    /\ txn' = [type |-> type, events |-> events]
    /\ body' = NoBody /\ verdict' = 0
    /\ change' = [msa |-> m, before |-> account[m], after |-> a]

Claimed(m, h) == IF h = Missing THEN {} ELSE {Event("HandleClaimed", m, h)}

\* A sign-up is a batch of the calls the client lists, at most one of each kind.
\* Here: createSponsoredAccountWithDelegation, and claimHandle if it is listed.
SignUp(h) ==
    /\ msaMax < MaxMsa
    /\ LET m == msaMax + 1
       IN  Transact("SIWF_SIGNUP", m, Account(h, 1, "granted"),
                    {Event("MsaCreated", m, 1), Event("DelegationGranted", m, 1)}
                        \cup Claimed(m, h))

Granted(m, grants) == IF grants THEN {Event("DelegationGranted", m, 1)} ELSE {}

\* The account exists: grantDelegation if it is listed, and so with claimHandle.
SignUpAgain(m, h, grants) ==
    /\ account[m].keys > 0
    /\ h # Missing => account[m].handle = Missing
    /\ LET a == account[m]
       IN  Transact("SIWF_SIGNUP", m,
                    Account(IF h = Missing THEN a.handle ELSE h, a.keys,
                            IF grants THEN "granted" ELSE a.delegation),
                    Granted(m, grants) \cup Claimed(m, h))

CreateHandle(m, h) ==
    /\ account[m].keys > 0 /\ account[m].handle = Missing
    /\ Transact("CREATE_HANDLE", m, [account[m] EXCEPT !.handle = h], Claimed(m, h))

ChangeHandle(m, h) ==
    /\ account[m].handle \notin {Missing, h}
    /\ Transact("CHANGE_HANDLE", m, [account[m] EXCEPT !.handle = h],
                {Event("HandleRetired", m, account[m].handle)} \cup Claimed(m, h))

AddKey(m) ==
    /\ account[m].keys \in 1..(MaxKeys - 1)
    /\ LET keys == account[m].keys + 1
       IN  Transact("ADD_KEY", m, [account[m] EXCEPT !.keys = keys],
                    {Event("PublicKeyAdded", m, keys)})

\* What the owner does without the provider: retire the handle, revoke the
\* delegation, retire the account.
OwnerActs(m) ==
    /\ \E a \in {[account[m] EXCEPT !.handle = Missing],
                 [account[m] EXCEPT !.delegation = "revoked"],
                 [account[m] EXCEPT !.handle = Missing, !.keys = 0]} :
          a # account[m] /\ Change(m, a)
    /\ UNCHANGED <<txn, workVars, change>>

-----------------------------------------------------------------------------
(* The webhook body                                                        *)

\* A field of the event of that name among the transaction's, if there is one.
Field(name, field) ==
    IF \E e \in txn.events : e.name = name
    THEN (CHOOSE e \in txn.events : e.name = name)[field] ELSE Missing

\* createWebhookRsp, without the options that it adds as they are.
WebhookRsp(msaId) == [NoBody EXCEPT !.type = txn.type, !.msaId = msaId]

\* Mutant: a change of handle is read off the first event of the section.
HandleBodyRetired ==
    LET name == IF txn.type = "CHANGE_HANDLE" THEN "HandleRetired" ELSE "HandleClaimed"
    IN  [WebhookRsp(Field(name, "msaId")) EXCEPT !.handle = Field(name, "data")]

\* handlePublishHandleTxResult
HandleBody ==
    [WebhookRsp(Field("HandleClaimed", "msaId")) EXCEPT
        !.handle = Field("HandleClaimed", "data")]

\* Mutant: the events are told apart by if and else, and the first one found
\* decides.
SignUpBodyFirst ==
    IF Field("MsaCreated", "msaId") # Missing
    THEN [WebhookRsp(Field("MsaCreated", "msaId")) EXCEPT
             !.accountId = Field("MsaCreated", "data")]
    ELSE [WebhookRsp(Missing) EXCEPT !.handle = Field("HandleClaimed", "data")]

\* handleSIWFTxnResult: each event is looked for by itself.
SignUpBody ==
    [WebhookRsp(Field("MsaCreated", "msaId")) EXCEPT
        !.accountId = Field("MsaCreated", "data"),
        !.handle = Field("HandleClaimed", "data")]

\* handlePublishKeyTxResult
KeyBody ==
    [WebhookRsp(Field("PublicKeyAdded", "msaId")) EXCEPT
        !.newPublicKey = Field("PublicKeyAdded", "data")]

\* processCurrentBlock makes the body from the events of the block, whatever
\* became of the account since.
Report ==
    /\ txn.type # "none" /\ body = NoBody
    /\ body' = CASE txn.type = "SIWF_SIGNUP" -> SignUpBody
                 [] txn.type = "ADD_KEY"     -> KeyBody
                 [] OTHER                    -> HandleBody
    /\ UNCHANGED <<chainVars, verdict, requestVars, views>>

\* The fields a body has to have to be of its type.
Required(type) ==
    CASE type = "SIWF_SIGNUP" -> {"accountId", "msaId", "handle"}
      [] type = "ADD_KEY"     -> {"msaId", "newPublicKey"}
      [] OTHER                -> {"msaId", "handle"}

\* echo_payload: 400 if the body is not of its type.
Receive ==
    /\ body # NoBody /\ verdict = 0
    /\ verdict' = IF \A field \in Required(body.type) : body[field] # Missing
                  THEN 201 ELSE 400
    /\ UNCHANGED <<chainVars, body, requestVars, views>>

-----------------------------------------------------------------------------
Names == Handles \cup {Missing}

Next ==
    \/ \E q \in Requests : Ask(q) \/ ReadMax(q) \/ ReadDetail(q) \/ NodeFails(q)
    \/ \E h \in Names : SignUp(h)
    \/ \E m \in 1..msaMax :
          \/ AddKey(m) \/ OwnerActs(m)
          \/ \E h \in Names, grants \in BOOLEAN : SignUpAgain(m, h, grants)
          \/ \E h \in Handles : CreateHandle(m, h) \/ ChangeHandle(m, h)
    \/ Report \/ Receive

Spec == Init /\ [][Next]_vars

-----------------------------------------------------------------------------
(* Properties                                                              *)

\* Every answer was the right one at some moment after the request came in,
\* though it is put together from two queries and the account may have come
\* into being, changed or gone between them.
AnswerWasRight == \A q \in Requests : pc[q] = "done" => answer[q] \in views[q]

\* A webhook tells what its transaction changed, and nothing else: the handle
\* that the account has since, the key it got, and whose account it is.  Only
\* a sign-up of an account that existed does not say which.
BodyTellsChange ==
    body # NoBody =>
       LET was == change.before
           is  == change.after
       IN  /\ body.handle = IF is.handle = was.handle THEN Missing ELSE is.handle
           /\ body.newPublicKey =
                 IF body.type = "ADD_KEY" THEN was.keys + 1 ELSE Missing
           /\ body.msaId \in {change.msa, Missing}
           /\ body.msaId = Missing => body.type = "SIWF_SIGNUP" /\ was # NoAccount

\* The provider refuses the webhooks of two kinds of sign-up, and no other:
\* of an account that was there before, and of one that was created and claimed
\* no handle.  For these the retries of the notifier are in vain, and the
\* provider never learns of the account, the delegation or the handle.
RefusedSignUps ==
    verdict # 0 =>
       (verdict = 400 <=>
           /\ body.type = "SIWF_SIGNUP"
           /\ change.before # NoAccount \/ change.after.handle = Missing)

=============================================================================
