------------------------- MODULE AccountViewsProofs -------------------------
(***************************************************************************)
(* Proofs about AccountViews, for any number of requests, accounts, names  *)
(* and keys: an answer made of two queries was right at one moment, and a  *)
(* webhook tells what its transaction changed.                             *)
(***************************************************************************)
EXTENDS AccountViews, TLAPS

\* While a request is under way what it should be told now is among what it
\* should have been told since it began.
NowIsSeen ==
    \A q \in Requests :
       pc[q] \in {"max", "detail"} => View(kind[q], id[q], msaMax, account) \in views[q]

AreFunctions ==
    /\ answer = [q \in Requests |-> answer[q]]
    /\ views = [q \in Requests |-> views[q]]

IInv == TypeOK /\ AreFunctions /\ NowIsSeen /\ AnswerWasRight

-----------------------------------------------------------------------------
(* The answers                                                             *)

\* An answer of any kind has one of the four codes.
LEMMA AnswerTypes ==
    ASSUME NEW k \in Kinds, NEW a
    PROVE  /\ Refused(k).status \in {200, 400, 404, 500}
           /\ Broken(k).status \in {200, 400, 404, 500}
           /\ Detail(k, a).status \in {200, 400, 404, 500}
<1> DEFINE Codes == {200, 400, 404, 500}
<1>1. \A s \in Codes : \A c : Answer(s, c).status \in Codes
  BY DEF Answer
<1> HIDE DEF Codes
<1>2. 200 \in Codes /\ 400 \in Codes /\ 404 \in Codes /\ 500 \in Codes
  BY DEF Codes
<1>3. /\ AccountError.status \in Codes /\ KeysError.status \in Codes
      /\ DelegationError.status \in Codes
      /\ HandleError(TRUE).status \in Codes /\ HandleError(FALSE).status \in Codes
  BY <1>1, <1>2 DEF AccountError, KeysError, DelegationError, HandleError
<1>4. /\ AccountAnswer(a).status \in Codes /\ HandleAnswer(a).status \in Codes
      /\ KeysAnswer(a).status \in Codes /\ DelegationAnswer(a).status \in Codes
  BY <1>1, <1>2, <1>3 DEF AccountAnswer, HandleAnswer, KeysAnswer, DelegationAnswer
<1>5. CASE k = "account"
  BY <1>3, <1>4, <1>5 DEF Refused, Broken, Error, Detail, Codes
<1>6. CASE k = "handle"
  <2>1. Refused(k) = Answer(400, Missing) /\ Broken(k) = Answer(500, Missing)
    BY <1>6 DEF Refused, Broken, Error, HandleError
  <2>2. Detail(k, a) = HandleAnswer(a)
    BY <1>6 DEF Detail
  <2> QED
    BY <1>1, <1>2, <1>4, <2>1, <2>2 DEF Codes
<1>7. CASE k = "keys"
  BY <1>3, <1>4, <1>7 DEF Refused, Broken, Error, Detail, Codes
<1>8. CASE k = "delegation"
  BY <1>3, <1>4, <1>8 DEF Refused, Broken, Error, Detail, Codes
<1> QED
  BY <1>5, <1>6, <1>7, <1>8 DEF Kinds

\* The first query tells the two cases in which there is no second one.
LEMMA ViewOfMax ==
    ASSUME NEW k, NEW i \in Ids, NEW max \in 0..MaxMsa, NEW accounts
    PROVE  /\ i = Malformed => View(k, i, max, accounts) = Broken(k)
           /\ i # Malformed /\ ~Valid(i, max) => View(k, i, max, accounts) = Refused(k)
           /\ Valid(i, max) => i \in 1..max
           /\ i \in 1..max => View(k, i, max, accounts) = Detail(k, accounts[i])
BY BoundsAssumption DEF View, Valid, Malformed, Ids

-----------------------------------------------------------------------------
(* The requests                                                            *)

LEMMA AskKeepsInv ==
    ASSUME IInv, NEW q \in Requests, Ask(q)
    PROVE  IInv'
<1>1. PICK k \in Kinds, i \in Ids :
         /\ kind' = [kind EXCEPT ![q] = k]
         /\ id' = [id EXCEPT ![q] = i]
         /\ views' = [views EXCEPT ![q] = {View(k, i, msaMax, account)}]
  BY DEF Ask
<1>2. pc' = [pc EXCEPT ![q] = "max"] /\ UNCHANGED <<chainVars, workVars, answer>>
  BY DEF Ask
<1>3. TypeOK'
  BY <1>1, <1>2 DEF IInv, TypeOK, chainVars, workVars
<1>4. AreFunctions'
  BY <1>1, <1>2 DEF IInv, AreFunctions
<1>5. ASSUME NEW p \in Requests, pc'[p] \in {"max", "detail"}
      PROVE  View(kind'[p], id'[p], msaMax', account') \in views'[p]
  BY <1>1, <1>2, <1>5 DEF IInv, TypeOK, AreFunctions, NowIsSeen, chainVars
<1>6. AnswerWasRight'
  BY <1>1, <1>2 DEF IInv, TypeOK, AreFunctions, AnswerWasRight
<1> QED
  BY <1>3, <1>4, <1>5, <1>6 DEF IInv, NowIsSeen

\* A request goes on to its second query.
LEMMA DetailKeepsInv ==
    ASSUME IInv, NEW q \in Requests, pc[q] = "max", id[q] \in 1..msaMax,
           pc' = [pc EXCEPT ![q] = "detail"],
           UNCHANGED <<chainVars, workVars, kind, id, answer, views>>
    PROVE  IInv'
<1>1. TypeOK'
  BY DEF IInv, TypeOK, chainVars, workVars
<1>2. AreFunctions' /\ NowIsSeen' /\ AnswerWasRight'
  BY DEF IInv, TypeOK, AreFunctions, NowIsSeen, AnswerWasRight, chainVars
<1> QED
  BY <1>1, <1>2 DEF IInv

\* A request is answered with what it should have been told at some moment.
LEMMA RespondKeepsInv ==
    ASSUME IInv, NEW q \in Requests, NEW a, Respond(q, a),
           a.status \in {200, 400, 404, 500}, a \in views'[q],
           \A p \in Requests \ {q} : views'[p] = views[p],
           views' = [p \in Requests |-> views'[p]],
           UNCHANGED <<chainVars, workVars, kind, id>>
    PROVE  IInv'
<1>1. TypeOK'
  BY DEF IInv, TypeOK, AreFunctions, Respond, chainVars, workVars
<1>2. AreFunctions'
  BY DEF IInv, AreFunctions, Respond
<1>3. NowIsSeen' /\ AnswerWasRight'
  BY DEF IInv, TypeOK, AreFunctions, NowIsSeen, AnswerWasRight, Respond, chainVars
<1> QED
  BY <1>1, <1>2, <1>3 DEF IInv

LEMMA ReadsKeepInv ==
    ASSUME IInv, NEW q \in Requests, ReadMax(q) \/ ReadDetail(q) \/ NodeFails(q)
    PROVE  IInv'
<1>1. /\ msaMax \in 0..MaxMsa /\ kind[q] \in Kinds /\ id[q] \in Ids
      /\ pc[q] \in {"max", "detail"} /\ UNCHANGED <<chainVars, workVars, kind, id>>
      /\ View(kind[q], id[q], msaMax, account) \in views[q]
  BY DEF IInv, TypeOK, NowIsSeen, ReadMax, ReadDetail, NodeFails
<1>2. views = [p \in Requests |-> views[p]]
  BY DEF IInv, AreFunctions
<1>3. CASE ReadMax(q)
  <2>1. CASE id[q] = Malformed /\ Respond(q, Broken(kind[q]))
    BY <1>1, <1>2, <1>3, <2>1, ViewOfMax, AnswerTypes, RespondKeepsInv DEF ReadMax
  <2>2. CASE /\ id[q] # Malformed /\ ~Valid(id[q], msaMax)
             /\ Respond(q, Refused(kind[q]))
    BY <1>1, <1>2, <1>3, <2>2, ViewOfMax, AnswerTypes, RespondKeepsInv DEF ReadMax
  <2>3. CASE /\ Valid(id[q], msaMax) /\ pc' = [pc EXCEPT ![q] = "detail"]
             /\ UNCHANGED answer
    BY <1>1, <1>3, <2>3, ViewOfMax, DetailKeepsInv DEF ReadMax
  <2> QED
    BY <1>3, <2>1, <2>2, <2>3 DEF ReadMax
<1>4. CASE ReadDetail(q)
  <2>1. id[q] \in 1..msaMax
    BY <1>4 DEF IInv, TypeOK, ReadDetail
  <2> QED
    BY <1>1, <1>2, <1>4, <2>1, ViewOfMax, AnswerTypes, RespondKeepsInv DEF ReadDetail
<1>5. CASE NodeFails(q)
  <2>1. /\ Respond(q, Broken(kind[q]))
        /\ views' = [views EXCEPT ![q] = @ \cup {Broken(kind[q])}]
    BY <1>5 DEF NodeFails
  <2>2. /\ Broken(kind[q]) \in views'[q]
        /\ \A p \in Requests \ {q} : views'[p] = views[p]
        /\ views' = [p \in Requests |-> views'[p]]
    BY <1>2, <2>1
  <2>3. Broken(kind[q]).status \in {200, 400, 404, 500}
    BY <1>1, AnswerTypes
  <2>4. UNCHANGED <<chainVars, workVars, kind, id>>
    BY <1>1
  <2> QED
    BY <2>1, <2>2, <2>3, <2>4, RespondKeepsInv
<1> QED
  BY <1>3, <1>4, <1>5

-----------------------------------------------------------------------------
(* The chain and the worker                                                *)

\* What an account can become.
LEMMA AccountTypes ==
    ASSUME NEW a \in Accounts
    PROVE  /\ NoAccount \in Accounts
           /\ \A h \in Names : Account(h, 1, "granted") \in Accounts
           /\ \A h \in Names, grants \in BOOLEAN :
                 Account(h, a.keys, IF grants THEN "granted" ELSE a.delegation)
                    \in Accounts
           /\ \A h \in Names : [a EXCEPT !.handle = h] \in Accounts
           /\ [a EXCEPT !.delegation = "revoked"] \in Accounts
           /\ [a EXCEPT !.handle = Missing, !.keys = 0] \in Accounts
           /\ \A n \in 0..MaxKeys : [a EXCEPT !.keys = n] \in Accounts
           /\ a.handle \in Names /\ a.keys \in 0..MaxKeys
<1> USE BoundsAssumption DEF Names
<1>1. a.handle \in Names /\ a.keys \in 0..MaxKeys
  BY DEF Accounts
<1>2. /\ \A h \in Names, n \in 0..MaxKeys : Account(h, n, "granted") \in Accounts
      /\ \A h \in Names : Account(h, a.keys, a.delegation) \in Accounts
  BY DEF Accounts, Account
<1>3. \A h \in Names : [a EXCEPT !.handle = h] \in Accounts
  BY DEF Accounts
<1>4. /\ [a EXCEPT !.delegation = "revoked"] \in Accounts
      /\ \A n \in 0..MaxKeys : [a EXCEPT !.keys = n] \in Accounts
  BY DEF Accounts
<1>5. [a EXCEPT !.handle = Missing, !.keys = 0] \in Accounts
  <2>1. [a EXCEPT !.handle = Missing, !.keys = 0]
           = [[a EXCEPT !.handle = Missing] EXCEPT !.keys = 0]
    OBVIOUS
  <2>2. \A b \in Accounts : [b EXCEPT !.keys = 0] \in Accounts
    BY DEF Accounts
  <2> QED
    BY <1>3, <2>1, <2>2
<1>6. NoAccount \in Accounts
  BY DEF NoAccount, Account, Accounts
<1> QED
  BY <1>1, <1>2, <1>3, <1>4, <1>5, <1>6

\* Account m, the next one at most, becomes a.
LEMMA ChangeKeepsInv ==
    ASSUME IInv, NEW m \in Msas, m <= msaMax + 1, NEW a \in Accounts, Change(m, a),
           txn'.type \in Types \cup {"none"}, body'.type \in {"none", txn'.type},
           verdict' \in {0, 201, 400}, body' = NoBody => verdict' = 0
    PROVE  IInv'
<1> USE BoundsAssumption
<1>1. /\ msaMax \in 0..MaxMsa /\ account \in [Msas -> Accounts]
      /\ msaMax' = IF m > msaMax THEN m ELSE msaMax
      /\ account' = [account EXCEPT ![m] = a]
      /\ UNCHANGED <<pc, kind, id, answer>>
  BY DEF IInv, TypeOK, Change, requestVars
<1>2. TypeOK'
  <2>1. msaMax' \in 0..MaxMsa /\ account' \in [Msas -> Accounts] /\ msaMax <= msaMax'
    BY <1>1 DEF Msas
  <2>2. \A n \in Msas : n > msaMax' => account'[n] = NoAccount
    BY <1>1 DEF IInv, TypeOK, Msas
  <2>3. \A q \in Requests : pc'[q] = "detail" => id'[q] \in 1..msaMax'
    BY <1>1, <2>1 DEF IInv, TypeOK
  <2> QED
    BY <1>1, <2>1, <2>2, <2>3 DEF IInv, TypeOK
<1>3. \A q \in Requests :
         views'[q] = IF pc[q] \in {"max", "detail"}
                     THEN views[q] \cup {View(kind[q], id[q], msaMax', account')}
                     ELSE views[q]
  BY DEF Change
<1>4. AreFunctions'
  BY <1>1 DEF IInv, AreFunctions, Change
<1>5. ASSUME NEW q \in Requests, pc'[q] \in {"max", "detail"}
      PROVE  View(kind'[q], id'[q], msaMax', account') \in views'[q]
  <2>1. kind' = kind /\ id' = id /\ pc[q] \in {"max", "detail"}
    BY <1>1, <1>5
  <2>2. views'[q] = views[q] \cup {View(kind[q], id[q], msaMax', account')}
    BY <1>3, <2>1
  <2> QED
    BY <2>1, <2>2
<1>6. ASSUME NEW q \in Requests, pc'[q] = "done" PROVE answer'[q] \in views'[q]
  BY <1>1, <1>3, <1>6 DEF IInv, AnswerWasRight
<1> QED
  BY <1>2, <1>4, <1>5, <1>6 DEF IInv, NowIsSeen, AnswerWasRight

LEMMA TransactKeepsInv ==
    ASSUME IInv, NEW type \in Types, NEW m \in Msas, m <= msaMax + 1,
           NEW a \in Accounts, NEW events, Transact(type, m, a, events)
    PROVE  IInv'
<1>1. txn'.type = type /\ body'.type = "none" /\ verdict' = 0 /\ Change(m, a)
  BY DEF Transact, NoBody
<1> QED
  BY <1>1, ChangeKeepsInv

\* The provider's transactions, and what the owner does.
LEMMA ChainKeepsInv ==
    ASSUME IInv,
           \/ \E h \in Names : SignUp(h)
           \/ \E m \in 1..msaMax :
                 \/ AddKey(m) \/ OwnerActs(m)
                 \/ \E h \in Names, grants \in BOOLEAN : SignUpAgain(m, h, grants)
                 \/ \E h \in Handles : CreateHandle(m, h) \/ ChangeHandle(m, h)
    PROVE  IInv'
<1> USE BoundsAssumption
<1>1. msaMax \in 0..MaxMsa /\ account \in [Msas -> Accounts]
  BY DEF IInv, TypeOK
<1>2. ASSUME NEW h \in Names, SignUp(h) PROVE IInv'
  <2>1. msaMax + 1 \in Msas /\ msaMax + 1 <= msaMax + 1
    BY <1>1, <1>2 DEF SignUp, Msas
  <2>2. Account(h, 1, "granted") \in Accounts
    BY DEF Account, Accounts, Names
  <2> QED
    BY <1>2, <2>1, <2>2, TransactKeepsInv DEF SignUp, Types
<1>3. ASSUME NEW m \in 1..msaMax,
             \/ AddKey(m) \/ OwnerActs(m)
             \/ \E h \in Names, grants \in BOOLEAN : SignUpAgain(m, h, grants)
             \/ \E h \in Handles : CreateHandle(m, h) \/ ChangeHandle(m, h)
      PROVE  IInv'
  <2>1. m \in Msas /\ m <= msaMax + 1 /\ account[m] \in Accounts
    BY <1>1 DEF Msas
  <2>2. CASE AddKey(m)
    <3>1. account[m].keys + 1 \in 0..MaxKeys
      BY <2>2 DEF AddKey
    <3>2. [account[m] EXCEPT !.keys = account[m].keys + 1] \in Accounts
      BY <2>1, <3>1, AccountTypes
    <3> QED
      BY <2>1, <2>2, <3>2, TransactKeepsInv DEF AddKey, Types
  <2>3. CASE OwnerActs(m)
    <3>1. PICK a \in {[account[m] EXCEPT !.handle = Missing],
                      [account[m] EXCEPT !.delegation = "revoked"],
                      [account[m] EXCEPT !.handle = Missing, !.keys = 0]} : Change(m, a)
      BY <2>3 DEF OwnerActs
    <3>2. a \in Accounts
      <4>1. Missing \in Names
        BY DEF Names
      <4> QED
        BY <2>1, <3>1, <4>1, AccountTypes
    <3>3. UNCHANGED <<txn, body, verdict>>
      BY <2>3 DEF OwnerActs, workVars
    <3> QED
      BY <2>1, <3>1, <3>2, <3>3, ChangeKeepsInv DEF IInv, TypeOK
  <2>4. ASSUME NEW h \in Names, NEW grants \in BOOLEAN, SignUpAgain(m, h, grants)
        PROVE  IInv'
    <3> DEFINE name == IF h = Missing THEN account[m].handle ELSE h
    <3>1. name \in Names
      BY <2>1, AccountTypes
    <3> HIDE DEF name
    <3>2. Account(name, account[m].keys,
                  IF grants THEN "granted" ELSE account[m].delegation) \in Accounts
      BY <2>1, <3>1, AccountTypes
    <3> QED
      BY <2>1, <2>4, <3>2, TransactKeepsInv DEF SignUpAgain, Types, name
  <2>5. ASSUME NEW h \in Handles, CreateHandle(m, h) \/ ChangeHandle(m, h) PROVE IInv'
    <3>1. [account[m] EXCEPT !.handle = h] \in Accounts
      BY <2>1, AccountTypes DEF Names
    <3> QED
      BY <2>1, <2>5, <3>1, TransactKeepsInv DEF CreateHandle, ChangeHandle, Types
  <2> QED
    BY <1>3, <2>2, <2>3, <2>4, <2>5
<1> QED
  BY <1>2, <1>3

\* The worker makes a body, and the provider takes or refuses it.
LEMMA WorkKeepsInv == ASSUME IInv, Report \/ Receive PROVE IInv'
<1>1. /\ UNCHANGED <<msaMax, account, txn, pc, kind, id, answer, views>>
      /\ body'.type \in {"none", txn.type} /\ verdict' \in {0, 201, 400}
      /\ body' = NoBody => verdict' = 0
  <2>1. CASE Report
    <3>1. body'.type = txn.type
      BY <2>1 DEF Report, SignUpBody, KeyBody, HandleBody, WebhookRsp, NoBody
    <3> QED
      BY <2>1, <3>1 DEF Report, IInv, TypeOK, chainVars, requestVars
  <2>2. CASE Receive
    BY <2>2 DEF Receive, IInv, TypeOK, chainVars, requestVars
  <2> QED
    BY <2>1, <2>2
<1>2. TypeOK'
  BY <1>1 DEF IInv, TypeOK
<1>3. AreFunctions' /\ NowIsSeen' /\ AnswerWasRight'
  BY <1>1 DEF IInv, AreFunctions, NowIsSeen, AnswerWasRight
<1> QED
  BY <1>2, <1>3 DEF IInv

-----------------------------------------------------------------------------
(* The theorems                                                            *)

LEMMA InitInv == Init => IInv
<1> SUFFICES ASSUME Init PROVE IInv
  OBVIOUS
<1>1. TypeOK
  <2>1. NoAccount \in Accounts /\ Nothing.status = 0
    BY BoundsAssumption DEF NoAccount, Accounts, Account, Nothing, Answer
  <2> QED
    BY <2>1, BoundsAssumption
       DEF Init, TypeOK, Kinds, Ids, NoTxn, NoBody, Types, Msas
<1>2. AreFunctions /\ NowIsSeen /\ AnswerWasRight
  BY DEF Init, AreFunctions, NowIsSeen, AnswerWasRight
<1> QED
  BY <1>1, <1>2 DEF IInv

LEMMA NextKeepsInv == ASSUME IInv, [Next]_vars PROVE IInv'
<1>1. CASE UNCHANGED vars
  BY <1>1 DEF vars, chainVars, workVars, requestVars, IInv, TypeOK, AreFunctions,
              NowIsSeen, AnswerWasRight
<1>2. CASE \E q \in Requests : Ask(q) \/ ReadMax(q) \/ ReadDetail(q) \/ NodeFails(q)
  BY <1>2, AskKeepsInv, ReadsKeepInv
<1> QED
  BY <1>1, <1>2, ChainKeepsInv, WorkKeepsInv DEF Next

\* What is seen of an account is up to date until the answer is given.
THEOREM ViewsCorrect == Spec => []IInv
BY InitInv, NextKeepsInv, PTL DEF Spec

\* Every variable keeps its type, and a second query is only made about an
\* id that was given out.
THEOREM TypeCorrect == Spec => []TypeOK
BY ViewsCorrect, PTL DEF IInv

\* Every answer was the right one at some moment after its request came in.
THEOREM AnswersWereRight == Spec => []AnswerWasRight
BY ViewsCorrect, PTL DEF IInv

-----------------------------------------------------------------------------
(* The events of a transaction                                             *)

\* Field, of any set of events.
FieldOf(S, name, field) ==
    IF \E e \in S : e.name = name
    THEN (CHOOSE e \in S : e.name = name)[field] ELSE Missing

LEMMA OneEvent ==
    ASSUME NEW S, NEW name, NEW m, NEW d, Event(name, m, d) \in S,
           \A e \in S : e.name = name => e = Event(name, m, d)
    PROVE  FieldOf(S, name, "msaId") = m /\ FieldOf(S, name, "data") = d
<1>1. (CHOOSE e \in S : e.name = name) = Event(name, m, d)
  BY DEF Event
<1>2. \E e \in S : e.name = name
  BY DEF Event
<1> QED
  BY <1>1, <1>2 DEF FieldOf, Event

LEMMA NoEvent ==
    ASSUME NEW S, NEW name, \A e \in S : e.name # name
    PROVE  FieldOf(S, name, "msaId") = Missing /\ FieldOf(S, name, "data") = Missing
BY DEF FieldOf

LEMMA EventName == \A n, m, d : Event(n, m, d).name = n
BY DEF Event

\* A name is claimed by one event, ...
LEMMA ClaimedByOne ==
    ASSUME NEW R, NEW m, NEW h, h # Missing, \A e \in R : e.name # "HandleClaimed"
    PROVE  /\ FieldOf(R \cup Claimed(m, h), "HandleClaimed", "msaId") = m
           /\ FieldOf(R \cup Claimed(m, h), "HandleClaimed", "data") = h
<1> DEFINE S == R \cup Claimed(m, h)
<1>1. /\ Event("HandleClaimed", m, h) \in S
      /\ \A e \in S : e.name = "HandleClaimed" => e = Event("HandleClaimed", m, h)
  BY DEF Claimed
<1> QED
  BY <1>1, OneEvent

\* ... or by none.
LEMMA ClaimedByNone ==
    ASSUME NEW R, NEW m, NEW h, h = Missing, \A e \in R : e.name # "HandleClaimed"
    PROVE  /\ FieldOf(R \cup Claimed(m, h), "HandleClaimed", "msaId") = Missing
           /\ FieldOf(R \cup Claimed(m, h), "HandleClaimed", "data") = Missing
<1>1. \A e \in R \cup Claimed(m, h) : e.name # "HandleClaimed"
  BY DEF Claimed
<1> QED
  BY <1>1, NoEvent

\* The events S of a transaction that made `is' of account m, which was `was'.
Tells(S, type, m, was, is) ==
    LET same == is.handle = was.handle
    IN  /\ type \in Types /\ m \in Msas /\ was.keys \in Nat
        /\ FieldOf(S, "HandleClaimed", "msaId") = IF same THEN Missing ELSE m
        /\ FieldOf(S, "HandleClaimed", "data") = IF same THEN Missing ELSE is.handle
        /\ FieldOf(S, "MsaCreated", "msaId") = IF was = NoAccount THEN m ELSE Missing
        /\ FieldOf(S, "MsaCreated", "data") = IF was = NoAccount THEN 1 ELSE Missing
        /\ type = "ADD_KEY" =>
              /\ same
              /\ FieldOf(S, "PublicKeyAdded", "msaId") = m
              /\ FieldOf(S, "PublicKeyAdded", "data") = was.keys + 1
        /\ type \in {"CREATE_HANDLE", "CHANGE_HANDLE"} => ~same /\ was # NoAccount
        /\ same \/ is.handle # Missing

\* An account that was given out is told from none by its delegation, which
\* can be revoked and not undone.
GivenOut == \A m \in 1..msaMax : account[m].delegation # "none"

EventsTell ==
    txn.type # "none" =>
        Tells(txn.events, txn.type, change.msa, change.before, change.after)

MadeBody ==
    CASE txn.type = "SIWF_SIGNUP" -> SignUpBody
      [] txn.type = "ADD_KEY"     -> KeyBody
      [] OTHER                    -> HandleBody

BodyIsMade == body # NoBody => txn.type # "none" /\ body = MadeBody

RefusedLacks ==
    verdict # 0 =>
        /\ body # NoBody
        /\ verdict = 400 <=>
              \E field \in Required(body.type) : body[field] = Missing

WebhookInv == GivenOut /\ EventsTell /\ BodyIsMade /\ RefusedLacks

-----------------------------------------------------------------------------
(* The events of each transaction                                          *)

\* Account m is in range, and differs from no account.
LEMMA GivenOutAccount ==
    ASSUME IInv, GivenOut, NEW m \in 1..msaMax
    PROVE  /\ m \in Msas /\ account[m] \in Accounts /\ account[m] # NoAccount
           /\ account[m].keys \in Nat
<1>1. m \in Msas /\ account[m] \in Accounts
  BY BoundsAssumption DEF IInv, TypeOK, Msas
<1>2. account[m] # NoAccount
  BY DEF GivenOut, NoAccount, Account
<1> QED
  BY <1>1, <1>2, BoundsAssumption DEF Accounts

\* No account is created but by a sign-up.
LEMMA NotCreated ==
    ASSUME NEW R, NEW m, NEW h, \A e \in R : e.name # "MsaCreated"
    PROVE  /\ FieldOf(R \cup Claimed(m, h), "MsaCreated", "msaId") = Missing
           /\ FieldOf(R \cup Claimed(m, h), "MsaCreated", "data") = Missing
<1>1. \A e \in R \cup Claimed(m, h) : e.name # "MsaCreated"
  BY EventName DEF Claimed
<1> QED
  BY <1>1, NoEvent

LEMMA SignUpTells ==
    ASSUME IInv, NEW h \in Names, SignUp(h)
    PROVE  EventsTell'
<1> DEFINE m == msaMax + 1
           R == {Event("MsaCreated", m, 1), Event("DelegationGranted", m, 1)}
           S == R \cup Claimed(m, h)
           is == Account(h, 1, "granted")
<1>1. m \in Msas /\ account[m] = NoAccount
  BY BoundsAssumption DEF IInv, TypeOK, SignUp, Msas
<1>2. /\ txn'.events = S /\ txn'.type = "SIWF_SIGNUP"
      /\ change'.msa = m /\ change'.before = NoAccount /\ change'.after = is
  BY <1>1 DEF SignUp, Transact
<1>3. is.handle = h /\ NoAccount.handle = Missing /\ NoAccount.keys = 0
  BY DEF Account, NoAccount
<1>4. /\ FieldOf(S, "HandleClaimed", "msaId") = IF h = Missing THEN Missing ELSE m
      /\ FieldOf(S, "HandleClaimed", "data") = h
  <2>1. \A e \in R : e.name # "HandleClaimed"
    BY EventName
  <2> HIDE DEF R
  <2>2. CASE h = Missing
    BY <2>1, <2>2, ClaimedByNone
  <2>3. CASE h # Missing
    <3>1. /\ FieldOf(R \cup Claimed(m, h), "HandleClaimed", "msaId") = m
          /\ FieldOf(R \cup Claimed(m, h), "HandleClaimed", "data") = h
      BY <2>1, <2>3, ClaimedByOne
    <3> QED
      BY <2>3, <3>1
  <2> QED
    BY <2>2, <2>3
<1>5. /\ FieldOf(S, "MsaCreated", "msaId") = m
      /\ FieldOf(S, "MsaCreated", "data") = 1
  <2>1. Event("MsaCreated", m, 1) \in S
    OBVIOUS
  <2>2. \A e \in S : e.name = "MsaCreated" => e = Event("MsaCreated", m, 1)
    BY EventName DEF Claimed
  <2> QED
    BY <2>1, <2>2, OneEvent
<1> HIDE DEF m, S, R, is
<1>6. Tells(S, "SIWF_SIGNUP", m, NoAccount, is)
  BY <1>1, <1>3, <1>4, <1>5 DEF Tells, Types
<1> QED
  BY <1>2, <1>6 DEF EventsTell

LEMMA SignUpAgainTells ==
    ASSUME IInv, GivenOut, NEW m \in 1..msaMax, NEW h \in Names,
           NEW grants \in BOOLEAN, SignUpAgain(m, h, grants)
    PROVE  EventsTell'
<1> DEFINE R == Granted(m, grants)
           S == R \cup Claimed(m, h)
           was == account[m]
           name == IF h = Missing THEN was.handle ELSE h
           is == Account(name, was.keys, IF grants THEN "granted" ELSE was.delegation)
<1>1. m \in Msas /\ was # NoAccount /\ was.keys \in Nat
  BY GivenOutAccount
<1>2. /\ txn'.events = S /\ txn'.type = "SIWF_SIGNUP"
      /\ change'.msa = m /\ change'.before = was /\ change'.after = is
  BY DEF SignUpAgain, Transact
<1>3. is.handle = name /\ (h # Missing => was.handle = Missing)
  BY DEF Account, SignUpAgain
<1>4. /\ FieldOf(S, "HandleClaimed", "msaId") = IF h = Missing THEN Missing ELSE m
      /\ FieldOf(S, "HandleClaimed", "data") = h
  <2>1. \A e \in R : e.name # "HandleClaimed"
    BY EventName DEF Granted
  <2> HIDE DEF R
  <2>2. CASE h = Missing
    BY <2>1, <2>2, ClaimedByNone
  <2>3. CASE h # Missing
    <3>1. /\ FieldOf(R \cup Claimed(m, h), "HandleClaimed", "msaId") = m
          /\ FieldOf(R \cup Claimed(m, h), "HandleClaimed", "data") = h
      BY <2>1, <2>3, ClaimedByOne
    <3> QED
      BY <2>3, <3>1
  <2> QED
    BY <2>2, <2>3
<1>5. /\ FieldOf(S, "MsaCreated", "msaId") = Missing
      /\ FieldOf(S, "MsaCreated", "data") = Missing
  <2>1. \A e \in R : e.name # "MsaCreated"
    BY EventName DEF Granted
  <2> QED
    BY <2>1, NotCreated
<1> HIDE DEF S, R, is, was
<1>6. Tells(S, "SIWF_SIGNUP", m, was, is)
  BY <1>1, <1>3, <1>4, <1>5 DEF Tells, Types
<1> QED
  BY <1>2, <1>6 DEF EventsTell

LEMMA HandleTells ==
    ASSUME IInv, GivenOut, NEW m \in 1..msaMax, NEW h \in Handles,
           CreateHandle(m, h) \/ ChangeHandle(m, h)
    PROVE  EventsTell'
<1> DEFINE was == account[m]
           is == [was EXCEPT !.handle = h]
<1>1. /\ m \in Msas /\ was # NoAccount /\ was.keys \in Nat /\ was \in Accounts
      /\ h # Missing
  BY GivenOutAccount, MissingAssumption
<1>2. is.handle = h /\ was.handle # h
  BY <1>1 DEF CreateHandle, ChangeHandle, Accounts
<1> DEFINE type == IF CreateHandle(m, h) THEN "CREATE_HANDLE" ELSE "CHANGE_HANDLE"
           R == IF CreateHandle(m, h) THEN {}
                ELSE {Event("HandleRetired", m, was.handle)}
<1>3. /\ \A e \in R : e.name = "HandleRetired"
      /\ type \in {"CREATE_HANDLE", "CHANGE_HANDLE"}
      /\ txn'.events = R \cup Claimed(m, h) /\ txn'.type = type
      /\ change'.msa = m /\ change'.before = was /\ change'.after = is
  <2>1. CASE CreateHandle(m, h)
    <3>1. /\ txn'.events = Claimed(m, h) /\ txn'.type = "CREATE_HANDLE"
          /\ change'.msa = m /\ change'.before = was /\ change'.after = is
      BY <2>1 DEF CreateHandle, Transact
    <3>2. R = {} /\ type = "CREATE_HANDLE"
      BY <2>1
    <3> QED
      BY <3>1, <3>2
  <2>2. CASE ~CreateHandle(m, h)
    <3>1. /\ R = {Event("HandleRetired", m, was.handle)}
          /\ type = "CHANGE_HANDLE" /\ ChangeHandle(m, h)
      BY <2>2
    <3>2. /\ txn'.events = {Event("HandleRetired", m, was.handle)} \cup Claimed(m, h)
          /\ txn'.type = "CHANGE_HANDLE"
          /\ change'.msa = m /\ change'.before = was /\ change'.after = is
      BY <3>1 DEF ChangeHandle, Transact
    <3>3. \A e \in R : e.name = "HandleRetired"
      BY <3>1, EventName
    <3> QED
      BY <3>1, <3>2, <3>3
  <2> QED
    BY <2>1, <2>2
<1> HIDE DEF R, type
<1> DEFINE S == R \cup Claimed(m, h)
<1>4. /\ FieldOf(S, "HandleClaimed", "msaId") = m
      /\ FieldOf(S, "HandleClaimed", "data") = h
  <2>1. \A e \in R : e.name # "HandleClaimed"
    BY <1>3
  <2> QED
    BY <1>1, <2>1, ClaimedByOne
<1>5. /\ FieldOf(S, "MsaCreated", "msaId") = Missing
      /\ FieldOf(S, "MsaCreated", "data") = Missing
  <2>1. \A e \in R : e.name # "MsaCreated"
    BY <1>3
  <2> QED
    BY <2>1, NotCreated
<1> HIDE DEF S, was, is
<1>6. Tells(S, type, m, was, is)
  BY <1>1, <1>2, <1>3, <1>4, <1>5 DEF Tells, Types
<1> QED
  BY <1>3, <1>6 DEF EventsTell, S

LEMMA AddKeyTells ==
    ASSUME IInv, GivenOut, NEW m \in 1..msaMax, AddKey(m)
    PROVE  EventsTell'
<1> DEFINE was == account[m]
           is == [was EXCEPT !.keys = was.keys + 1]
           key == Event("PublicKeyAdded", m, was.keys + 1)
           S == {key}
<1>1. m \in Msas /\ was # NoAccount /\ was.keys \in Nat /\ was \in Accounts
  BY GivenOutAccount
<1>2. /\ txn'.events = S /\ txn'.type = "ADD_KEY"
      /\ change'.msa = m /\ change'.before = was /\ change'.after = is
  BY DEF AddKey, Transact
<1>3. is.handle = was.handle
  BY <1>1 DEF Accounts
<1>4. key.name = "PublicKeyAdded"
  BY EventName
<1>5. /\ FieldOf(S, "PublicKeyAdded", "msaId") = m
      /\ FieldOf(S, "PublicKeyAdded", "data") = was.keys + 1
  BY OneEvent
<1>6. /\ FieldOf(S, "HandleClaimed", "msaId") = Missing
      /\ FieldOf(S, "HandleClaimed", "data") = Missing
      /\ FieldOf(S, "MsaCreated", "msaId") = Missing
      /\ FieldOf(S, "MsaCreated", "data") = Missing
  BY <1>4, NoEvent
<1> HIDE DEF S, was, is, key
<1>7. Tells(S, "ADD_KEY", m, was, is)
  BY <1>1, <1>3, <1>5, <1>6 DEF Tells, Types
<1> QED
  BY <1>2, <1>7 DEF EventsTell

-----------------------------------------------------------------------------
(* The bodies                                                              *)

Body(type, msaId, accountId, handle, key) ==
    [type |-> type, msaId |-> msaId, accountId |-> accountId,
     handle |-> handle, newPublicKey |-> key]

\* What each handler puts into a body.
LEMMA BodyShapes ==
    /\ HandleBody = Body(txn.type, Field("HandleClaimed", "msaId"), Missing,
                         Field("HandleClaimed", "data"), Missing)
    /\ KeyBody = Body(txn.type, Field("PublicKeyAdded", "msaId"), Missing,
                      Missing, Field("PublicKeyAdded", "data"))
    /\ SignUpBody = Body(txn.type, Field("MsaCreated", "msaId"),
                         Field("MsaCreated", "data"),
                         Field("HandleClaimed", "data"), Missing)
<1> DEFINE t == txn.type
           hId == Field("HandleClaimed", "msaId")
           h == Field("HandleClaimed", "data")
           mId == Field("MsaCreated", "msaId")
           a == Field("MsaCreated", "data")
           kId == Field("PublicKeyAdded", "msaId")
           k == Field("PublicKeyAdded", "data")
<1>1. HandleBody = Body(t, hId, Missing, h, Missing)
  <2> HIDE DEF t, hId, h, mId, a, kId, k
  <2>1. [NoBody EXCEPT !.type = t]
          = Body(t, Missing, Missing, Missing, Missing)
    BY DEF NoBody, Body
  <2>2. [Body(t, Missing, Missing, Missing, Missing) EXCEPT !.msaId = hId]
          = Body(t, hId, Missing, Missing, Missing)
    BY DEF Body
  <2>3. [Body(t, hId, Missing, Missing, Missing) EXCEPT !.handle = h]
          = Body(t, hId, Missing, h, Missing)
    BY DEF Body
  <2>4. HandleBody
          = [[[NoBody EXCEPT !.type = t] EXCEPT !.msaId = hId] EXCEPT !.handle = h]
    BY DEF HandleBody, WebhookRsp, t, hId, h
  <2> QED
    BY <2>1, <2>2, <2>3, <2>4
<1>2. KeyBody = Body(t, kId, Missing, Missing, k)
  <2> HIDE DEF t, hId, h, mId, a, kId, k
  <2>1. [NoBody EXCEPT !.type = t]
          = Body(t, Missing, Missing, Missing, Missing)
    BY DEF NoBody, Body
  <2>2. [Body(t, Missing, Missing, Missing, Missing) EXCEPT !.msaId = kId]
          = Body(t, kId, Missing, Missing, Missing)
    BY DEF Body
  <2>3. [Body(t, kId, Missing, Missing, Missing) EXCEPT !.newPublicKey = k]
          = Body(t, kId, Missing, Missing, k)
    BY DEF Body
  <2>4. KeyBody
          = [[[NoBody EXCEPT !.type = t] EXCEPT !.msaId = kId] EXCEPT !.newPublicKey = k]
    BY DEF KeyBody, WebhookRsp, t, kId, k
  <2> QED
    BY <2>1, <2>2, <2>3, <2>4
<1>3. SignUpBody = Body(t, mId, a, h, Missing)
  <2> HIDE DEF t, hId, h, mId, a, kId, k
  <2>1. [NoBody EXCEPT !.type = t]
          = Body(t, Missing, Missing, Missing, Missing)
    BY DEF NoBody, Body
  <2>2. [Body(t, Missing, Missing, Missing, Missing) EXCEPT !.msaId = mId]
          = Body(t, mId, Missing, Missing, Missing)
    BY DEF Body
  <2>3. [Body(t, mId, Missing, Missing, Missing) EXCEPT !.accountId = a]
          = Body(t, mId, a, Missing, Missing)
    BY DEF Body
  <2>4. [Body(t, mId, a, Missing, Missing) EXCEPT !.handle = h]
          = Body(t, mId, a, h, Missing)
    BY DEF Body
  <2>5. SignUpBody = [[[[NoBody EXCEPT !.type = t] EXCEPT !.msaId = mId]
            EXCEPT !.accountId = a] EXCEPT !.handle = h]
    BY DEF SignUpBody, WebhookRsp, t, mId, a, h
  <2> QED
    BY <2>1, <2>2, <2>3, <2>4, <2>5
<1> QED
  BY <1>1, <1>2, <1>3

\* A body tells what its transaction changed, and is of its type but for that
\* of a sign-up of an account that was there, or that has no handle.
LEMMA MadeBodyTells ==
    ASSUME txn.type # "none", EventsTell, body = MadeBody
    PROVE  /\ BodyTellsChange
           /\ (\E field \in Required(body.type) : body[field] = Missing) <=>
                 /\ body.type = "SIWF_SIGNUP"
                 /\ change.before # NoAccount \/ change.after.handle = Missing
<1> DEFINE was == change.before
           is == change.after
           m == change.msa
           same == is.handle = was.handle
           hId == Field("HandleClaimed", "msaId")
           h == Field("HandleClaimed", "data")
           mId == Field("MsaCreated", "msaId")
           a == Field("MsaCreated", "data")
           kId == Field("PublicKeyAdded", "msaId")
           k == Field("PublicKeyAdded", "data")
<1>1. /\ txn.type \in Types /\ m \in Msas /\ was.keys \in Nat
      /\ hId = IF same THEN Missing ELSE m
      /\ h = IF same THEN Missing ELSE is.handle
      /\ mId = IF was = NoAccount THEN m ELSE Missing
      /\ a = IF was = NoAccount THEN 1 ELSE Missing
      /\ txn.type = "ADD_KEY" => same /\ kId = m /\ k = was.keys + 1
      /\ txn.type \in {"CREATE_HANDLE", "CHANGE_HANDLE"} => ~same /\ was # NoAccount
      /\ was = NoAccount => was.handle = Missing
      /\ same \/ is.handle # Missing
  BY DEF EventsTell, Tells, FieldOf, Field, NoAccount, Account
<1>2. m # Missing /\ was.keys + 1 # Missing /\ 1 # Missing
  BY <1>1, MissingAssumption DEF Msas
<1> HIDE DEF was, is, m, hId, h, mId, a, kId, k
<1>3. CASE txn.type = "SIWF_SIGNUP"
  <2>1. body = Body("SIWF_SIGNUP", mId, a, h, Missing)
    BY <1>3, BodyShapes DEF MadeBody, mId, a, h
  <2>2. /\ body.type = "SIWF_SIGNUP" /\ body.msaId = mId /\ body.handle = h
        /\ body.newPublicKey = Missing
        /\ body["accountId"] = a /\ body["msaId"] = mId /\ body["handle"] = h
    BY <2>1 DEF Body
  <2>3. BodyTellsChange
    BY <1>1, <1>2, <2>2 DEF BodyTellsChange, was, is, m
  <2>4. Required(body.type) = {"accountId", "msaId", "handle"}
    BY <2>2 DEF Required
  <2>5. /\ was = NoAccount => a # Missing /\ mId # Missing
        /\ was = NoAccount => (h = Missing <=> is.handle = Missing)
        /\ was # NoAccount => a = Missing
    BY <1>1, <1>2, <1>3
  <2> QED
    BY <2>2, <2>3, <2>4, <2>5 DEF was, is
<1>4. CASE txn.type = "ADD_KEY"
  <2>1. body = Body("ADD_KEY", kId, Missing, Missing, k)
    BY <1>4, BodyShapes DEF MadeBody, kId, k
  <2>2. /\ body.type = "ADD_KEY" /\ body.msaId = kId /\ body.handle = Missing
        /\ body.newPublicKey = k
        /\ body["msaId"] = kId /\ body["newPublicKey"] = k
    BY <2>1 DEF Body
  <2>3. BodyTellsChange
    BY <1>1, <1>2, <1>4, <2>2 DEF BodyTellsChange, was, is, m
  <2>4. Required(body.type) = {"msaId", "newPublicKey"}
    BY <2>2 DEF Required
  <2> QED
    BY <1>1, <1>2, <1>4, <2>2, <2>3, <2>4
<1>5. CASE txn.type \in {"CREATE_HANDLE", "CHANGE_HANDLE"}
  <2>1. body = Body(txn.type, hId, Missing, h, Missing)
    BY <1>5, BodyShapes DEF MadeBody, hId, h
  <2>2. /\ body.type = txn.type /\ body.msaId = hId /\ body.handle = h
        /\ body.newPublicKey = Missing
        /\ body["msaId"] = hId /\ body["handle"] = h
    BY <2>1 DEF Body
  <2>3. BodyTellsChange
    BY <1>1, <1>2, <1>5, <2>2 DEF BodyTellsChange, was, is, m
  <2>4. Required(body.type) = {"msaId", "handle"}
    BY <1>5, <2>2 DEF Required
  <2> QED
    BY <1>1, <1>2, <1>5, <2>2, <2>3, <2>4
<1> QED
  BY <1>1, <1>3, <1>4, <1>5 DEF Types

-----------------------------------------------------------------------------
(* The webhooks' invariant                                                 *)

\* A transaction starts anew, and gives an account its delegation.
LEMMA TransactKeepsWebhooks ==
    ASSUME IInv, GivenOut, NEW type, NEW m \in Msas, m <= msaMax + 1,
           NEW a \in Accounts, NEW events, Transact(type, m, a, events),
           a.delegation # "none", EventsTell'
    PROVE  WebhookInv'
<1>1. GivenOut'
  <2>1. /\ msaMax \in 0..MaxMsa /\ account \in [Msas -> Accounts]
        /\ account' = [account EXCEPT ![m] = a]
        /\ msaMax' = IF m > msaMax THEN m ELSE msaMax
    BY DEF Transact, Change, IInv, TypeOK
  <2>2. \A n \in 1..msaMax' : n \in Msas /\ (n = m \/ n \in 1..msaMax)
    BY <2>1, BoundsAssumption DEF Msas
  <2> QED
    BY <2>1, <2>2 DEF GivenOut
<1>2. body' = NoBody /\ verdict' = 0
  BY DEF Transact
<1> QED
  BY <1>1, <1>2 DEF WebhookInv, BodyIsMade, RefusedLacks

LEMMA ProviderKeepsWebhooks ==
    ASSUME IInv, WebhookInv,
           \/ \E h \in Names : SignUp(h)
           \/ \E m \in 1..msaMax :
                 \/ AddKey(m)
                 \/ \E h \in Names, grants \in BOOLEAN : SignUpAgain(m, h, grants)
                 \/ \E h \in Handles : CreateHandle(m, h) \/ ChangeHandle(m, h)
    PROVE  WebhookInv'
<1> USE BoundsAssumption
<1>0. msaMax \in 0..MaxMsa /\ account \in [Msas -> Accounts] /\ GivenOut
  BY DEF IInv, TypeOK, WebhookInv
<1>1. ASSUME NEW h \in Names, SignUp(h) PROVE WebhookInv'
  <2>1. msaMax + 1 \in Msas /\ msaMax + 1 <= msaMax + 1
    BY <1>0, <1>1 DEF SignUp, Msas
  <2>2. /\ Account(h, 1, "granted") \in Accounts
        /\ Account(h, 1, "granted").delegation # "none"
    BY DEF Account, Accounts, Names
  <2>3. EventsTell'
    BY <1>1, SignUpTells
  <2> QED
    BY <1>0, <1>1, <2>1, <2>2, <2>3, TransactKeepsWebhooks DEF SignUp
<1>2. ASSUME NEW m \in 1..msaMax, AddKey(m) PROVE WebhookInv'
  <2> DEFINE a == [account[m] EXCEPT !.keys = account[m].keys + 1]
  <2>1. /\ m \in Msas /\ m <= msaMax + 1 /\ account[m] \in Accounts
        /\ account[m].delegation # "none"
    BY <1>0 DEF Msas, GivenOut
  <2>2. account[m].keys + 1 \in 0..MaxKeys
    BY <1>2 DEF AddKey
  <2>3. a \in Accounts
    BY <2>1, <2>2, AccountTypes
  <2>4. a.delegation # "none"
    BY <2>1 DEF Accounts
  <2>5. EventsTell'
    BY <1>0, <1>2, AddKeyTells
  <2> HIDE DEF a
  <2> QED
    BY <1>0, <1>2, <2>1, <2>3, <2>4, <2>5, TransactKeepsWebhooks DEF AddKey, a
<1>3. ASSUME NEW m \in 1..msaMax, NEW h \in Names, NEW grants \in BOOLEAN,
             SignUpAgain(m, h, grants)
      PROVE  WebhookInv'
  <2> DEFINE name == IF h = Missing THEN account[m].handle ELSE h
             a == Account(name, account[m].keys,
                          IF grants THEN "granted" ELSE account[m].delegation)
  <2>1. /\ m \in Msas /\ m <= msaMax + 1 /\ account[m] \in Accounts
        /\ account[m].delegation # "none"
    BY <1>0 DEF Msas, GivenOut
  <2>2. name \in Names
    BY <2>1, AccountTypes
  <2> HIDE DEF name
  <2>3. a \in Accounts
    BY <2>1, <2>2, AccountTypes
  <2>4. a.delegation # "none"
    BY <2>1 DEF Account
  <2>5. EventsTell'
    BY <1>0, <1>3, SignUpAgainTells
  <2> HIDE DEF a
  <2> QED
    BY <1>0, <1>3, <2>1, <2>3, <2>4, <2>5, TransactKeepsWebhooks
       DEF SignUpAgain, a, name
<1>4. ASSUME NEW m \in 1..msaMax, NEW h \in Handles,
             CreateHandle(m, h) \/ ChangeHandle(m, h)
      PROVE  WebhookInv'
  <2> DEFINE a == [account[m] EXCEPT !.handle = h]
  <2>1. /\ m \in Msas /\ m <= msaMax + 1 /\ account[m] \in Accounts
        /\ account[m].delegation # "none"
    BY <1>0 DEF Msas, GivenOut
  <2>2. a \in Accounts
    BY <2>1, AccountTypes DEF Names
  <2>3. a.delegation # "none"
    BY <2>1 DEF Accounts
  <2>4. EventsTell'
    BY <1>0, <1>4, HandleTells
  <2> HIDE DEF a
  <2> QED
    BY <1>0, <1>4, <2>1, <2>2, <2>3, <2>4, TransactKeepsWebhooks
       DEF CreateHandle, ChangeHandle, a
<1> QED
  BY <1>1, <1>2, <1>3, <1>4

\* The owner never undoes the sign-up.
LEMMA OwnerKeepsWebhooks ==
    ASSUME IInv, WebhookInv, NEW m \in 1..msaMax, OwnerActs(m)
    PROVE  WebhookInv'
<1>1. PICK a \in {[account[m] EXCEPT !.handle = Missing],
                  [account[m] EXCEPT !.delegation = "revoked"],
                  [account[m] EXCEPT !.handle = Missing, !.keys = 0]} : Change(m, a)
  BY DEF OwnerActs
<1>2. /\ m \in Msas /\ account[m] \in Accounts /\ account[m].delegation # "none"
      /\ msaMax \in 0..MaxMsa /\ account \in [Msas -> Accounts]
  BY BoundsAssumption DEF IInv, TypeOK, WebhookInv, GivenOut, Msas
<1>3. a.delegation # "none"
  <2>1. [account[m] EXCEPT !.handle = Missing, !.keys = 0]
           = [[account[m] EXCEPT !.handle = Missing] EXCEPT !.keys = 0]
    OBVIOUS
  <2>2. [account[m] EXCEPT !.handle = Missing] \in Accounts
    BY <1>2, AccountTypes DEF Names
  <2>3. /\ [account[m] EXCEPT !.handle = Missing].delegation # "none"
        /\ [account[m] EXCEPT !.delegation = "revoked"].delegation # "none"
    BY <1>2 DEF Accounts
  <2>4. [[account[m] EXCEPT !.handle = Missing] EXCEPT !.keys = 0].delegation # "none"
    BY <2>2, <2>3 DEF Accounts
  <2> QED
    BY <1>1, <2>1, <2>3, <2>4
<1>4. GivenOut'
  BY <1>1, <1>2, <1>3 DEF WebhookInv, GivenOut, Change, Msas
<1>5. UNCHANGED <<txn, change, body, verdict>>
  BY DEF OwnerActs, workVars
<1>6. EventsTell' /\ BodyIsMade' /\ RefusedLacks'
  BY <1>5 DEF WebhookInv, EventsTell, BodyIsMade, MadeBody, RefusedLacks,
     SignUpBody, KeyBody, HandleBody, WebhookRsp, Field
<1> QED
  BY <1>4, <1>6 DEF WebhookInv

LEMMA WorkKeepsWebhooks ==
    ASSUME WebhookInv, Report \/ Receive
    PROVE  WebhookInv'
<1>1. UNCHANGED <<msaMax, account, txn, change>>
  BY DEF Report, Receive, chainVars
<1>2. GivenOut' /\ EventsTell' /\ (MadeBody)' = MadeBody
  BY <1>1 DEF WebhookInv, GivenOut, EventsTell, MadeBody, SignUpBody, KeyBody,
     HandleBody, WebhookRsp, Field
<1>3. CASE Report
  <2>1. txn.type # "none" /\ body' = MadeBody /\ verdict' = verdict /\ body = NoBody
    BY <1>3 DEF Report, MadeBody
  <2>2. verdict = 0
    BY <2>1 DEF WebhookInv, RefusedLacks
  <2> QED
    BY <1>1, <1>2, <2>1, <2>2 DEF WebhookInv, BodyIsMade, RefusedLacks
<1>4. CASE Receive
  <2>1. /\ body # NoBody /\ body' = body
        /\ verdict' = IF \A field \in Required(body.type) : body[field] # Missing
                      THEN 201 ELSE 400
    BY <1>4 DEF Receive
  <2> QED
    BY <1>1, <1>2, <2>1 DEF WebhookInv, BodyIsMade, RefusedLacks
<1> QED
  BY <1>3, <1>4

LEMMA NextKeepsWebhooks == ASSUME IInv, WebhookInv, [Next]_vars PROVE WebhookInv'
<1>1. ASSUME UNCHANGED <<chainVars, workVars>> PROVE WebhookInv'
  BY <1>1 DEF chainVars, workVars, WebhookInv, GivenOut, EventsTell, BodyIsMade,
     MadeBody, RefusedLacks, SignUpBody, KeyBody, HandleBody, WebhookRsp, Field
<1>2. CASE \/ UNCHANGED vars
           \/ \E q \in Requests : Ask(q) \/ ReadMax(q) \/ ReadDetail(q) \/ NodeFails(q)
  BY <1>1, <1>2 DEF vars, Ask, ReadMax, ReadDetail, NodeFails
<1> QED
  BY <1>2, ProviderKeepsWebhooks, OwnerKeepsWebhooks, WorkKeepsWebhooks DEF Next

LEMMA InitWebhooks == Init => WebhookInv
BY DEF Init, WebhookInv, GivenOut, EventsTell, BodyIsMade, RefusedLacks, NoTxn

LEMMA WebhooksTell == WebhookInv => BodyTellsChange /\ RefusedSignUps
<1> SUFFICES ASSUME WebhookInv PROVE BodyTellsChange /\ RefusedSignUps
  OBVIOUS
<1>1. CASE body = NoBody
  BY <1>1 DEF WebhookInv, RefusedLacks, BodyTellsChange, RefusedSignUps
<1>2. CASE body # NoBody
  BY <1>2, MadeBodyTells DEF WebhookInv, BodyIsMade, RefusedLacks, RefusedSignUps
<1> QED
  BY <1>1, <1>2

\* A webhook tells what its transaction changed, and nothing else.
THEOREM BodiesTellChanges == Spec => []BodyTellsChange
BY InitInv, NextKeepsInv, InitWebhooks, NextKeepsWebhooks, WebhooksTell, PTL DEF Spec

\* The provider refuses the webhook of a sign-up of an account that was there
\* before, or that claimed no handle, and no other webhook.
THEOREM OnlySomeSignUpsRefused == Spec => []RefusedSignUps
BY InitInv, NextKeepsInv, InitWebhooks, NextKeepsWebhooks, WebhooksTell, PTL DEF Spec

=============================================================================
