------------------------- MODULE NonceServiceProofs -------------------------
(***************************************************************************)
(* Proofs about NonceService, for any number of jobs, services, candidate  *)
(* keys and crashes, and any expiry: nonces are never stale, reservations  *)
(* of one candidate list differ, and a skipped nonce is used again.        *)
(***************************************************************************)
EXTENDS NonceService, FiniteSetTheorems, TLAPS

Done == {j \in Jobs : pc[j] = "done"}

\* Each extrinsic that the node holds is of a job of its own.
FewSent == IsFiniteSet(sent) /\ Cardinality(sent) <= Cardinality(Done)

LastIndex == First + Cardinality(Jobs)

IndexTypes == \A c \in Callers : base[c] \in First..LastIndex

\* One job is under way, and knows the account's index; a reservation is at or
\* above it.
OneJob == \A j, k \in Working : j = k

KnowsIndex ==
    \A j \in Jobs :
       /\ pc[j] = "reserve" => base[j] = NextIndex
       /\ pc[j] = "submit" => nonce[j] >= NextIndex

\* A caller's key is there as long as the caller thinks so.
KeyIsThere ==
    \A c \in Callers :
       /\ pc[c] \in {"idle", "index", "reserve"} => left[c] = 0
       /\ left[c] > 0 =>
             /\ nonce[c] - base[c] \in 0..(NumKeys - 1)
             /\ ttl[KeyOf(base[c], nonce[c] - base[c])] >= left[c]

IInv ==
    /\ TypeOK /\ FewSent /\ IndexTypes /\ OneJob /\ KnowsIndex /\ KeyIsThere
    /\ SameListDistinct

-----------------------------------------------------------------------------
(* Numbers                                                                 *)

\* A set of naturals that is not empty has a least element.
LEMMA MinOfNats ==
    ASSUME NEW S \in SUBSET Nat, S # {}
    PROVE  Min(S) \in S /\ \A y \in S : Min(S) <= y
<1>1. \E x \in S : \A y \in S : ~ (<<y, x>> \in OpToRel(<, Nat))
  BY WFMin, NatLessThanWellFounded, Zenon
<1>2. \A x, y \in S : ~ (<<y, x>> \in OpToRel(<, Nat)) => x <= y
  BY DEF OpToRel
<1>3. \E x \in S : \A y \in S : x =< y
  BY <1>1, <1>2
<1> QED
  BY <1>3 DEF Min

LEMMA JobsFacts ==
    /\ Cardinality(Jobs) \in Nat /\ LastIndex \in Nat /\ LastNonce \in Nat
    /\ First \in Nat \ {0} /\ First <= LastIndex /\ LastIndex + NumKeys = LastNonce
    /\ Nonces \subseteq Nat /\ First..LastIndex \subseteq Nonces
BY CallersAssumption, FirstAssumption, KeysAssumption, FS_CardinalityType
   DEF LastIndex, LastNonce, Nonces

\* The keys of one candidate list are different.
LEMMA KeysDiffer ==
    ASSUME NEW n \in Nonces, NEW i \in 0..(NumKeys - 1), NEW k \in 0..(NumKeys - 1)
    PROVE  KeyOf(n, i) \in Keys /\ (KeyOf(n, i) = KeyOf(n, k) => i = k)
<1>1. n \in Nat /\ n >= 1 /\ i \in 0..99 /\ k \in 0..99
  BY JobsFacts, KeysAssumption DEF Nonces
<1>2. KeyOf(n, i) = KeyOf(n, k) => i = k
  BY <1>1 DEF KeyOf
<1>3. KeyOf(n, i) \in Keys
  BY DEF Keys
<1> QED
  BY <1>2, <1>3

\* The account's index is the first that no extrinsic uses, and there is one.
LEMMA IndexFacts ==
    ASSUME IInv
    PROVE  /\ NextIndex \in First..LastIndex /\ NextIndex \notin sent
           /\ \A n \in Nonces : n \notin sent => NextIndex <= n
<1>1. Cardinality(sent) <= Cardinality(Jobs) /\ IsFiniteSet(sent)
  <2>1. Done \in SUBSET Jobs
    BY DEF Done
  <2>2. Cardinality(Done) <= Cardinality(Jobs) /\ Cardinality(Done) \in Nat
    BY <2>1, CallersAssumption, FS_Subset, FS_CardinalityType
  <2>3. Cardinality(sent) \in Nat
    BY FS_CardinalityType DEF IInv, FewSent
  <2> QED
    BY <2>2, <2>3, JobsFacts DEF IInv, FewSent
<1>2. Cardinality(First..LastIndex) = Cardinality(Jobs) + 1
  <2>1. First \in Int /\ LastIndex \in Int /\ First <= LastIndex
    BY JobsFacts
  <2> QED
    BY <2>1, FS_Interval, JobsFacts DEF LastIndex
<1>3. PICK m \in First..LastIndex : m \notin sent
  <2>1. CASE First..LastIndex \subseteq sent
    <3>1. First..LastIndex \in SUBSET sent
      BY <2>1
    <3>2. Cardinality(First..LastIndex) <= Cardinality(sent)
      BY <3>1, <1>1, FS_Subset
    <3>3. Cardinality(sent) \in Nat
      BY <1>1, FS_CardinalityType
    <3> QED
      BY <1>1, <1>2, <3>2, <3>3, JobsFacts
  <2> QED
    BY <2>1
<1> DEFINE Unused == {n \in Nonces : n \notin sent}
<1>4. Unused \in SUBSET Nat /\ m \in Unused
  BY <1>3, JobsFacts
<1>5. NextIndex \in Unused /\ \A y \in Unused : NextIndex <= y
  BY <1>4, MinOfNats DEF NextIndex
<1>6. NextIndex <= m /\ NextIndex \in Nonces /\ NextIndex \notin sent
  BY <1>4, <1>5
<1> QED
  BY <1>3, <1>5, <1>6, JobsFacts DEF Nonces

-----------------------------------------------------------------------------
(* The steps                                                               *)

LEMMA InitInv == Init => IInv
<1> SUFFICES ASSUME Init PROVE IInv
  OBVIOUS
<1>1. TypeOK
  BY JobsFacts, KeysAssumption, CrashesAssumption DEF Init, TypeOK, PCs, Nonces
<1>2. FewSent
  <2>1. Done \in SUBSET Jobs
    BY DEF Done
  <2> QED
    BY <2>1, FS_EmptySet, FS_Subset, FS_CardinalityType, CallersAssumption
       DEF Init, FewSent
<1>3. IndexTypes
  BY JobsFacts DEF Init, IndexTypes
<1>4. OneJob /\ KnowsIndex
  BY CallersAssumption DEF Init, OneJob, Working, KnowsIndex, Callers
<1>5. KeyIsThere /\ SameListDistinct
  BY DEF Init, KeyIsThere, SameListDistinct
<1> QED
  BY <1>1, <1>2, <1>3, <1>4, <1>5 DEF IInv

\* A job is taken.
LEMMA TakeJobKeepsInv == ASSUME IInv, NEW j \in Jobs, TakeJob(j) PROVE IInv'
<1>1. TypeOK'
  BY DEF IInv, TypeOK, TakeJob, PCs
<1>2. Done' = Done /\ NextIndex' = NextIndex
  BY DEF Done, NextIndex, TakeJob, IInv, TypeOK, Callers
<1>3. FewSent'
  BY <1>2 DEF IInv, FewSent, TakeJob
<1>4. IndexTypes'
  BY DEF IInv, IndexTypes, TakeJob
<1>5. OneJob' /\ KnowsIndex'
  BY <1>2 DEF IInv, TypeOK, OneJob, KnowsIndex, Working, TakeJob, Callers
<1>6. KeyIsThere' /\ SameListDistinct'
  BY DEF IInv, TypeOK, KeyIsThere, SameListDistinct, TakeJob
<1> QED
  BY <1>1, <1>3, <1>4, <1>5, <1>6 DEF IInv

\* The node answers.
LEMMA ReadIndexKeepsInv == ASSUME IInv, NEW c \in Callers, ReadIndex(c) PROVE IInv'
<1>1. NextIndex \in First..LastIndex /\ NextIndex \in Nonces
  BY IndexFacts, JobsFacts
<1>2. TypeOK'
  BY <1>1 DEF IInv, TypeOK, ReadIndex, PCs
<1>3. Done' = Done /\ NextIndex' = NextIndex
  BY DEF Done, NextIndex, ReadIndex, IInv, TypeOK, Callers
<1>4. FewSent'
  BY <1>3 DEF IInv, FewSent, ReadIndex
<1>5. IndexTypes'
  BY <1>1 DEF IInv, TypeOK, IndexTypes, ReadIndex
<1>6. OneJob'
  BY DEF IInv, TypeOK, OneJob, Working, ReadIndex, Callers
<1>7. KnowsIndex'
  BY <1>3 DEF IInv, TypeOK, KnowsIndex, ReadIndex, Callers
<1>8. KeyIsThere' /\ SameListDistinct'
  BY DEF IInv, TypeOK, KeyIsThere, SameListDistinct, ReadIndex
<1> QED
  BY <1>2, <1>4, <1>5, <1>6, <1>7, <1>8 DEF IInv

\* The script finds the first free key, or none.
LEMMA FirstFree ==
    ASSUME NEW n, Free(n) # {}
    PROVE  /\ Min(Free(n)) \in Free(n) /\ Free(n) \subseteq 0..(NumKeys - 1)
           /\ \A i \in Free(n) : Min(Free(n)) <= i
<1>1. Free(n) \in SUBSET Nat /\ Free(n) \subseteq 0..(NumKeys - 1)
  BY KeysAssumption DEF Free
<1> QED
  BY <1>1, MinOfNats

LEMMA ReserveKeepsInv == ASSUME IInv, NEW c \in Callers, Reserve(c) PROVE IInv'
<1>1. /\ base \in [Callers -> Nonces] /\ base[c] \in First..LastIndex
      /\ nonce \in [Callers -> Nonces \cup {0}] /\ ttl \in [Keys -> 0..Expire]
      /\ left \in [Callers -> 0..Expire] /\ pc \in [Callers -> PCs]
      /\ pc[c] = "reserve" /\ left[c] = 0 /\ UNCHANGED <<sent, base, crashes>>
      /\ pc' = [pc EXCEPT ![c] = IF c \in Jobs THEN "submit" ELSE "done"]
  BY DEF IInv, TypeOK, IndexTypes, KeyIsThere, Reserve
<1>2. PICK i \in 0..NumKeys :
         /\ nonce' = [nonce EXCEPT ![c] = base[c] + i]
         /\ \/ /\ i \in 0..(NumKeys - 1) /\ ttl[KeyOf(base[c], i)] = 0
               /\ ttl' = [ttl EXCEPT ![KeyOf(base[c], i)] = Expire]
               /\ left' = [left EXCEPT ![c] = Expire]
            \/ UNCHANGED <<ttl, left>>
  <2>1. CASE Free(base[c]) # {}
    <3>1. /\ Min(Free(base[c])) \in 0..(NumKeys - 1)
          /\ ttl[KeyOf(base[c], Min(Free(base[c])))] = 0
      BY <2>1, FirstFree DEF Free
    <3> QED
      BY <2>1, <3>1, KeysAssumption DEF Reserve, Take
  <2>2. CASE Free(base[c]) = {}
    BY <2>2, KeysAssumption DEF Reserve
  <2> QED
    BY <2>1, <2>2
<1>3. base[c] + i \in Nonces /\ base[c] + i >= base[c] /\ base[c] \in Nat
  BY <1>1, JobsFacts, KeysAssumption DEF Nonces
<1>4. TypeOK'
  <2>1. /\ nonce' \in [Callers -> Nonces \cup {0}] /\ ttl' \in [Keys -> 0..Expire]
        /\ left' \in [Callers -> 0..Expire] /\ pc' \in [Callers -> PCs]
    BY <1>1, <1>2, <1>3, KeysAssumption DEF PCs
  <2> QED
    BY <1>1, <2>1 DEF IInv, TypeOK
<1>5. Done' = Done /\ NextIndex' = NextIndex
  BY <1>1, CallersAssumption DEF Done, NextIndex, Callers
<1>6. FewSent' /\ IndexTypes'
  BY <1>1, <1>5 DEF IInv, FewSent, IndexTypes
<1>7. OneJob'
  BY <1>1 DEF IInv, OneJob, Working, Callers
<1>8. KnowsIndex'
  <2>1. ASSUME NEW j \in Jobs, j # c
        PROVE  pc'[j] = pc[j] /\ base'[j] = base[j] /\ nonce'[j] = nonce[j]
    BY <1>1, <1>2, <2>1 DEF Callers
  <2>2. c \in Jobs => nonce'[c] >= NextIndex
    BY <1>1, <1>2, <1>3 DEF IInv, KnowsIndex
  <2>3. c \in Jobs => pc'[c] = "submit"
    BY <1>1
  <2> QED
    BY <1>5, <2>1, <2>2, <2>3 DEF IInv, KnowsIndex
<1>9. KeyIsThere'
  <2>1. ASSUME NEW d \in Callers, d # c
        PROVE  /\ pc'[d] \in {"idle", "index", "reserve"} => left'[d] = 0
               /\ left'[d] > 0 =>
                     /\ nonce'[d] - base'[d] \in 0..(NumKeys - 1)
                     /\ ttl'[KeyOf(base'[d], nonce'[d] - base'[d])] >= left'[d]
    <3>1. pc'[d] = pc[d] /\ left'[d] = left[d] /\ base'[d] = base[d] /\ nonce'[d] = nonce[d]
      BY <1>1, <1>2, <2>1
    <3>2. \A k \in Keys : ttl'[k] >= ttl[k] /\ ttl[k] \in Nat /\ ttl'[k] \in Nat
      BY <1>1, <1>2, KeysAssumption
    <3>3. nonce[d] - base[d] \in 0..(NumKeys - 1)
             => KeyOf(base[d], nonce[d] - base[d]) \in Keys
      BY <1>1, KeysDiffer
    <3>4. left[d] \in Nat
      BY <1>1
    <3> QED
      BY <3>1, <3>2, <3>3, <3>4 DEF IInv, KeyIsThere
  <2>2. pc'[c] \notin {"idle", "index", "reserve"}
    BY <1>1
  <2>3. ASSUME left'[c] > 0
        PROVE  /\ nonce'[c] - base'[c] \in 0..(NumKeys - 1)
               /\ ttl'[KeyOf(base'[c], nonce'[c] - base'[c])] >= left'[c]
    <3>1. i \in 0..(NumKeys - 1) /\ ttl' = [ttl EXCEPT ![KeyOf(base[c], i)] = Expire]
          /\ left'[c] = Expire
      BY <1>1, <1>2, <2>3
    <3>2. nonce'[c] - base'[c] = i /\ base'[c] = base[c]
      BY <1>1, <1>2, <1>3, <3>1
    <3>3. KeyOf(base[c], i) \in Keys
      BY <1>1, <3>1, KeysDiffer
    <3>4. ttl'[KeyOf(base[c], i)] = Expire
      BY <1>1, <3>1, <3>3
    <3> QED
      BY <3>1, <3>2, <3>4, KeysAssumption
  <2> QED
    BY <2>1, <2>2, <2>3 DEF KeyIsThere
<1>10. SameListDistinct'
  <2>1. ASSUME NEW d \in Callers, d # c, left'[c] > 0, left'[d] > 0, base'[c] = base'[d]
        PROVE  nonce'[c] # nonce'[d]
    <3>1. /\ left[d] > 0 /\ base[d] = base[c] /\ nonce'[d] = nonce[d]
          /\ nonce'[c] = base[c] + i /\ ttl[KeyOf(base[c], i)] = 0
      BY <1>1, <1>2, <2>1
    <3>2. ttl[KeyOf(base[c], nonce[d] - base[c])] >= left[d]
      BY <3>1 DEF IInv, KeyIsThere
    <3>3. nonce[d] - base[c] # i
      <4>1. left[d] \in Int
        BY <1>1
      <4> QED
        BY <3>1, <3>2, <4>1
    <3>4. nonce[d] \in Int /\ base[c] \in Int /\ i \in Int
      <4>1. nonce[d] \in Nonces \cup {0} /\ base[c] \in Nonces
        BY <1>1
      <4>2. i \in Int
        BY KeysAssumption
      <4>3. nonce[d] \in Nat /\ base[c] \in Nat
        BY <4>1, JobsFacts DEF Nonces
      <4> QED
        BY <4>2, <4>3
    <3> QED
      BY <3>1, <3>3, <3>4
  <2>2. ASSUME NEW d \in Callers, d # c
        PROVE  left'[d] = left[d] /\ base'[d] = base[d] /\ nonce'[d] = nonce[d]
    BY <1>1, <1>2, <2>2
  <2> QED
    BY <2>1, <2>2 DEF IInv, SameListDistinct
<1> QED
  BY <1>4, <1>6, <1>7, <1>8, <1>9, <1>10 DEF IInv

\* The node takes an extrinsic, and the job ends.
LEMMA SubmitKeepsInv == ASSUME IInv, NEW j \in Jobs, Submit(j) PROVE IInv'
<1>1. /\ pc \in [Callers -> PCs] /\ j \in Callers /\ pc[j] = "submit"
      /\ nonce[j] \in Nonces \cup {0} /\ nonce[j] >= NextIndex
      /\ sent' = sent \cup {nonce[j]} /\ pc' = [pc EXCEPT ![j] = "done"]
      /\ UNCHANGED <<ttl, base, nonce, left, crashes>>
  BY DEF IInv, TypeOK, Submit, Callers
<1>2. nonce[j] \in Nonces
  <2>1. NextIndex >= First /\ NextIndex \in Nat
    BY IndexFacts, JobsFacts
  <2> QED
    BY <1>1, <2>1, FirstAssumption
<1>3. TypeOK'
  BY <1>1, <1>2 DEF IInv, TypeOK, PCs
<1>4. FewSent'
  <2>1. Done' = Done \cup {j} /\ j \notin Done /\ Done \in SUBSET Jobs
    BY <1>1 DEF Done, Callers
  <2>2. IsFiniteSet(Done)
    BY <2>1, CallersAssumption, FS_Subset
  <2>3. Cardinality(Done') = Cardinality(Done) + 1 /\ Cardinality(Done) \in Nat
    BY <2>1, <2>2, FS_AddElement, FS_CardinalityType
  <2>4. /\ IsFiniteSet(sent') /\ Cardinality(sent') <= Cardinality(sent) + 1
        /\ Cardinality(sent) \in Nat /\ Cardinality(sent') \in Nat
    <3>1. IsFiniteSet(sent) /\ Cardinality(sent) \in Nat
      BY FS_CardinalityType DEF IInv, FewSent
    <3>2. /\ IsFiniteSet(sent')
          /\ Cardinality(sent') = IF nonce[j] \in sent THEN Cardinality(sent)
                                  ELSE Cardinality(sent) + 1
      BY <1>1, <3>1, FS_AddElement
    <3> QED
      BY <3>1, <3>2
  <2> QED
    BY <2>3, <2>4 DEF IInv, FewSent
<1>5. IndexTypes' /\ KeyIsThere' /\ SameListDistinct'
  BY <1>1 DEF IInv, IndexTypes, KeyIsThere, SameListDistinct
<1>6. OneJob' /\ KnowsIndex'
  <2>1. \A k \in Jobs : k # j => pc[k] \notin {"index", "reserve", "submit"}
    BY <1>1 DEF IInv, OneJob, Working
  <2>2. \A k \in Jobs : pc'[k] \notin {"index", "reserve", "submit"}
    BY <1>1, <2>1 DEF Callers
  <2> QED
    BY <2>2 DEF OneJob, Working, KnowsIndex
<1> QED
  BY <1>3, <1>4, <1>5, <1>6 DEF IInv

LEMMA SubmitFailsKeepsInv == ASSUME IInv, NEW j \in Jobs, SubmitFails(j) PROVE IInv'
<1>1. TypeOK'
  BY DEF IInv, TypeOK, SubmitFails, PCs
<1>2. Done' = Done /\ NextIndex' = NextIndex
  BY DEF Done, NextIndex, SubmitFails, IInv, TypeOK, Callers
<1>3. FewSent' /\ IndexTypes'
  BY <1>2 DEF IInv, FewSent, IndexTypes, SubmitFails
<1>4. OneJob' /\ KnowsIndex'
  BY <1>2 DEF IInv, TypeOK, OneJob, KnowsIndex, Working, SubmitFails, Callers
<1>5. KeyIsThere' /\ SameListDistinct'
  BY DEF IInv, TypeOK, KeyIsThere, SameListDistinct, SubmitFails
<1> QED
  BY <1>1, <1>3, <1>4, <1>5 DEF IInv

\* A second passes, for the keys and for those who hold them.
LEMMA TickKeepsInv == ASSUME IInv, Tick PROVE IInv'
<1>1. /\ ttl \in [Keys -> 0..Expire] /\ left \in [Callers -> 0..Expire]
      /\ base \in [Callers -> Nonces] /\ UNCHANGED <<sent, pc, base, nonce, crashes>>
      /\ ttl' = [k \in Keys |-> IF ttl[k] > 0 THEN ttl[k] - 1 ELSE 0]
      /\ left' = [c \in Callers |-> IF left[c] > 0 THEN left[c] - 1 ELSE 0]
  BY DEF IInv, TypeOK, Tick
<1>2. ttl' \in [Keys -> 0..Expire] /\ left' \in [Callers -> 0..Expire]
  BY <1>1, KeysAssumption
<1>3. TypeOK'
  BY <1>1, <1>2 DEF IInv, TypeOK
<1>4. Done' = Done /\ NextIndex' = NextIndex
  BY <1>1 DEF Done, NextIndex
<1>5. FewSent' /\ IndexTypes' /\ OneJob' /\ KnowsIndex'
  BY <1>1, <1>4 DEF IInv, FewSent, IndexTypes, OneJob, Working, KnowsIndex
<1>6. ASSUME NEW c \in Callers
      PROVE  /\ left[c] = 0 => left'[c] = 0
             /\ left'[c] > 0 =>
                   /\ left[c] > 0 /\ nonce[c] - base[c] \in 0..(NumKeys - 1)
                   /\ ttl'[KeyOf(base[c], nonce[c] - base[c])] >= left'[c]
  <2>1. left'[c] = (IF left[c] > 0 THEN left[c] - 1 ELSE 0) /\ left[c] \in Nat
    BY <1>1
  <2>2. ASSUME left[c] > 0, left'[c] > 0
        PROVE  /\ nonce[c] - base[c] \in 0..(NumKeys - 1)
               /\ ttl'[KeyOf(base[c], nonce[c] - base[c])] >= left'[c]
    <3> DEFINE key == KeyOf(base[c], nonce[c] - base[c])
    <3>1. nonce[c] - base[c] \in 0..(NumKeys - 1) /\ ttl[key] >= left[c]
      BY <2>2 DEF IInv, KeyIsThere
    <3>2. key \in Keys
      BY <1>1, <3>1, KeysDiffer
    <3> HIDE DEF key
    <3>3. ttl'[key] = (IF ttl[key] > 0 THEN ttl[key] - 1 ELSE 0) /\ ttl[key] \in Nat
      BY <1>1, <3>2
    <3>4. ttl'[key] >= left'[c]
      BY <2>1, <2>2, <3>1, <3>3
    <3> QED
      BY <3>1, <3>4 DEF key
  <2> QED
    BY <2>1, <2>2
<1>7. KeyIsThere' /\ SameListDistinct'
  BY <1>1, <1>6 DEF IInv, KeyIsThere, SameListDistinct
<1> QED
  BY <1>3, <1>5, <1>7 DEF IInv

\* Jobs that were under way wait again; services begin again.
LEMMA CrashKeepsInv == ASSUME IInv, Crash PROVE IInv'
<1>1. /\ pc \in [Callers -> PCs] /\ nonce \in [Callers -> Nonces \cup {0}]
      /\ left \in [Callers -> 0..Expire] /\ crashes' \in 0..MaxCrashes
      /\ UNCHANGED <<sent, ttl, base>>
  BY CrashesAssumption DEF IInv, TypeOK, Crash
<1>2. \A c \in Callers :
         /\ pc'[c] = IF c \in Services THEN "index"
                     ELSE IF c \in Working THEN "idle" ELSE pc[c]
         /\ nonce'[c] = IF c \in Working \cup Services THEN 0 ELSE nonce[c]
         /\ left'[c] = IF c \in Working \cup Services THEN 0 ELSE left[c]
  <2>1. \A c \in Services : c \notin Working
    BY CallersAssumption DEF Working
  <2>2. \A c \in Callers : pc'[c] = CASE c \in Services -> "index"
                                     [] c \in Working  -> "idle"
                                     [] OTHER          -> pc[c]
    BY DEF Crash
  <2>3. \A c \in Callers :
           /\ nonce'[c] = IF c \in Working \cup Services THEN 0 ELSE nonce[c]
           /\ left'[c] = IF c \in Working \cup Services THEN 0 ELSE left[c]
    BY DEF Crash
  <2> QED
    BY <2>1, <2>2, <2>3
<1>3. /\ pc' \in [Callers -> PCs] /\ nonce' \in [Callers -> Nonces \cup {0}]
      /\ left' \in [Callers -> 0..Expire]
  <2>1. /\ pc' = [c \in Callers |-> pc'[c]] /\ nonce' = [c \in Callers |-> nonce'[c]]
        /\ left' = [c \in Callers |-> left'[c]]
    BY DEF Crash
  <2>2. \A c \in Callers : /\ pc'[c] \in PCs /\ nonce'[c] \in Nonces \cup {0}
                            /\ left'[c] \in 0..Expire
    BY <1>1, <1>2, KeysAssumption DEF PCs
  <2> QED
    BY <2>1, <2>2
<1>4. TypeOK'
  BY <1>1, <1>3 DEF IInv, TypeOK
<1>5. \A j \in Jobs : j \in Callers /\ j \notin Services
  BY CallersAssumption DEF Callers
<1>6. Done' = Done
  BY <1>2, <1>5 DEF Done, Working
<1>7. FewSent' /\ IndexTypes'
  BY <1>1, <1>6 DEF IInv, FewSent, IndexTypes
<1>8. \A j \in Jobs : pc'[j] \notin {"index", "reserve", "submit"}
  BY <1>2, <1>5 DEF Working
<1>9. OneJob' /\ KnowsIndex'
  BY <1>8 DEF OneJob, KnowsIndex, Working
<1>10. ASSUME NEW c \in Callers
       PROVE  /\ left'[c] > 0 => left'[c] = left[c] /\ nonce'[c] = nonce[c]
              /\ c \in Working \cup Services => left'[c] = 0
              /\ c \notin Working \cup Services
                    => pc'[c] = pc[c] /\ left'[c] = left[c]
  BY <1>2
<1>11. KeyIsThere'
  <2>1. ASSUME NEW c \in Callers
        PROVE  pc'[c] \in {"idle", "index", "reserve"} => left'[c] = 0
    BY <1>10 DEF IInv, KeyIsThere
  <2>2. ASSUME NEW c \in Callers, left'[c] > 0
        PROVE  /\ nonce'[c] - base'[c] \in 0..(NumKeys - 1)
               /\ ttl'[KeyOf(base'[c], nonce'[c] - base'[c])] >= left'[c]
    <3>1. /\ left'[c] = left[c] /\ nonce'[c] = nonce[c]
          /\ base'[c] = base[c] /\ ttl' = ttl
      BY <1>1, <1>10, <2>2
    <3> QED
      BY <2>2, <3>1 DEF IInv, KeyIsThere
  <2> QED
    BY <2>1, <2>2 DEF KeyIsThere
<1>12. SameListDistinct'
  <2>1. ASSUME NEW c \in Callers, left'[c] > 0
        PROVE  left[c] > 0 /\ nonce'[c] = nonce[c] /\ base'[c] = base[c]
    BY <1>1, <1>10, <2>1
  <2> QED
    BY <2>1 DEF IInv, SameListDistinct
<1> QED
  BY <1>4, <1>7, <1>9, <1>11, <1>12 DEF IInv

LEMMA NextKeepsInv == ASSUME IInv, [Next]_vars PROVE IInv'
<1>1. CASE UNCHANGED vars
  BY <1>1 DEF vars, IInv, TypeOK, FewSent, Done, IndexTypes, OneJob, Working,
              KnowsIndex, NextIndex, KeyIsThere, SameListDistinct
<1>2. CASE \E c \in Callers : GetNextNonce(c)
  BY <1>2, ReadIndexKeepsInv, ReserveKeepsInv DEF GetNextNonce
<1>3. CASE \E j \in Jobs : TakeJob(j) \/ Submit(j) \/ SubmitFails(j)
  BY <1>3, TakeJobKeepsInv, SubmitKeepsInv, SubmitFailsKeepsInv
<1> QED
  BY <1>1, <1>2, <1>3, TickKeepsInv, CrashKeepsInv DEF Next

-----------------------------------------------------------------------------
(* The theorems                                                            *)

\* The inductive invariant of the reservations.
THEOREM NoncesCorrect == Spec => []IInv
BY InitInv, NextKeepsInv, PTL DEF Spec

\* Every variable keeps its type: no nonce is further above the first index
\* than there are jobs and candidate keys.
THEOREM TypeCorrect == Spec => []TypeOK
BY NoncesCorrect, PTL DEF IInv

\* A nonce is never below the account's index when its extrinsic is signed.
THEOREM NeverStaleHolds == Spec => []NeverStale
<1>1. IInv => NeverStale
  BY DEF IInv, KnowsIndex, NeverStale
<1> QED
  BY <1>1, NoncesCorrect, PTL

\* Reservations from one candidate list are different.
THEOREM SameListDiffers == Spec => []SameListDistinct
BY NoncesCorrect, PTL DEF IInv

\* A job that finds no key set gets the account's index, skipped before or not.
THEOREM SkippedComesBack == Spec => SkippedIsReused
<1>1. ASSUME IInv, [Next]_vars
      PROVE  [\A j \in Jobs : pc[j] = "reserve" /\ pc'[j] = "submit"
                              /\ (\A k \in Keys : ttl[k] = 0)
                  => nonce'[j] = NextIndex]_vars
  <2> SUFFICES ASSUME NEW j \in Jobs, pc[j] = "reserve", pc'[j] = "submit",
                      \A k \in Keys : ttl[k] = 0, Next
               PROVE  nonce'[j] = NextIndex
    BY <1>1
  <2>1. /\ j \in Callers /\ j \notin Services /\ base[j] = NextIndex
        /\ pc \in [Callers -> PCs] /\ base \in [Callers -> Nonces]
        /\ nonce \in [Callers -> Nonces \cup {0}]
    BY <1>1, CallersAssumption DEF IInv, TypeOK, KnowsIndex, Callers
  <2>2. Reserve(j)
    <3>1. CASE Tick \/ Crash
      BY <2>1, <3>1 DEF Tick, Crash, Working
    <3>2. CASE \E c \in Callers : ReadIndex(c)
      BY <2>1, <3>2 DEF ReadIndex
    <3>3. CASE \E k \in Jobs : TakeJob(k) \/ Submit(k) \/ SubmitFails(k)
      BY <2>1, <3>3 DEF TakeJob, Submit, SubmitFails
    <3>4. CASE \E c \in Callers : c # j /\ Reserve(c)
      BY <2>1, <3>4 DEF Reserve
    <3> QED
      BY <3>1, <3>2, <3>3, <3>4 DEF Next, GetNextNonce
  <2>3. 0 \in Free(base[j])
    <3>1. 0 \in 0..(NumKeys - 1)
      BY KeysAssumption
    <3>2. KeyOf(base[j], 0) \in Keys
      BY <2>1, <3>1, KeysDiffer
    <3> QED
      BY <3>1, <3>2 DEF Free
  <2>4. Min(Free(base[j])) = 0
    <3>1. Free(base[j]) # {}
      BY <2>3
    <3>2. Min(Free(base[j])) <= 0 /\ Min(Free(base[j])) \in 0..(NumKeys - 1)
      BY <2>3, <3>1, FirstFree
    <3> QED
      BY <3>2, KeysAssumption
  <2>5. nonce'[j] = base[j] + 0
    BY <2>1, <2>2, <2>3, <2>4 DEF Reserve, Take
  <2>6. base[j] \in Nat
    BY <2>1, JobsFacts
  <2> QED
    BY <2>1, <2>5, <2>6
<1> QED
  BY <1>1, NoncesCorrect, PTL DEF Spec, SkippedIsReused

=============================================================================
