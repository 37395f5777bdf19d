------------------------- MODULE TxnNotifierProofs -------------------------
(***************************************************************************)
(* Proofs about TxnNotifier, for any number of extrinsics, scans, blocks,  *)
(* crashes and forks.                                                      *)
(*                                                                         *)
(* CursorInv is not inductive without the types, and is proved in two      *)
(* layers.  Basics, the bounds that tie cursors, inclusions and recorded   *)
(* ranges to the chain, is inductive by itself; the three conditional      *)
(* parts are then inductive relative to it.                                *)
(***************************************************************************)
EXTENDS TxnNotifier, FiniteSetTheorems, TLAPS

Basics == TypeOK /\ CursorsOnChain /\ InclusionsOnChain /\ WatchedAreSubmitted

-----------------------------------------------------------------------------
(* Lemmas about operators                                                  *)

\* A mortal era asked about an earlier block than it starts at never begins
\* after its start: the recorded birth is early or exact, never late.
LEMMA EraBirthBound ==
    ASSUME NEW start \in Nat, NEW current \in Nat
    PROVE  /\ EraBirth(start, current) \in Nat
           /\ EraDeath(start, current) \in Nat
           /\ current <= start => EraBirth(start, current) <= start
<1> DEFINE ph == start % Period
           up == IF current >= ph THEN current ELSE ph
<1>1. ph \in Nat /\ up \in Nat /\ ph <= up /\ ph <= start
  BY PeriodAssumption
<1>2. (up - ph) \in Nat
  BY <1>1
<1>3. /\ ((up - ph) \div Period) \in Nat
      /\ Period * ((up - ph) \div Period) <= up - ph
      /\ Period * ((up - ph) \div Period) \in Nat
  BY <1>2, PeriodAssumption
<1>4. EraBirth(start, current) = Period * ((up - ph) \div Period) + ph
  BY DEF EraBirth
<1> QED
  BY <1>1, <1>3, <1>4, PeriodAssumption DEF EraDeath

\* What every scan step leaves alone.
LEMMA ScanFrame ==
    ASSUME NEW s \in Scans, ScanStart(s) \/ ScanStep(s)
    PROVE  /\ UNCHANGED chainVars
           /\ UNCHANGED <<birth, death, fin>>
           /\ watch' \subseteq watch
           /\ UNCHANGED pub \/ ExitProcess
BY DEF ScanStart, ScanStep, CheckInitial, ReadLastSeen, ReadBirths, FetchHash,
       CheckParams, LoadPending, ExamineStep, ScanThrows, SkipFailed,
       SkipNeither, StartPost, EndExamine, PostStep, PostOk, PostFails,
       PostGivesUp, CapacityStep, CapacityGet, CapacitySet, CapacityFails, Exec,
       Advance, ExitProcess, pubVars, storeVars

-----------------------------------------------------------------------------
(* Leaving a scan                                                          *)

\* The `finally' clause keeps the scans' types.
LEMMA FinishTypes ==
    ASSUME NEW s \in Scans, ScanTypeOK, Finish(s)
    PROVE  ScanTypeOK'
<1>1. \A r \in Scans : pc'[r] = "post" => now'[r] \in Txns
  BY DEF ScanTypeOK, Finish
<1>2. cur' \in [Scans -> 0..(MaxBlock + 1)]
  BY MaxBlockAssumption DEF ScanTypeOK, Finish
<1>3. pc' \in [Scans -> PCs]
  BY DEF ScanTypeOK, Finish, PCs
<1>4. blk' \in [Scans -> SUBSET Txns] /\ pend' \in [Scans -> SUBSET Txns]
  BY DEF ScanTypeOK, Finish
<1>5. /\ tries' \in [Scans -> 0..MaxRetries] /\ saved' \in [Scans -> Nat]
      /\ todo' \in [Scans -> SUBSET Txns]
      /\ now' \in [Scans -> Txns \cup {NoTxn}] /\ scanInProgress' \in BOOLEAN
  BY DEF ScanTypeOK, Finish
<1> QED
  BY <1>1, <1>2, <1>3, <1>4, <1>5 DEF ScanTypeOK

\* So does the exit of the process, whatever the scans were doing.
LEMMA ExitTypes ==
    ASSUME ExitProcess
    PROVE  ScanTypeOK'
<1>1. \A r \in Scans : pc'[r] = "post" => now'[r] \in Txns
  BY DEF ExitProcess
<1>2. /\ cur' \in [Scans -> 0..(MaxBlock + 1)]
      /\ tries' \in [Scans -> 0..MaxRetries]
  BY MaxBlockAssumption, MaxRetriesAssumption DEF ExitProcess
<1>3. pc' \in [Scans -> PCs]
  BY DEF ExitProcess, PCs
<1>4. /\ blk' \in [Scans -> SUBSET Txns] /\ pend' \in [Scans -> SUBSET Txns]
      /\ todo' \in [Scans -> SUBSET Txns]
  BY DEF ExitProcess
<1>5. /\ now' \in [Scans -> Txns \cup {NoTxn}]
      /\ scanInProgress' \in BOOLEAN /\ saved' \in [Scans -> Nat]
  BY DEF ExitProcess
<1> QED
  BY <1>1, <1>2, <1>3, <1>4, <1>5 DEF ScanTypeOK

\* An exit loses what is in memory and keeps what is in Redis.
LEMMA ExitKeepsBasics ==
    ASSUME Basics, ExitProcess, crashes' \in 0..MaxCrashes
    PROVE  Basics'
<1>1. ChainTypeOK' /\ InclusionsOnChain'
  BY DEF Basics, TypeOK, ChainTypeOK, InclusionsOnChain, ExitProcess, chainVars
<1>2. StoreTypeOK'
  BY DEF Basics, TypeOK, StoreTypeOK, ExitProcess, storeVars, PubStates
<1>3. HistTypeOK'
  BY DEF Basics, TypeOK, HistTypeOK, ExitProcess, AllMishaps
<1>4. CursorsOnChain'
  BY DEF Basics, CursorsOnChain, ExitProcess, chainVars, storeVars, Limit, OnBlock
<1>5. WatchedAreSubmitted'
  BY DEF Basics, TypeOK, StoreTypeOK, WatchedAreSubmitted, ExitProcess,
         chainVars, storeVars, PubStates
<1> QED
  BY <1>1, <1>2, <1>3, <1>4, <1>5, ExitTypes DEF Basics, TypeOK

-----------------------------------------------------------------------------
(* Basics is inductive: the steps of a scan                                *)

\* What scans do to Redis: three actions write, the others only read.
LEMMA ScanKeepsStoreTypes ==
    ASSUME NEW s \in Scans, Basics, ScanStart(s) \/ ScanStep(s), ~ExitProcess
    PROVE  StoreTypeOK'
<1> USE DEF Basics, TypeOK, StoreTypeOK
<1>1. CASE CapacitySet(s)
  <2>1. Cardinality(Indices(s)) \in Nat
    BY TxnsAssumption, FS_Subset, FS_CardinalityType DEF Indices, ScanTypeOK
  <2>2. saved[s] + Cardinality(Indices(s)) \in Nat
    BY <2>1 DEF ScanTypeOK
  <2>3. used' \in [Epochs -> Nat]
    BY <1>1, <2>2 DEF CapacitySet
  <2> QED
    BY <1>1, <2>3 DEF CapacitySet, pubVars
<1>2. CASE Exec(s)
  BY <1>2 DEF Exec, pubVars
<1>3. CASE Advance(s)
  <2>1. lastSeen' \in Blocks
    BY <1>3, MaxBlockAssumption
       DEF Advance, CursorsOnChain, Limit, ChainTypeOK, ScanTypeOK, Blocks
  <2> QED
    BY <1>3, <2>1 DEF Advance, pubVars
<1>4. CASE ~(CapacitySet(s) \/ Exec(s) \/ Advance(s))
  <2>1. UNCHANGED <<storeVars, pubVars, phase>>
    BY <1>4 DEF ScanStart, ScanStep, CheckInitial, ReadLastSeen, ReadBirths,
                FetchHash, CheckParams, LoadPending, ExamineStep, ScanThrows,
                SkipFailed, SkipNeither, StartPost, EndExamine, PostStep,
                PostOk, PostFails, PostGivesUp, CapacityStep, CapacityGet,
                CapacityFails
  <2> QED
    BY <2>1 DEF storeVars, pubVars
<1> QED
  BY <1>1, <1>2, <1>3, <1>4

\* The provider's count of webhooks saturates.
LEMMA DeliverTypes ==
    ASSUME NEW t \in Txns, delivered \in [Txns -> 0..2], Deliver(t)
    PROVE  delivered' \in [Txns -> 0..2]
<1> DEFINE d == IF delivered[t] = 2 THEN 2 ELSE delivered[t] + 1
<1>1. d \in 0..2
  OBVIOUS
<1>2. delivered' = [delivered EXCEPT ![t] = d]
  BY DEF Deliver
<1> HIDE DEF d
<1> QED
  BY <1>1, <1>2

\* What scans add to the history variables.
LEMMA ScanKeepsHistTypes ==
    ASSUME NEW s \in Scans, Basics, ScanStart(s) \/ ScanStep(s), ~ExitProcess
    PROVE  HistTypeOK'
<1> USE DEF Basics, TypeOK, HistTypeOK, AllMishaps
<1>1. CASE CheckInitial(s)
  BY <1>1 DEF CheckInitial, histVars
<1>2. CASE CheckParams(s)
  BY <1>2 DEF CheckParams, histVars
<1>3. CASE PostOk(s)
  BY <1>3, DeliverTypes DEF PostOk, ScanTypeOK
<1>4. CASE PostFails(s)
  <2>1. delivered' \in [Txns -> 0..2] /\ mishaps' \subseteq AllMishaps
    BY <1>4, DeliverTypes DEF PostFails, ScanTypeOK
  <2>2. UNCHANGED <<crashes, gaveUp, found, missed>>
    BY <1>4 DEF PostFails
  <2> QED
    BY <2>1, <2>2
<1>5. CASE PostGivesUp(s)
  BY <1>5 DEF PostGivesUp, ScanTypeOK
<1>6. CASE CapacityFails(s)
  BY <1>6 DEF CapacityFails
<1>7. CASE Exec(s)
  BY <1>7 DEF Exec, Indices, ScanTypeOK
<1>8. CASE UNCHANGED histVars
  BY <1>8 DEF histVars
<1> QED
  BY <1>1, <1>2, <1>3, <1>4, <1>5, <1>6, <1>7, <1>8
     DEF ScanStart, ScanStep, ReadLastSeen, ReadBirths, FetchHash,
         LoadPending, ExamineStep, ScanThrows, SkipFailed, SkipNeither,
         StartPost, EndExamine, PostStep, CapacityStep, CapacityGet,
         CapacitySet, Advance

\* The cursor stays one past the last block of the scanned part of the chain
\* at most, even when it starts from a recorded birth.
LEMMA CursorFromBirth ==
    ASSUME NEW s \in Scans, Basics, ReadBirths(s)
    PROVE  \E k \in Nat : /\ k >= 1 /\ k <= Limit + 1
                          /\ cur' = [cur EXCEPT ![s] = k]
<1> USE DEF Basics, TypeOK
<1>1. cur[s] \in Nat /\ cur[s] <= Limit /\ Limit \in Nat
  BY DEF ScanTypeOK, CursorsOnChain, ReadBirths, ChainTypeOK, Limit, Blocks
<1>2. CASE watch = {}
  <2> DEFINE k == cur[s] + 1
  <2>1. cur' = [cur EXCEPT ![s] = k]
    BY <1>2 DEF ReadBirths
  <2>2. k \in Nat /\ k >= 1 /\ k <= Limit + 1
    BY <1>1
  <2> HIDE DEF k
  <2> QED
    BY <2>1, <2>2
<1>3. CASE watch # {}
  <2>1. PICK first \in watch :
           cur' = [cur EXCEPT ![s] =
                      IF birth[first] > @ THEN birth[first] + 1 ELSE @ + 1]
    BY <1>2, <1>3 DEF ReadBirths
  <2> DEFINE k == IF birth[first] > cur[s] THEN birth[first] + 1 ELSE cur[s] + 1
  <2>2. /\ birth[first] \in Nat /\ birth[first] <= finalized
        /\ finalized \in Nat /\ head \in Nat /\ finalized <= head
    BY <2>1 DEF StoreTypeOK, WatchedAreSubmitted, InclusionsOnChain,
                ChainTypeOK, Blocks, CursorsOnChain
  <2>3. k \in Nat /\ k >= 1 /\ k <= Limit + 1
    BY <1>1, <2>2 DEF Limit
  <2>4. cur' = [cur EXCEPT ![s] = k]
    BY <2>1
  <2> QED
    BY <2>3, <2>4
<1> QED
  BY <1>2, <1>3

\* The local state of scans, one step per action.
LEMMA ScanKeepsScanTypes ==
    ASSUME NEW s \in Scans, Basics, ScanStart(s) \/ ScanStep(s), ~ExitProcess
    PROVE  ScanTypeOK'
<1> USE DEF Basics, TypeOK
<1>1. CASE Finish(s)
  BY <1>1, FinishTypes
<1>2. CASE ScanStart(s)
  BY <1>2 DEF ScanStart, ScanTypeOK, PCs
<1>3. CASE CheckInitial(s)
  BY <1>1, <1>3 DEF CheckInitial, ScanTypeOK, PCs
<1>4. CASE ReadLastSeen(s)
  BY <1>4, MaxBlockAssumption
     DEF ReadLastSeen, ScanTypeOK, StoreTypeOK, Blocks, PCs
<1>5. CASE ReadBirths(s)
  <2>1. cur' \in [Scans -> 0..(MaxBlock + 1)]
    BY <1>5, CursorFromBirth, MaxBlockAssumption
       DEF ScanTypeOK, ChainTypeOK, Limit, Blocks
  <2>2. /\ UNCHANGED <<scanInProgress, blk, pend, todo, now, tries, saved>>
        /\ pc' = [pc EXCEPT ![s] = "hash"]
    BY <1>5 DEF ReadBirths
  <2> QED
    BY <2>1, <2>2 DEF ScanTypeOK, PCs
<1>6. CASE FetchHash(s)
  <2>1. CASE cur[s] <= head /\ ~Finish(s)
    <3>1. blk' \in [Scans -> SUBSET Txns]
      BY <1>6, <2>1 DEF FetchHash, BlockAt, ScanTypeOK
    <3>2. /\ UNCHANGED <<scanInProgress, cur, pend, todo, now, tries, saved>>
          /\ pc' = [pc EXCEPT ![s] = "check"]
      BY <1>6, <2>1 DEF FetchHash
    <3> QED
      BY <3>1, <3>2 DEF ScanTypeOK, PCs
  <2> QED
    BY <1>1, <1>6, <2>1 DEF FetchHash
<1>7. CASE CheckParams(s)
  BY <1>1, <1>7 DEF CheckParams, ScanTypeOK, PCs
<1>8. CASE LoadPending(s)
  BY <1>8 DEF LoadPending, ScanTypeOK, StoreTypeOK, PCs
<1>9. CASE SkipFailed(s) \/ SkipNeither(s)
  BY <1>9 DEF SkipFailed, SkipNeither, ScanTypeOK
<1>10. CASE StartPost(s)
  <2>1. PICK t \in todo[s] : /\ now' = [now EXCEPT ![s] = t]
                             /\ todo' = [todo EXCEPT ![s] = @ \ {t}]
    BY <1>10 DEF StartPost
  <2>2. /\ now' \in [Scans -> Txns \cup {NoTxn}]
        /\ todo' \in [Scans -> SUBSET Txns]
        /\ now'[s] \in Txns
    BY <2>1 DEF ScanTypeOK
  <2>3. /\ UNCHANGED <<scanInProgress, cur, blk, pend, saved>>
        /\ pc' = [pc EXCEPT ![s] = "post"]
        /\ tries' \in [Scans -> 0..MaxRetries]
    BY <1>10, MaxRetriesAssumption DEF StartPost, ScanTypeOK
  <2> QED
    BY <2>1, <2>2, <2>3 DEF ScanTypeOK, PCs
<1>11. CASE EndPost(s) /\ (PostOk(s) \/ PostGivesUp(s))
  <2>1. tries' \in [Scans -> 0..MaxRetries]
    BY <1>11, MaxRetriesAssumption DEF EndPost, ScanTypeOK
  <2>2. UNCHANGED <<scanInProgress, cur, blk, pend, todo, saved>>
    BY <1>11 DEF PostOk, PostGivesUp
  <2> QED
    BY <1>11, <2>1, <2>2 DEF EndPost, ScanTypeOK, PCs
<1>12. CASE PostFails(s)
  <2>1. tries' \in [Scans -> 0..MaxRetries]
    BY <1>12, MaxRetriesAssumption DEF PostFails, ScanTypeOK
  <2>2. UNCHANGED <<scanInProgress, pc, cur, blk, pend, todo, now, saved>>
    BY <1>12 DEF PostFails
  <2> QED
    BY <2>1, <2>2 DEF ScanTypeOK
<1>13. CASE EndExamine(s)
  BY <1>13 DEF EndExamine, ScanTypeOK, PCs
<1>14. CASE CapacityGet(s)
  <2>1. cur[s] \in Blocks
    BY <1>14, MaxBlockAssumption
       DEF CapacityGet, CursorsOnChain, Limit, ChainTypeOK, ScanTypeOK,
           Blocks, OnBlock
  <2>2. used[cur[s] \div EpochLength] \in Nat
    BY <2>1 DEF StoreTypeOK, Epochs
  <2> QED
    BY <1>14, <2>2 DEF CapacityGet, ScanTypeOK, PCs
<1>15. CASE CapacitySet(s)
  BY <1>15 DEF CapacitySet, ScanTypeOK, PCs
<1>16. CASE CapacityFails(s)
  BY <1>16 DEF CapacityFails, ScanTypeOK, PCs
<1>17. CASE Exec(s)
  BY <1>17 DEF Exec, ScanTypeOK, PCs
<1>18. CASE Advance(s)
  <2>1. cur[s] <= MaxBlock
    BY <1>18, MaxBlockAssumption
       DEF Advance, CursorsOnChain, Limit, ChainTypeOK, ScanTypeOK, Blocks
  <2>2. cur' \in [Scans -> 0..(MaxBlock + 1)]
    BY <1>18, <2>1, MaxBlockAssumption DEF Advance, ScanTypeOK
  <2> QED
    BY <1>18, <2>2 DEF Advance, ScanTypeOK, PCs
<1> QED
  BY <1>2, <1>3, <1>4, <1>5, <1>6, <1>7, <1>8, <1>9, <1>10, <1>11, <1>12,
     <1>13, <1>14, <1>15, <1>16, <1>17, <1>18
     DEF ScanStep, ExamineStep, ScanThrows, PostStep, PostOk, PostGivesUp,
         CapacityStep

\* Cursors stay on the chain: only ReadBirths and Advance raise one, FetchHash
\* and CheckParams stop it at the end.
LEMMA ScanKeepsCursors ==
    ASSUME NEW s \in Scans, Basics, ScanStart(s) \/ ScanStep(s), ~ExitProcess
    PROVE  CursorsOnChain'
<1> USE DEF Basics, TypeOK
<1>1. UNCHANGED chainVars
  BY ScanFrame
<1>2. CASE ReadBirths(s)
  <2>1. PICK k \in Nat : /\ k >= 1 /\ k <= Limit + 1
                           /\ cur' = [cur EXCEPT ![s] = k]
    BY <1>2, CursorFromBirth
  <2> QED
    BY <1>1, <1>2, <2>1
       DEF ReadBirths, CursorsOnChain, Limit, ScanTypeOK, OnBlock, chainVars,
           storeVars
<1>3. CASE Advance(s)
  BY <1>1, <1>3 DEF Advance, CursorsOnChain, Limit, ScanTypeOK, ChainTypeOK,
                    Blocks, OnBlock, chainVars
<1>4. CASE ReadLastSeen(s) \/ FetchHash(s) \/ CheckParams(s)
  BY <1>1, <1>4 DEF ReadLastSeen, FetchHash, CheckParams, PastEnd, Finish,
                    CursorsOnChain, Limit, ScanTypeOK, ChainTypeOK,
                    StoreTypeOK, Blocks, OnBlock, chainVars, storeVars
<1>5. CASE ScanStart(s) \/ CheckInitial(s)
  BY <1>1, <1>5 DEF ScanStart, CheckInitial, Finish, CursorsOnChain, Limit,
                    ScanTypeOK, OnBlock, chainVars, storeVars
<1>6. CASE /\ UNCHANGED <<cur, lastSeen>>
           /\ pc[s] \in OnBlock \cup {"load"}
           /\ \E q \in OnBlock \cup {"advance"} : pc' = [pc EXCEPT ![s] = q]
  BY <1>1, <1>6 DEF CursorsOnChain, Limit, ScanTypeOK, OnBlock, chainVars
<1>7. CASE UNCHANGED <<cur, lastSeen, pc>>
  BY <1>1, <1>7 DEF CursorsOnChain, Limit, chainVars
<1>8. CASE \/ LoadPending(s) \/ StartPost(s) \/ EndExamine(s) \/ PostOk(s)
           \/ PostGivesUp(s) \/ CapacityStep(s) \/ Exec(s)
  BY <1>6, <1>8 DEF LoadPending, StartPost, EndExamine, PostOk, PostGivesUp,
                    EndPost, CapacityStep, CapacityGet, CapacitySet,
                    CapacityFails, Exec, OnBlock, storeVars
<1>9. CASE SkipFailed(s) \/ SkipNeither(s) \/ PostFails(s)
  BY <1>7, <1>9 DEF SkipFailed, SkipNeither, PostFails, storeVars
<1> QED
  BY <1>2, <1>3, <1>4, <1>5, <1>8, <1>9
     DEF ScanStep, ExamineStep, ScanThrows, PostStep

\* All of it together.
LEMMA ScanKeepsBasics ==
    ASSUME NEW s \in Scans, Basics, ScanStart(s) \/ ScanStep(s)
    PROVE  Basics'
<1>1. CASE ExitProcess
  <2>1. UNCHANGED crashes
    BY <1>1 DEF ScanStart, ScanStep, CheckInitial, ReadLastSeen, ReadBirths,
         FetchHash, CheckParams, LoadPending, ExamineStep, ScanThrows,
         SkipFailed, SkipNeither, StartPost, EndExamine, PostStep, PostOk,
         PostFails, PostGivesUp, CapacityStep, CapacityGet, CapacitySet,
         CapacityFails, Exec, Advance, histVars
  <2> QED
    BY <1>1, <2>1, ExitKeepsBasics DEF Basics, TypeOK, HistTypeOK
<1>2. CASE ~ExitProcess
  <2>1. ChainTypeOK' /\ InclusionsOnChain'
    BY ScanFrame DEF Basics, TypeOK, ChainTypeOK, InclusionsOnChain, chainVars
  <2>2. WatchedAreSubmitted'
    BY <1>2, ScanFrame DEF Basics, WatchedAreSubmitted, chainVars
  <2> QED
    BY <1>2, <2>1, <2>2, ScanKeepsStoreTypes, ScanKeepsHistTypes,
       ScanKeepsScanTypes, ScanKeepsCursors DEF Basics, TypeOK
<1> QED
  BY <1>1, <1>2

-----------------------------------------------------------------------------
(* Basics is inductive: the other steps                                    *)

\* The chain grows, finalizes and forks; inclusions stay within their eras.
LEMMA ChainKeepsBasics ==
    ASSUME Basics, Chains
    PROVE  Basics'
<1> USE DEF Basics, TypeOK, Chains
<1>1. StoreTypeOK' /\ ScanTypeOK' /\ HistTypeOK'
  BY DEF StoreTypeOK, ScanTypeOK, HistTypeOK, storeVars, pubVars, scanVars,
         histVars
<1>2. /\ head \in Nat /\ head' \in Nat /\ head <= head'
      /\ finalized \in Nat /\ finalized' \in Nat
      /\ finalized <= finalized' /\ finalized' <= head'
      /\ UNCHANGED signed
  BY DEF ChainNext, ProduceBlock, Finalize, Reorg, ChainTypeOK, Blocks,
         CursorsOnChain
<1>3. ASSUME ProduceBlock PROVE ChainTypeOK' /\ InclusionsOnChain'
  <2>1. ChainTypeOK'
    BY <1>3, MaxBlockAssumption DEF ProduceBlock, ChainTypeOK, Blocks
  <2>2. InclusionsOnChain'
    BY <1>3 DEF ProduceBlock, ValidAt, InclusionsOnChain, ChainTypeOK, Blocks
  <2> QED
    BY <2>1, <2>2
<1>4. ASSUME Finalize PROVE ChainTypeOK' /\ InclusionsOnChain'
  <2>1. ChainTypeOK'
    BY <1>4, MaxBlockAssumption
       DEF Finalize, ChainTypeOK, Blocks, CursorsOnChain
  <2>2. InclusionsOnChain'
    BY <1>4 DEF Finalize, InclusionsOnChain, ChainTypeOK, Blocks
  <2> QED
    BY <2>1, <2>2
<1>5. ASSUME Reorg PROVE ChainTypeOK' /\ InclusionsOnChain'
  <2>1. PICK fork \in finalized..(head - 1) :
           incl' \in {f \in [Txns -> Blocks] :
                        \A t \in Txns :
                           IF incl[t] \in 1..fork
                           THEN f[t] = incl[t]
                           ELSE f[t] = 0 \/ (f[t] \in (fork + 1)..(head + 1)
                                             /\ ValidAt(t, f[t]))}
    BY <1>5 DEF Reorg
  <2>2. ChainTypeOK'
    BY <1>5, <2>1, MaxBlockAssumption, MaxReorgsAssumption
       DEF Reorg, ChainTypeOK, Blocks
  <2>3. InclusionsOnChain'
    BY <1>5, <2>1
       DEF Reorg, ValidAt, InclusionsOnChain, ChainTypeOK, Blocks
  <2> QED
    BY <2>2, <2>3
<1>6. CursorsOnChain'
  BY <1>2 DEF CursorsOnChain, Limit, ScanTypeOK, StoreTypeOK, Blocks,
              storeVars, scanVars
<1>7. WatchedAreSubmitted'
  BY <1>2 DEF WatchedAreSubmitted, StoreTypeOK, Blocks, storeVars, pubVars
<1> QED
  BY <1>1, <1>3, <1>4, <1>5, <1>6, <1>7 DEF ChainNext

\* The publisher records ranges that begin no later than the era.
LEMMA PubKeepsBasics ==
    ASSUME NEW t \in Txns, Basics, PubStep(t)
    PROVE  Basics'
<1> USE DEF Basics, TypeOK
<1>1. /\ UNCHANGED <<head, finalized, incl, lastSeen>>
      /\ UNCHANGED <<phase, scanVars>>
  BY DEF PubStep, PubRead, PubSubmit, PubWatch, PubFails, Submit, chainVars,
         storeVars
<1>2. ScanTypeOK' /\ CursorsOnChain'
  BY <1>1 DEF ScanTypeOK, CursorsOnChain, Limit, scanVars
<1>3. HistTypeOK'
  BY DEF PubStep, PubRead, PubSubmit, PubWatch, PubFails, HistTypeOK, histVars
<1>4. CASE PubRead(t)
  <2>1. ChainTypeOK' /\ InclusionsOnChain'
    BY <1>4 DEF PubRead, ChainTypeOK, InclusionsOnChain, chainVars
  <2>2. StoreTypeOK'
    BY <1>4 DEF PubRead, StoreTypeOK, ChainTypeOK, PubStates, storeVars
  <2>3. WatchedAreSubmitted'
    BY <1>4 DEF PubRead, WatchedAreSubmitted, StoreTypeOK, ChainTypeOK, Blocks,
                PubStates, chainVars, storeVars
  <2> QED
    BY <1>2, <1>3, <2>1, <2>2, <2>3
<1>5. CASE PubSubmit(t)
  <2>1. ChainTypeOK' /\ InclusionsOnChain'
    BY <1>5 DEF PubSubmit, Submit, ChainTypeOK, InclusionsOnChain, Blocks
  <2>2. StoreTypeOK'
    BY <1>5 DEF PubSubmit, StoreTypeOK, PubStates, storeVars
  <2>3. WatchedAreSubmitted'
    BY <1>5 DEF PubSubmit, Submit, WatchedAreSubmitted, StoreTypeOK,
                ChainTypeOK, CursorsOnChain, Blocks, PubStates, storeVars
  <2> QED
    BY <1>2, <1>3, <2>1, <2>2, <2>3
<1>6. CASE PubWatch(t)
  <2>1. ChainTypeOK' /\ InclusionsOnChain'
    BY <1>6 DEF PubWatch, ChainTypeOK, InclusionsOnChain, chainVars
  <2>2. /\ EraBirth(signed[t], fin[t]) \in Nat
        /\ EraDeath(signed[t], fin[t]) \in Nat
        /\ EraBirth(signed[t], fin[t]) <= signed[t]
    BY <1>6, EraBirthBound DEF PubWatch, WatchedAreSubmitted, ChainTypeOK,
                               StoreTypeOK, Blocks
  <2>3. StoreTypeOK'
    BY <1>6, <2>2 DEF PubWatch, StoreTypeOK, PubStates
  <2>4. WatchedAreSubmitted'
    BY <1>6, <2>2 DEF PubWatch, WatchedAreSubmitted, StoreTypeOK, PubStates,
                      chainVars
  <2> QED
    BY <1>2, <1>3, <2>1, <2>3, <2>4
<1>7. CASE PubFails(t)
  <2>1. ChainTypeOK' /\ InclusionsOnChain'
    BY <1>7 DEF PubFails, ChainTypeOK, InclusionsOnChain, chainVars
  <2>2. StoreTypeOK'
    BY <1>7 DEF PubFails, StoreTypeOK, PubStates, storeVars
  <2>3. WatchedAreSubmitted'
    BY <1>7 DEF PubFails, WatchedAreSubmitted, StoreTypeOK, PubStates,
                chainVars, storeVars
  <2> QED
    BY <1>2, <1>3, <2>1, <2>2, <2>3
<1> QED
  BY <1>4, <1>5, <1>6, <1>7 DEF PubStep

\* Restart and bootstrap put the cursor on the finalized chain at most.
LEMMA ProcessKeepsBasics ==
    ASSUME Basics, ProcessStep
    PROVE  Basics'
<1> USE DEF Basics, TypeOK
<1>1. UNCHANGED <<chainVars, pubVars, scanVars, watch, birth, death, used>>
  BY DEF ProcessStep, Restart, BootKeys, BootSkip, storeVars
<1>2. ChainTypeOK' /\ InclusionsOnChain' /\ ScanTypeOK' /\ WatchedAreSubmitted'
  BY <1>1 DEF ChainTypeOK, InclusionsOnChain, ScanTypeOK, WatchedAreSubmitted,
              chainVars, pubVars, scanVars
<1>3. CASE BootSkip
  <2>1. StoreTypeOK' /\ HistTypeOK'
    BY <1>1, <1>3 DEF BootSkip, StoreTypeOK, HistTypeOK, ChainTypeOK, pubVars
  <2>2. CursorsOnChain'
    BY <1>1, <1>3 DEF BootSkip, CursorsOnChain, Limit, ChainTypeOK, Blocks,
                      chainVars, scanVars
  <2> QED
    BY <1>2, <2>1, <2>2
<1>4. CASE Restart \/ BootKeys
  <2>1. UNCHANGED <<lastSeen, histVars>> /\ phase' \in {"boot", "skip", "up"}
    BY <1>4 DEF Restart, BootKeys, storeVars
  <2>2. StoreTypeOK' /\ HistTypeOK'
    BY <1>1, <2>1 DEF StoreTypeOK, HistTypeOK, pubVars, histVars
  <2>3. CursorsOnChain'
    BY <1>1, <2>1 DEF CursorsOnChain, Limit, chainVars, scanVars
  <2> QED
    BY <1>2, <2>2, <2>3
<1> QED
  BY <1>3, <1>4 DEF ProcessStep

\* It holds at first.
LEMMA InitBasics == Init => Basics
<1> SUFFICES ASSUME Init PROVE Basics
  OBVIOUS
<1> USE DEF Init, ChainInit, NoScan
<1>1. ChainTypeOK
  BY OutcomesAssumption, MaxBlockAssumption, MaxReorgsAssumption
     DEF ChainTypeOK, Blocks
<1>2. StoreTypeOK
  BY MaxBlockAssumption DEF StoreTypeOK, Blocks, PubStates
<1>3. ScanTypeOK
  <2>1. \A s \in Scans : pc[s] = "post" => now[s] \in Txns
    OBVIOUS
  <2>2. /\ cur \in [Scans -> 0..(MaxBlock + 1)]
        /\ tries \in [Scans -> 0..MaxRetries]
    BY MaxBlockAssumption, MaxRetriesAssumption
  <2>3. pc \in [Scans -> PCs]
    BY DEF PCs
  <2> QED
    BY <2>1, <2>2, <2>3 DEF ScanTypeOK
<1>4. HistTypeOK
  BY MaxCrashesAssumption DEF HistTypeOK
<1>5. CursorsOnChain /\ InclusionsOnChain /\ WatchedAreSubmitted
  BY DEF CursorsOnChain, InclusionsOnChain, WatchedAreSubmitted, Limit, OnBlock
<1> QED
  BY <1>1, <1>2, <1>3, <1>4, <1>5 DEF Basics, TypeOK

\* Basics is inductive.
LEMMA NextKeepsBasics == Basics /\ [Next]_vars => Basics'
<1> SUFFICES ASSUME Basics, [Next]_vars PROVE Basics'
  OBVIOUS
<1>1. CASE Chains
  BY <1>1, ChainKeepsBasics
<1>2. ASSUME NEW t \in Txns, PubStep(t) PROVE Basics'
  BY <1>2, PubKeepsBasics
<1>3. ASSUME NEW s \in Scans, ScanStart(s) \/ ScanStep(s) PROVE Basics'
  BY <1>3, ScanKeepsBasics
<1>4. CASE Crash
  <2>1. crashes' \in 0..MaxCrashes
    BY <1>4, MaxCrashesAssumption DEF Crash, Basics, TypeOK, HistTypeOK
  <2> QED
    BY <1>4, <2>1, ExitKeepsBasics DEF Crash
<1>5. CASE ProcessStep
  BY <1>5, ProcessKeepsBasics
<1>6. CASE UNCHANGED vars
  BY <1>6 DEF vars, Basics, TypeOK, ChainTypeOK, StoreTypeOK, ScanTypeOK,
              HistTypeOK, CursorsOnChain, InclusionsOnChain,
              WatchedAreSubmitted, Limit, chainVars, pubVars, storeVars,
              scanVars, histVars
<1> QED
  BY <1>1, <1>2, <1>3, <1>4, <1>5, <1>6 DEF Next

\* Every variable keeps its type; with MaxBlock and the like, this is also
\* what says that no cursor runs off the chain.
THEOREM TypeCorrect == Spec => []TypeOK
<1>1. Basics => TypeOK
  BY DEF Basics
<1> QED
  BY <1>1, InitBasics, NextKeepsBasics, PTL DEF Spec

-----------------------------------------------------------------------------
(* The cursor invariant                                                    *)

Tracking == BlocksAreExact /\ NoScanPast /\ NoSilentSkip

\* A fork, or a stale hash, is not forgotten.
LEMMA ForkSeenStays ==
    ASSUME Basics, Next, NoForkSeen'
    PROVE  NoForkSeen
<1>1. mishaps \subseteq mishaps'
  <2>1. ASSUME NEW s \in Scans, ScanStart(s) \/ ScanStep(s)
        PROVE  mishaps \subseteq mishaps'
    BY <2>1 DEF ScanStart, ScanStep, CheckInitial, ReadLastSeen, ReadBirths,
         FetchHash, CheckParams, LoadPending, ExamineStep, ScanThrows,
         SkipFailed, SkipNeither, StartPost, EndExamine, PostStep, PostOk,
         PostFails, PostGivesUp, CapacityStep, CapacityGet, CapacitySet,
         CapacityFails, Exec, Advance, ExitProcess, histVars
  <2> QED
    BY <2>1 DEF Next, Chains, PubStep, PubRead, PubSubmit, PubWatch, PubFails,
         Crash, ExitProcess, ProcessStep, Restart, BootKeys, BootSkip, histVars
<1>2. UNCHANGED reorgs \/ reorgs' = reorgs + 1
  <2>1. ASSUME NEW s \in Scans, ScanStart(s) \/ ScanStep(s)
        PROVE  UNCHANGED reorgs
    BY <2>1, ScanFrame DEF chainVars
  <2> QED
    BY <2>1 DEF Next, Chains, ChainNext, ProduceBlock, Finalize, Reorg,
         PubStep, PubRead, PubSubmit, Submit, PubWatch, PubFails, Crash,
         ExitProcess, ProcessStep, Restart, BootKeys, BootSkip, chainVars
<1> QED
  BY <1>1, <1>2 DEF NoForkSeen, OnlyFinalized, Basics, TypeOK, ChainTypeOK

\* A scan's copy of its block stays exact: it is taken from the chain, and
\* checked again against the finalized part.
LEMMA ScanKeepsBlocks ==
    ASSUME NEW s \in Scans, Basics, Tracking, NoForkSeen, NoForkSeen',
           ScanStart(s) \/ ScanStep(s)
    PROVE  BlocksAreExact'
<1> USE DEF Basics, TypeOK, Tracking, BlocksAreExact, ScanTypeOK
<1>1. UNCHANGED incl /\ UNCHANGED reorgs
  BY ScanFrame DEF chainVars
<1>2. CASE ExitProcess
  BY <1>2 DEF ExitProcess, OnBlock
<1>3. CASE FetchHash(s)
  BY <1>1, <1>3 DEF FetchHash, Finish, BlockAt, OnBlock
<1>4. CASE CheckParams(s)
  BY <1>1, <1>4
     DEF CheckParams, Finish, BlockAt, OnBlock, NoForkSeen, OnlyFinalized
<1>5. CASE UNCHANGED <<pc, cur, blk>>
  BY <1>1, <1>5 DEF BlockAt
<1>6. CASE /\ UNCHANGED <<cur, blk>>
           /\ pc[s] \in OnBlock \cup {"load"}
           /\ \E q \in OnBlock \cup {"advance"} : pc' = [pc EXCEPT ![s] = q]
  BY <1>1, <1>6 DEF BlockAt, OnBlock
<1>7. CASE \/ ScanStart(s) \/ CheckInitial(s) \/ ReadLastSeen(s)
           \/ ReadBirths(s) \/ Advance(s)
  BY <1>1, <1>7 DEF ScanStart, CheckInitial, Finish, ReadLastSeen, ReadBirths,
                    Advance, BlockAt, OnBlock
<1>8. CASE \/ LoadPending(s) \/ StartPost(s) \/ EndExamine(s) \/ PostOk(s)
           \/ PostGivesUp(s) \/ CapacityStep(s) \/ Exec(s)
  BY <1>6, <1>8 DEF LoadPending, StartPost, EndExamine, PostOk, PostGivesUp,
                    EndPost, CapacityStep, CapacityGet, CapacitySet,
                    CapacityFails, Exec, OnBlock
<1>9. CASE SkipFailed(s) \/ SkipNeither(s) \/ PostFails(s)
  BY <1>5, <1>9 DEF SkipFailed, SkipNeither, PostFails
<1> QED
  BY <1>2, <1>3, <1>4, <1>7, <1>8, <1>9
     DEF ScanStep, ExamineStep, ScanThrows, PostStep

\* Neither the cursor nor a scan passes a watched extrinsic: the step that
\* could, Exec, has it in its copy of block and list, and removes it.
LEMMA ScanKeepsPlace ==
    ASSUME NEW s \in Scans, Basics, Tracking, NoForkSeen,
           ScanStart(s) \/ ScanStep(s),
           NEW t \in watch' \ missed', incl'[t] # 0
    PROVE  /\ lastSeen' < incl'[t]
           /\ \A r \in Scans : Ahead(r, t, incl[t])'
<1> USE DEF Basics, TypeOK
<1>1. UNCHANGED incl /\ t \in Txns /\ t \in watch \ missed
  <2>1. UNCHANGED incl /\ watch' \subseteq watch
    BY ScanFrame DEF chainVars
  <2>2. UNCHANGED missed
    BY DEF ScanStart, ScanStep, CheckInitial, ReadLastSeen, ReadBirths,
         FetchHash, CheckParams, LoadPending, ExamineStep, ScanThrows,
         SkipFailed, SkipNeither, StartPost, EndExamine, PostStep, PostOk,
         PostFails, PostGivesUp, CapacityStep, CapacityGet, CapacitySet,
         CapacityFails, Exec, Advance, ExitProcess, histVars
  <2> QED
    BY <2>1, <2>2 DEF StoreTypeOK
<1>2. /\ incl[t] \in Nat /\ incl[t] # 0 /\ lastSeen \in Nat
      /\ lastSeen < incl[t]
      /\ \A r \in Scans : Ahead(r, t, incl[t]) /\ cur[r] \in Nat
  BY <1>1 DEF Tracking, NoSilentSkip, NoScanPast, ChainTypeOK, StoreTypeOK,
              ScanTypeOK, Blocks
<1> DEFINE Others == \A r \in Scans \ {s} :
                        /\ pc'[r] = pc[r] /\ cur'[r] = cur[r]
                        /\ pend'[r] = pend[r]
<1>3. ASSUME Others, UNCHANGED lastSeen, Ahead(s, t, incl[t])'
      PROVE  /\ lastSeen' < incl'[t]
             /\ \A r \in Scans : Ahead(r, t, incl[t])'
  BY <1>1, <1>2, <1>3 DEF Ahead
<1>4. CASE ExitProcess
  BY <1>1, <1>2, <1>4 DEF ExitProcess, Ahead, storeVars, OnBlock
<1>5. CASE ReadLastSeen(s)
  BY <1>1, <1>2, <1>3, <1>5 DEF ReadLastSeen, Ahead, OnBlock, ScanTypeOK,
                                storeVars
<1>6. CASE ReadBirths(s)
  <2>1. PICK first \in watch :
           /\ \A u \in watch : birth[first] <= birth[u]
           /\ cur' = [cur EXCEPT ![s] =
                         IF birth[first] > @ THEN birth[first] + 1 ELSE @ + 1]
    BY <1>1, <1>6 DEF ReadBirths
  <2>2. cur[s] < incl[t]
    BY <1>2, <1>6 DEF ReadBirths, Ahead
  <2>3. /\ birth[first] <= birth[t] /\ birth[t] <= signed[t]
        /\ signed[t] < incl[t]
        /\ birth[first] \in Nat /\ birth[t] \in Nat /\ signed[t] \in Nat
    BY <1>1, <1>2, <2>1 DEF WatchedAreSubmitted, InclusionsOnChain,
                            StoreTypeOK, ChainTypeOK, Blocks
  <2>4. cur'[s] <= incl[t]
    BY <1>2, <2>1, <2>2, <2>3 DEF ScanTypeOK
  <2> QED
    BY <1>1, <1>3, <1>6, <2>1, <2>4
       DEF ReadBirths, Ahead, OnBlock, ScanTypeOK, storeVars
<1>7. CASE LoadPending(s)
  BY <1>1, <1>2, <1>3, <1>7 DEF LoadPending, Ahead, OnBlock, ScanTypeOK,
                                storeVars
<1>8. CASE Exec(s)
  <2>1. cur[s] # incl[t]
    <3>1. SUFFICES ASSUME cur[s] = incl[t] PROVE t \notin watch'
      BY DEF Exec
    <3>2. t \in pend[s]
      BY <1>2, <1>8, <3>1 DEF Exec, Ahead, OnBlock
    <3>3. t \in blk[s]
      BY <1>1, <1>8, <3>1
         DEF Exec, Tracking, BlocksAreExact, BlockAt, OnBlock
    <3> QED
      BY <1>8, <3>2, <3>3 DEF Exec, Indices
  <2> QED
    BY <1>1, <1>2, <1>3, <1>8, <2>1 DEF Exec, Ahead, OnBlock, ScanTypeOK
<1>9. CASE Advance(s)
  <2>1. cur[s] < incl[t]
    BY <1>2, <1>9 DEF Advance, Ahead
  <2> QED
    BY <1>1, <1>2, <1>9, <2>1 DEF Advance, Ahead, OnBlock, ScanTypeOK
<1>10. CASE \/ ScanStart(s) \/ CheckInitial(s) \/ FetchHash(s)
            \/ CheckParams(s)
  BY <1>1, <1>2, <1>3, <1>10
     DEF ScanStart, CheckInitial, FetchHash, CheckParams, Finish, Ahead,
         OnBlock, ScanTypeOK, storeVars
<1>11. CASE \/ StartPost(s) \/ EndExamine(s) \/ PostOk(s) \/ PostGivesUp(s)
            \/ CapacityStep(s) \/ SkipFailed(s) \/ SkipNeither(s) \/ PostFails(s)
  <2>1. /\ UNCHANGED <<cur, pend, lastSeen>>
        /\ pc[s] \in OnBlock
        /\ \E q \in OnBlock : pc' = [pc EXCEPT ![s] = q]
    BY <1>11 DEF StartPost, EndExamine, PostOk, PostGivesUp, EndPost,
         CapacityStep, CapacityGet, CapacitySet, CapacityFails, SkipFailed,
         SkipNeither, PostFails, OnBlock, storeVars, ScanTypeOK
  <2> QED
    BY <1>1, <1>2, <1>3, <2>1 DEF Ahead, OnBlock, ScanTypeOK
<1> QED
  BY <1>4, <1>5, <1>6, <1>7, <1>8, <1>9, <1>10, <1>11
     DEF ScanStep, ExamineStep, ScanThrows, PostStep

\* So scans keep the cursor invariant.
LEMMA ScanKeepsTracking ==
    ASSUME NEW s \in Scans, Basics, Tracking, ScanStart(s) \/ ScanStep(s)
    PROVE  Tracking'
<1> SUFFICES ASSUME NoForkSeen' PROVE Tracking'
  BY DEF Tracking, BlocksAreExact, NoScanPast, NoSilentSkip
<1>1. NoForkSeen
  BY ForkSeenStays DEF Next
<1>2. BlocksAreExact'
  BY <1>1, ScanKeepsBlocks
<1>3. NoScanPast' /\ NoSilentSkip'
  BY <1>1, ScanKeepsPlace DEF NoScanPast, NoSilentSkip
<1> QED
  BY <1>2, <1>3 DEF Tracking

\* New inclusions lie beyond every cursor, even on a fork when scans keep to
\* the finalized part.
LEMMA ChainKeepsTracking ==
    ASSUME Basics, Tracking, Chains
    PROVE  Tracking'
<1> SUFFICES ASSUME NoForkSeen' PROVE Tracking'
  BY DEF Tracking, BlocksAreExact, NoScanPast, NoSilentSkip
<1> USE DEF Basics, TypeOK
<1>1. NoForkSeen
  BY ForkSeenStays DEF Next
<1>2. UNCHANGED <<watch, missed, lastSeen, pc, cur, blk, pend>>
  BY DEF Chains, storeVars, scanVars, histVars
<1>3. /\ head \in Nat /\ finalized \in Nat /\ finalized <= head
      /\ lastSeen \in Nat /\ lastSeen <= Limit
      /\ \A s \in Scans : cur[s] \in Nat
  BY DEF ChainTypeOK, StoreTypeOK, ScanTypeOK, CursorsOnChain, Blocks
\* The numbers a scan or the cursor may have gone past stay as they were.
<1> DEFINE Kept(top) == \A t \in Txns :
              /\ incl'[t] = incl[t] \/ incl'[t] = 0 \/ incl'[t] > top
              /\ incl[t] \in 1..top => incl'[t] = incl[t]
<1>4. ASSUME NEW top \in Nat, Limit <= top, Kept(top)
      PROVE  NoScanPast' /\ NoSilentSkip'
  <2>1. SUFFICES ASSUME NEW t \in watch \ missed, incl'[t] # 0
                 PROVE  /\ lastSeen < incl'[t]
                        /\ \A s \in Scans : Ahead(s, t, incl[t])'
    BY <1>2 DEF NoScanPast, NoSilentSkip
  <2>2. t \in Txns /\ incl[t] \in Nat /\ incl'[t] \in Nat
    BY ChainKeepsBasics DEF StoreTypeOK, ChainTypeOK, Blocks
  <2>3. CASE incl'[t] = incl[t]
    BY <1>1, <1>2, <2>1, <2>2, <2>3
       DEF Tracking, NoScanPast, NoSilentSkip, Ahead
  <2>4. CASE incl'[t] > top
    <3>1. lastSeen < incl'[t]
      BY <1>3, <1>4, <2>2, <2>4 DEF Limit
    <3>2. ASSUME NEW s \in Scans PROVE Ahead(s, t, incl[t])'
      <4>1. /\ pc[s] \in OnBlock \cup {"births", "load", "advance"}
                 => cur[s] < incl'[t]
            /\ pc[s] \in {"hash", "check"} => cur[s] <= incl'[t]
        BY <1>3, <1>4, <2>2, <2>4 DEF CursorsOnChain, Limit
      <4> QED
        BY <1>2, <1>3, <2>2, <4>1 DEF Ahead
    <3> QED
      BY <3>1, <3>2
  <2> QED
    BY <1>4, <2>1, <2>2, <2>3, <2>4
<1>5. CASE Kept(head)
  <2>1. \A b \in 1..head : BlockAt(b)' = BlockAt(b)
    BY <1>3, <1>5 DEF BlockAt, ChainTypeOK, Blocks
  <2>2. reorgs' = 0 => reorgs = 0
    BY DEF Chains, ChainNext, ProduceBlock, Finalize, Reorg, ChainTypeOK
  <2>3. BlocksAreExact'
    BY <1>1, <1>2, <1>3, <2>1, <2>2
       DEF Tracking, BlocksAreExact, CursorsOnChain, Limit, OnBlock
  <2> QED
    BY <1>3, <1>4, <1>5, <2>3 DEF Tracking, Limit
<1>6. CASE OnlyFinalized /\ Kept(finalized) /\ reorgs' # 0
  <2>1. Limit = finalized
    BY <1>6 DEF Limit
  <2>2. \A b \in 1..finalized : BlockAt(b)' = BlockAt(b)
    BY <1>3, <1>6 DEF BlockAt, ChainTypeOK, Blocks
  <2>3. BlocksAreExact'
    BY <1>1, <1>2, <1>3, <1>6, <2>1, <2>2
       DEF Tracking, BlocksAreExact, CursorsOnChain, OnBlock
  <2> QED
    BY <1>3, <1>4, <1>6, <2>1, <2>3 DEF Tracking
<1>7. CASE ProduceBlock
  BY <1>3, <1>5, <1>7 DEF ProduceBlock, ChainTypeOK, Blocks
<1>8. CASE Finalize
  BY <1>3, <1>5, <1>8 DEF Finalize, ChainTypeOK, Blocks
<1>9. CASE Reorg
  <2>1. PICK fork \in finalized..(head - 1) :
           incl' \in {f \in [Txns -> Blocks] :
                        \A t \in Txns :
                           IF incl[t] \in 1..fork
                           THEN f[t] = incl[t]
                           ELSE f[t] = 0 \/ (f[t] \in (fork + 1)..(head + 1)
                                             /\ ValidAt(t, f[t]))}
    BY <1>9 DEF Reorg
  <2>2. Kept(finalized)
    BY <1>3, <2>1 DEF ChainTypeOK, Blocks
  <2>3. reorgs' # 0
    BY <1>9 DEF Reorg, ChainTypeOK
  <2> QED
    BY <1>6, <2>2, <2>3 DEF NoForkSeen, OnlyFinalized
<1> QED
  BY <1>7, <1>8, <1>9 DEF Chains, ChainNext

\* An entry that is written too late is counted as missed.
LEMMA PubKeepsTracking ==
    ASSUME NEW t \in Txns, Basics, Tracking, PubStep(t)
    PROVE  Tracking'
<1> USE DEF Basics, TypeOK
<1>1. /\ UNCHANGED <<incl, reorgs, mishaps, lastSeen, pc, cur, blk, pend>>
      /\ NoForkSeen' = NoForkSeen
  BY DEF PubStep, PubRead, PubSubmit, Submit, PubWatch, PubFails, chainVars,
         storeVars, scanVars, histVars, NoForkSeen, OnlyFinalized
<1>2. BlocksAreExact'
  BY <1>1 DEF Tracking, BlocksAreExact, BlockAt
<1>3. CASE UNCHANGED <<watch, missed>>
  BY <1>1, <1>2, <1>3 DEF Tracking, NoScanPast, NoSilentSkip, Ahead
<1>4. CASE PubWatch(t)
  <2>1. /\ watch' \ missed' \subseteq (watch \ missed) \cup {t}
        /\ t \notin missed' => ~Passed(t)
    BY <1>4 DEF PubWatch
  <2>2. t \notin missed' /\ incl[t] # 0
          => /\ lastSeen < incl[t]
             /\ \A s \in Scans : Ahead(s, t, incl[t])
    BY <2>1 DEF Passed, ChainTypeOK, StoreTypeOK, Blocks
  <2>3. NoScanPast' /\ NoSilentSkip'
    BY <1>1, <2>1, <2>2 DEF Tracking, NoScanPast, NoSilentSkip, Ahead
  <2> QED
    BY <1>2, <2>3 DEF Tracking
<1>5. CASE ~PubWatch(t)
  BY <1>3, <1>5 DEF PubStep, PubRead, PubSubmit, PubFails, storeVars, histVars
<1> QED
  BY <1>4, <1>5

\* The jump at bootstrap counts what it passes as missed.
LEMMA ProcessKeepsTracking ==
    ASSUME Basics, Tracking, ProcessStep
    PROVE  Tracking'
<1> USE DEF Basics, TypeOK
<1>1. /\ UNCHANGED <<incl, reorgs, mishaps, watch, pc, cur, blk, pend>>
      /\ NoForkSeen' = NoForkSeen
  BY DEF ProcessStep, Restart, BootKeys, BootSkip, chainVars, storeVars,
         scanVars, histVars, NoForkSeen, OnlyFinalized
<1>2. BlocksAreExact'
  BY <1>1 DEF Tracking, BlocksAreExact, BlockAt
<1>3. NoScanPast'
  BY <1>1 DEF Tracking, NoScanPast, Ahead, ProcessStep, Restart, BootKeys,
              BootSkip, histVars
<1>4. NoSilentSkip'
  <2>1. CASE BootSkip
    BY <1>1, <2>1
       DEF BootSkip, NoSilentSkip, ChainTypeOK, StoreTypeOK, Blocks
  <2>2. CASE Restart \/ BootKeys
    BY <1>1, <2>2
       DEF Restart, BootKeys, Tracking, NoSilentSkip, storeVars, histVars
  <2> QED
    BY <2>1, <2>2 DEF ProcessStep
<1> QED
  BY <1>2, <1>3, <1>4 DEF Tracking

\* After an exit no scan is under way.
LEMMA ExitKeepsTracking ==
    ASSUME Basics, Tracking, ExitProcess
    PROVE  Tracking'
<1>1. /\ UNCHANGED <<incl, reorgs, watch, missed, lastSeen>>
      /\ NoForkSeen' => NoForkSeen
      /\ \A s \in Scans : pc'[s] = "idle"
  BY DEF ExitProcess, chainVars, storeVars, NoForkSeen, OnlyFinalized
<1> QED
  BY <1>1 DEF Tracking, BlocksAreExact, NoScanPast, NoSilentSkip, Ahead, OnBlock

\* The cursor invariant is inductive relative to Basics.
LEMMA NextKeepsTracking == Basics /\ Tracking /\ [Next]_vars => Tracking'
<1> SUFFICES ASSUME Basics, Tracking, [Next]_vars PROVE Tracking'
  OBVIOUS
<1>1. CASE Chains
  BY <1>1, ChainKeepsTracking
<1>2. ASSUME NEW t \in Txns, PubStep(t) PROVE Tracking'
  BY <1>2, PubKeepsTracking
<1>3. ASSUME NEW s \in Scans, ScanStart(s) \/ ScanStep(s) PROVE Tracking'
  BY <1>3, ScanKeepsTracking
<1>4. CASE Crash
  BY <1>4, ExitKeepsTracking DEF Crash
<1>5. CASE ProcessStep
  BY <1>5, ProcessKeepsTracking
<1>6. CASE UNCHANGED vars
  BY <1>6 DEF vars, chainVars, storeVars, scanVars, histVars, Tracking,
              BlocksAreExact, NoScanPast, NoSilentSkip, NoForkSeen,
              OnlyFinalized, BlockAt, Ahead
<1> QED
  BY <1>1, <1>2, <1>3, <1>4, <1>5, <1>6 DEF Next

\* No block that holds a watched extrinsic is skipped, by the saved cursor or
\* by a scan under way.
THEOREM CursorCorrect == Spec => []CursorInv
<1>1. Init => Tracking
  BY DEF Init, Tracking, BlocksAreExact, NoScanPast, NoSilentSkip, NoScan,
         OnBlock
<1>2. Basics /\ Tracking => CursorInv
  BY DEF Basics, Tracking, CursorInv
<1> QED
  BY <1>1, <1>2, InitBasics, NextKeepsBasics, NextKeepsTracking, PTL DEF Spec

\* NoSilentSkip for every number of extrinsics, scans and blocks: the saved
\* cursor never passes a watched extrinsic's block.
THEOREM NoSilentSkipHolds == Spec => []NoSilentSkip
<1>1. CursorInv => NoSilentSkip
  BY DEF CursorInv
<1> QED
  BY <1>1, CursorCorrect, PTL

=============================================================================
