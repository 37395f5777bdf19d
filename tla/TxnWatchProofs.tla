--------------------------- MODULE TxnWatchProofs ---------------------------
(***************************************************************************)
(* The notifier implements TxnWatch, for any number of extrinsics, scans,  *)
(* crashes and forks: SettledInv is inductive relative to Basics, and      *)
(* gives each action of the notifier its action of TxnWatch.  On the same  *)
(* ground: what was reported is final, webhooks are not repeated and the   *)
(* cursor does not go back without a cause, and the epoch's counter is     *)
(* exact.                                                                  *)
(***************************************************************************)
EXTENDS TxnNotifierProofs

-----------------------------------------------------------------------------
(* SettledInv is inductive                                                 *)

\* The part of SettledInv that is about scan s.
Settled(s) ==
    /\ \A t \in pend[s] : pub[t] = "watched"
    /\ pc[s] \in OnBlock => \A t \in Indices(s) : Handled(s, t)
    /\ pc[s] \in {"capGet", "capSet", "exec"} => todo[s] = {}
    /\ pc[s] \in {"examine", "post"} => todo[s] \subseteq pend[s]
    /\ pc[s] = "post" => now[s] \in pend[s] /\ outcome[now[s]] = "success"
    /\ (pc[s] \in OnBlock /\ \A r \in Scans : r = s) => pend[s] \subseteq watch

LEMMA SettledParts == SettledInv <=> \A s \in Scans : Settled(s)
BY DEF SettledInv, Settled

\* What was watched, delivered or given up stays so; outcomes are fixed.
LEMMA HistoryGrows ==
    ASSUME Basics, Next
    PROVE  /\ UNCHANGED outcome
           /\ \A t \in Txns : pub[t] = "watched" => pub'[t] = "watched"
           /\ \A t \in Txns : delivered[t] > 0 => delivered'[t] > 0
           /\ gaveUp \subseteq gaveUp'
<1> USE DEF Basics, TypeOK, StoreTypeOK, HistTypeOK
<1>1. ASSUME NEW s \in Scans, ScanStart(s) \/ ScanStep(s)
      PROVE  /\ \A t \in Txns : delivered[t] > 0 => delivered'[t] > 0
             /\ gaveUp \subseteq gaveUp'
  BY <1>1 DEF ScanStart, ScanStep, CheckInitial, ReadLastSeen, ReadBirths,
       FetchHash, CheckParams, LoadPending, ExamineStep, ScanThrows,
       SkipFailed, SkipNeither, StartPost, EndExamine, PostStep, PostOk,
       PostFails, PostGivesUp, Deliver, CapacityStep, CapacityGet, CapacitySet,
       CapacityFails, Exec, Advance, ExitProcess, histVars
<1>2. ASSUME NEW s \in Scans, ScanStart(s) \/ ScanStep(s)
      PROVE  /\ UNCHANGED outcome
             /\ \A t \in Txns : pub[t] = "watched" => pub'[t] = "watched"
  <2>1. UNCHANGED pub => \A t \in Txns : pub[t] = "watched" => pub'[t] = "watched"
    OBVIOUS
  <2>2. ExitProcess => \A t \in Txns : pub[t] = "watched" => pub'[t] = "watched"
    BY DEF ExitProcess
  <2> QED
    BY <1>2, <2>1, <2>2, ScanFrame DEF chainVars
<1>3. ASSUME NEW t \in Txns, PubStep(t)
      PROVE  /\ UNCHANGED <<outcome, delivered, gaveUp>>
             /\ \A u \in Txns : pub[u] = "watched" => pub'[u] = "watched"
  BY <1>3 DEF PubStep, PubRead, PubSubmit, Submit, PubWatch, PubFails,
       chainVars, histVars
<1>4. CASE Crash
  BY <1>4 DEF Crash, ExitProcess, chainVars
<1>5. CASE Chains \/ ProcessStep
  BY <1>5 DEF Chains, ChainNext, ProduceBlock, Finalize, Reorg, ProcessStep,
       Restart, BootKeys, BootSkip, chainVars, pubVars, histVars
<1> QED
  BY <1>1, <1>2, <1>3, <1>4, <1>5 DEF Next

\* A scan that is not the one that moves keeps its part.
LEMMA OthersStaySettled ==
    ASSUME Basics, Next, NEW s \in Scans, Settled(s),
           pc'[s] = pc[s], blk'[s] = blk[s], pend'[s] = pend[s],
           todo'[s] = todo[s], now'[s] = now[s],
           watch \subseteq watch' \/ \E r \in Scans : r # s
    PROVE  Settled(s)'
<1>1. pend[s] \subseteq Txns
  BY DEF Basics, TypeOK, ScanTypeOK
<1> QED
  BY <1>1, HistoryGrows DEF Settled, Handled, Indices, OnBlock

\* An exit ends every scan.
LEMMA ExitSettles ==
    ASSUME ExitProcess
    PROVE  SettledInv'
BY DEF ExitProcess, SettledInv, OnBlock

\* A scan's own steps keep its part: the awaits outside a block ...
LEMMA CursorStepsSettle ==
    ASSUME Basics, Next, NEW s \in Scans, Settled(s),
           \/ ScanStart(s) \/ CheckInitial(s) \/ ReadLastSeen(s)
           \/ ReadBirths(s) \/ FetchHash(s) \/ CheckParams(s) \/ Advance(s)
    PROVE  Settled(s)'
<1>1. /\ pc'[s] \notin OnBlock /\ pc'[s] # "post"
      /\ pend'[s] = pend[s] \/ pend'[s] = {}
  BY DEF ScanStart, CheckInitial, ReadLastSeen, ReadBirths, FetchHash,
         CheckParams, Advance, Finish, OnBlock, Basics, TypeOK, ScanTypeOK
<1>2. \A t \in pend'[s] : pub'[t] = "watched"
  BY <1>1, HistoryGrows DEF Settled, Basics, TypeOK, ScanTypeOK
<1> QED
  BY <1>1, <1>2 DEF Settled, OnBlock

\* ... and those on one.
LEMMA BlockStepsSettle ==
    ASSUME Basics, Next, NEW s \in Scans, Settled(s),
           \/ LoadPending(s) \/ SkipFailed(s) \/ SkipNeither(s) \/ StartPost(s)
           \/ EndExamine(s) \/ PostStep(s) \/ CapacityStep(s) \/ Exec(s)
    PROVE  Settled(s)'
<1> USE DEF Basics, TypeOK, ScanTypeOK, StoreTypeOK, HistTypeOK, ChainTypeOK
<1>0. pend[s] \subseteq Txns /\ blk[s] \subseteq Txns
  OBVIOUS
<1>1. CASE LoadPending(s)
  <2>1. /\ pend'[s] = watch /\ todo'[s] = blk[s] \cap watch /\ blk' = blk
        /\ pc'[s] = (IF blk[s] \cap watch = {} THEN "exec" ELSE "examine")
        /\ watch' = watch /\ pub' = pub
    BY <1>1 DEF LoadPending, storeVars, pubVars
  <2> QED
    BY <2>1 DEF Settled, Handled, Indices, OnBlock, WatchedAreSubmitted
<1>2. CASE SkipFailed(s) \/ SkipNeither(s)
  <2>1. PICK t \in todo[s] : /\ outcome[t] \in {"failed", "neither"}
                             /\ todo'[s] = todo[s] \ {t}
    BY <1>2 DEF SkipFailed, SkipNeither
  <2>2. /\ pc[s] = "examine"
        /\ UNCHANGED <<pc, pend, blk, watch, pub, outcome, delivered, gaveUp>>
    BY <1>2 DEF SkipFailed, SkipNeither, storeVars, pubVars, chainVars, histVars
  <2> QED
    BY <2>1, <2>2 DEF Settled, Handled, Indices, OnBlock
<1>3. CASE StartPost(s)
  <2>1. PICK t \in todo[s] : /\ outcome[t] = "success" /\ now'[s] = t
                             /\ todo'[s] = todo[s] \ {t}
    BY <1>3 DEF StartPost
  <2>2. /\ pc[s] = "examine" /\ pc'[s] = "post"
        /\ UNCHANGED <<pend, blk, watch, pub, outcome, delivered, gaveUp>>
    BY <1>3 DEF StartPost, storeVars, pubVars, chainVars, histVars
  <2> QED
    BY <2>1, <2>2 DEF Settled, Handled, Indices, OnBlock
<1>4. CASE EndExamine(s)
  <2>1. /\ pc[s] = "examine" /\ pc'[s] = "capGet" /\ todo[s] = {}
        /\ UNCHANGED <<pend, blk, todo, watch, pub, outcome, delivered, gaveUp>>
    BY <1>4 DEF EndExamine, storeVars, pubVars, chainVars, histVars
  <2> QED
    BY <2>1 DEF Settled, Handled, Indices, OnBlock
<1>5. CASE PostStep(s)
  <2>1. CASE PostFails(s)
    <3>1. UNCHANGED <<pc, pend, blk, todo, now, watch, pub>>
      BY <2>1 DEF PostFails, storeVars, pubVars
    <3> QED
      BY <3>1, OthersStaySettled
  <2>2. CASE PostOk(s) \/ PostGivesUp(s)
    <3>1. /\ pc[s] = "post" /\ pc'[s] = "examine"
          /\ UNCHANGED <<pend, blk, todo, watch, pub>>
      BY <2>2 DEF PostOk, PostGivesUp, EndPost, storeVars, pubVars
    <3>2. now[s] \in Txns /\ (delivered'[now[s]] > 0 \/ now[s] \in gaveUp')
      BY <2>2, <3>1 DEF PostOk, PostGivesUp, Deliver
    <3>3. \A t \in Indices(s) : Handled(s, t)'
      BY <3>1, <3>2, HistoryGrows, <1>0 DEF Settled, Handled, Indices, OnBlock
    <3> QED
      BY <3>1, <3>3 DEF Settled, Indices, OnBlock
  <2> QED
    BY <1>5, <2>1, <2>2 DEF PostStep
<1>6. CASE CapacityStep(s)
  <2>1. /\ pc[s] \in {"capGet", "capSet"} /\ pc'[s] \in {"capSet", "exec"}
        /\ UNCHANGED <<pend, blk, todo, watch, pub, outcome, delivered, gaveUp>>
    BY <1>6 DEF CapacityStep, CapacityGet, CapacitySet, CapacityFails,
         storeVars, pubVars, chainVars, histVars
  <2> QED
    BY <2>1 DEF Settled, Handled, Indices, OnBlock
<1>7. CASE Exec(s)
  BY <1>7 DEF Exec, Settled, OnBlock, pubVars
<1> QED
  BY <1>1, <1>2, <1>3, <1>4, <1>5, <1>6, <1>7

\* Every step of one scan keeps the parts of all.
LEMMA ScanKeepsSettled ==
    ASSUME Basics, SettledInv, Next, NEW s \in Scans,
           ScanStart(s) \/ ScanStep(s)
    PROVE  SettledInv'
<1>1. CASE ScanThrows(s)
  BY <1>1, ExitSettles DEF ScanThrows
<1>2. CASE ~ScanThrows(s)
  <2>1. Settled(s)'
    BY <1>2, SettledParts, CursorStepsSettle, BlockStepsSettle
       DEF ScanStep, ExamineStep
  <2>2. ASSUME NEW r \in Scans, r # s
        PROVE  Settled(r)'
    <3>1. /\ pc'[r] = pc[r] /\ blk'[r] = blk[r] /\ pend'[r] = pend[r]
          /\ todo'[r] = todo[r] /\ now'[r] = now[r]
      BY <1>2, <2>2 DEF ScanStart, ScanStep, CheckInitial, ReadLastSeen,
         ReadBirths, FetchHash, CheckParams, LoadPending, ExamineStep,
         SkipFailed, SkipNeither, StartPost, EndExamine, PostStep, PostOk,
         PostFails, PostGivesUp, EndPost, CapacityStep, CapacityGet,
         CapacitySet, CapacityFails, Exec, Advance, Finish, Basics, TypeOK, ScanTypeOK
    <3> QED
      BY <2>2, <3>1, SettledParts, OthersStaySettled
  <2> QED
    BY <2>1, <2>2 DEF SettledInv, Settled
<1> QED
  BY <1>1, <1>2

LEMMA NextKeepsSettled == Basics /\ SettledInv /\ [Next]_vars => SettledInv'
<1> SUFFICES ASSUME Basics, SettledInv, [Next]_vars PROVE SettledInv'
  OBVIOUS
<1>1. ASSUME NEW s \in Scans, ScanStart(s) \/ ScanStep(s) PROVE SettledInv'
  BY <1>1, ScanKeepsSettled DEF Next
<1>2. CASE Crash
  BY <1>2, ExitSettles DEF Crash
<1>3. CASE Chains \/ ProcessStep \/ \E t \in Txns : PubStep(t)
  <2>1. UNCHANGED <<pc, blk, pend, todo, now>> /\ watch \subseteq watch'
    BY <1>3 DEF Chains, ProcessStep, Restart, BootKeys, BootSkip, PubStep,
         PubRead, PubSubmit, PubWatch, PubFails, storeVars, scanVars
  <2>2. ASSUME NEW s \in Scans PROVE Settled(s)'
    BY <1>3, <2>1, SettledParts, OthersStaySettled DEF Next
  <2> QED
    BY <2>2 DEF SettledInv, Settled
<1>4. CASE UNCHANGED vars
  BY <1>4 DEF vars, chainVars, pubVars, storeVars, scanVars, histVars,
              SettledInv, Handled, Indices
<1> QED
  BY <1>1, <1>2, <1>3, <1>4 DEF Next

LEMMA InitSettled == Init => SettledInv
BY DEF Init, NoScan, SettledInv, OnBlock

-----------------------------------------------------------------------------
(* What leaves the list                                                    *)

\* The list shrinks only by an exec, which removes what was handled or is
\* expired.
LEMMA RemovedAreSettled ==
    ASSUME Basics, SettledInv, Next, NEW t \in watch \ watch'
    PROVE  Accounted(t)
<1>1. PICK s \in Scans : Exec(s)
  BY DEF Next, Chains, PubStep, PubRead, PubSubmit, PubWatch, PubFails, Crash,
     ExitProcess, ProcessStep, Restart, BootKeys, BootSkip, ScanStart,
     ScanStep, CheckInitial, ReadLastSeen, ReadBirths, FetchHash,
     CheckParams, LoadPending, ExamineStep, ScanThrows, SkipFailed, SkipNeither,
     StartPost, EndExamine, PostStep, PostOk, PostFails, PostGivesUp,
     CapacityStep, CapacityGet, CapacitySet, CapacityFails, Advance, storeVars
<1>2. t \in Indices(s) => Accounted(t)
  BY <1>1 DEF Exec, SettledInv, Handled, Accounted, OnBlock
<1>3. t \in Expired(s) => Accounted(t)
  BY <1>1 DEF Exec, Expired, Accounted
<1> QED
  BY <1>1, <1>2, <1>3 DEF Exec

\* No watched extrinsic is forgotten without a reason.
THEOREM NotForgotten == Spec => NotifiedBeforeForgotten
<1>1. Basics /\ SettledInv /\ [Next]_vars
         => [\A t \in watch \ watch' : Accounted(t)]_vars
  BY RemovedAreSettled
<1> QED
  BY <1>1, InitBasics, NextKeepsBasics, InitSettled, NextKeepsSettled, PTL
     DEF Spec, NotifiedBeforeForgotten

-----------------------------------------------------------------------------
(* The refinement                                                          *)

succeeding == {t \in Txns : outcome[t] = "success"}
statuses == [t \in Txns |-> StatusOf(t)]
excuses == gaveUp \cup ExpiredNow

\* A step that changes neither list, nor jobs' watches, nor webhooks is one
\* that at most excuses somebody.
LEMMA SilentStep ==
    ASSUME Basics, Next, UNCHANGED <<watch, delivered>>,
           \A t \in Txns : pub'[t] = "watched" <=> pub[t] = "watched"
    PROVE  Abs!Next
<1>1. UNCHANGED succeeding /\ excuses' \in SUBSET Txns
  BY HistoryGrows, NextKeepsBasics
     DEF succeeding, excuses, ExpiredNow, Basics, TypeOK, HistTypeOK
<1>2. UNCHANGED statuses
  BY DEF statuses, StatusOf
<1> QED
  BY <1>1, <1>2 DEF Abs!Next, Abs!Excuse, succeeding, statuses, excuses

\* An extrinsic put on the list was not there before, nor forgotten.
LEMMA WatchStep ==
    ASSUME Basics, Next, NEW t \in Txns, PubWatch(t)
    PROVE  Abs!Next
<1>1. UNCHANGED succeeding /\ excuses' \in SUBSET Txns
  BY HistoryGrows, NextKeepsBasics
     DEF succeeding, excuses, ExpiredNow, Basics, TypeOK, HistTypeOK
<1>2. /\ pub[t] = "sent" /\ t \notin watch
      /\ pub' = [pub EXCEPT ![t] = "watched"] /\ watch' = watch \cup {t}
      /\ UNCHANGED delivered
  BY DEF PubWatch, Basics, TypeOK, StoreTypeOK, WatchedAreSubmitted
<1>3. statuses' = [statuses EXCEPT ![t] = "watched"] /\ statuses[t] = "new"
  BY <1>2 DEF statuses, StatusOf, Basics, TypeOK, StoreTypeOK
<1>4. Abs!Watch(t)
  BY <1>2, <1>3 DEF Abs!Watch, statuses
<1> QED
  BY <1>1, <1>4 DEF Abs!Next, succeeding, excuses

\* A webhook goes out for a success that is on the list, or was when another
\* scan removed it.
LEMMA TellStep ==
    ASSUME Basics, SettledInv, Next, NEW s \in Scans, pc[s] = "post",
           Deliver(now[s]), UNCHANGED <<watch, pub>>
    PROVE  Abs!Next
<1>1. UNCHANGED succeeding /\ excuses' \in SUBSET Txns /\ UNCHANGED statuses
  BY HistoryGrows, NextKeepsBasics
     DEF succeeding, excuses, ExpiredNow, statuses, StatusOf, Basics, TypeOK,
         HistTypeOK
<1>2. now[s] \in succeeding /\ now[s] \in pend[s] /\ pub[now[s]] = "watched"
  BY DEF SettledInv, succeeding, Basics, TypeOK, ScanTypeOK
<1>3. now[s] \notin watch => \E q, r \in Scans : q # r
  BY <1>2 DEF SettledInv, OnBlock
<1>4. \/ statuses[now[s]] = "watched"
      \/ (\E q, r \in Scans : q # r) /\ statuses[now[s]] = "forgotten"
  BY <1>2, <1>3 DEF statuses, StatusOf, succeeding
<1>5. Abs!Tell(now[s])
  BY <1>1, <1>2, <1>4 DEF Abs!Tell, Deliver, statuses, succeeding
<1> QED
  BY <1>1, <1>2, <1>5 DEF Abs!Next, succeeding, excuses

\* An exec forgets what it takes off the list, and each has its reason.
LEMMA ForgetStep ==
    ASSUME Basics, SettledInv, Next, NEW s \in Scans, Exec(s)
    PROVE  Abs!Next
<1> DEFINE settled == watch \ watch'
<1>1. UNCHANGED succeeding /\ excuses' \in SUBSET Txns
  BY HistoryGrows, NextKeepsBasics
     DEF succeeding, excuses, ExpiredNow, Basics, TypeOK, HistTypeOK
<1>2. watch' \subseteq watch /\ UNCHANGED <<pub, delivered>>
  BY DEF Exec, pubVars
<1>3. \A t \in settled : t \in Txns /\ statuses[t] = "watched" /\ pub[t] = "watched"
  BY DEF statuses, StatusOf, Basics, TypeOK, StoreTypeOK, WatchedAreSubmitted
<1>4. \A t \in settled : t \in succeeding => delivered[t] > 0 \/ t \in excuses
  <2> SUFFICES ASSUME NEW t \in settled, t \in succeeding
               PROVE  delivered[t] > 0 \/ t \in excuses
    OBVIOUS
  <2>1. outcome[t] \notin {"failed", "neither"} /\ t \in Txns
    BY DEF succeeding
  <2>2. t \in Expired(s) => t \in excuses
    BY <2>1 DEF Expired, excuses, ExpiredNow, Exec
  <2>3. t \in Indices(s) => delivered[t] > 0 \/ t \in gaveUp
    BY <2>1 DEF SettledInv, Handled, Exec, OnBlock
  <2> QED
    BY <2>2, <2>3 DEF Exec, excuses
<1>5. statuses' = [t \in Txns |-> IF t \in settled THEN "forgotten" ELSE statuses[t]]
  BY <1>2, <1>3 DEF statuses, StatusOf
<1>6. Abs!Forget(settled)
  BY <1>2, <1>3, <1>4, <1>5 DEF Abs!Forget, statuses, succeeding, excuses
<1>7. settled \in SUBSET Txns
  BY <1>3
<1> QED
  BY <1>1, <1>6, <1>7 DEF Abs!Next, succeeding, excuses

\* The exit of the process touches neither the list nor what was told.
LEMMA ExitIsSilent ==
    ASSUME Basics, Next, ExitProcess
    PROVE  Abs!Next
<1>1. UNCHANGED <<watch, delivered>>
  BY DEF ExitProcess, storeVars
<1>2. ASSUME NEW t \in Txns
      PROVE  pub'[t] = "watched" <=> pub[t] = "watched"
  BY DEF ExitProcess
<1> QED
  BY <1>1, <1>2, SilentStep

\* Every step of the notifier is one of TxnWatch.
LEMMA StepImplements ==
    ASSUME Basics, SettledInv, Next
    PROVE  Abs!Next
<1>1. ASSUME NEW s \in Scans, ScanStart(s) \/ ScanStep(s)
      PROVE  Abs!Next
  <2>1. CASE Exec(s)
    BY <2>1, ForgetStep
  <2>2. CASE PostOk(s)
    BY <2>2, TellStep DEF PostOk, storeVars, pubVars
  <2>3. CASE PostFails(s)
    <3>1. pc[s] = "post" /\ UNCHANGED <<watch, pub>>
      BY <2>3 DEF PostFails, storeVars, pubVars
    <3>2. UNCHANGED delivered \/ Deliver(now[s])
      BY <2>3 DEF PostFails
    <3> QED
      BY <3>1, <3>2, TellStep, SilentStep
  <2>4. CASE ScanThrows(s)
    BY <2>4, ExitIsSilent DEF ScanThrows
  <2>5. CASE ~(Exec(s) \/ PostOk(s) \/ PostFails(s) \/ ScanThrows(s))
    <3>1. UNCHANGED <<watch, pub, delivered>>
      BY <1>1, <2>5 DEF ScanStart, ScanStep, CheckInitial, ReadLastSeen,
         ReadBirths, FetchHash, CheckParams, LoadPending, ExamineStep,
         SkipFailed, SkipNeither, StartPost, EndExamine, PostStep, PostGivesUp,
         CapacityStep, CapacityGet, CapacitySet, CapacityFails, Advance,
         storeVars, pubVars, histVars
    <3> QED
      BY <3>1, SilentStep
  <2> QED
    BY <2>1, <2>2, <2>3, <2>4, <2>5
<1>2. ASSUME NEW t \in Txns, PubStep(t)
      PROVE  Abs!Next
  <2>1. CASE PubWatch(t)
    BY <2>1, WatchStep
  <2>2. CASE PubRead(t) \/ PubSubmit(t) \/ PubFails(t)
    <3>1. UNCHANGED <<watch, delivered>>
      BY <2>2 DEF PubRead, PubSubmit, PubFails, storeVars, histVars
    <3>2. \A u \in Txns : pub'[u] = "watched" <=> pub[u] = "watched"
      BY <2>2 DEF PubRead, PubSubmit, PubFails, Basics, TypeOK, StoreTypeOK
    <3> QED
      BY <3>1, <3>2, SilentStep
  <2> QED
    BY <1>2, <2>1, <2>2 DEF PubStep
<1>3. CASE Crash
  BY <1>3, ExitIsSilent DEF Crash
<1>4. CASE Chains \/ ProcessStep
  <2>1. UNCHANGED <<watch, pub, delivered>>
    BY <1>4 DEF Chains, ProcessStep, Restart, BootKeys, BootSkip, pubVars,
         storeVars, histVars
  <2> QED
    BY <2>1, SilentStep
<1> QED
  BY <1>1, <1>2, <1>3, <1>4 DEF Next

\* The notifier implements TxnWatch.
THEOREM WatchImplemented == Spec => ImplementsWatch
<1>1. Init => Abs!Init
  BY DEF Init, NoScan, Abs!Init, StatusOf, ExpiredNow
<1>2. Basics /\ SettledInv /\ [Next]_vars => [Abs!Next]_(Abs!vars)
  <2>1. CASE UNCHANGED vars
    BY <2>1 DEF vars, chainVars, pubVars, storeVars, scanVars, histVars,
         Abs!vars, StatusOf, ExpiredNow
  <2> QED
    BY <2>1, StepImplements
<1> QED
  BY <1>1, <1>2, InitBasics, NextKeepsBasics, InitSettled, NextKeepsSettled,
     PTL DEF Spec, ImplementsWatch, Abs!Spec

-----------------------------------------------------------------------------
(* What is reported is final                                               *)

\* A scan handles extrinsics of its own copy of the block, each of them once.
FromBlock ==
    \A s \in Scans :
       /\ pc[s] \in {"examine", "post"} => todo[s] \subseteq Indices(s)
       /\ pc[s] = "post" => now[s] \in Indices(s) \ todo[s]

LEMMA ScanKeepsFromBlock ==
    ASSUME Basics, FromBlock, NEW s \in Scans, ScanStart(s) \/ ScanStep(s)
    PROVE  FromBlock'
<1> USE DEF Basics, TypeOK, ScanTypeOK, FromBlock, Indices
<1>1. CASE ScanThrows(s)
  BY <1>1 DEF ScanThrows, ExitProcess
<1>2. CASE LoadPending(s)
  BY <1>2 DEF LoadPending
<1>3. CASE StartPost(s)
  <2>1. PICK t \in todo[s] : /\ now' = [now EXCEPT ![s] = t]
                             /\ todo' = [todo EXCEPT ![s] = @ \ {t}]
    BY <1>3 DEF StartPost
  <2>2. /\ pc[s] = "examine" /\ pc' = [pc EXCEPT ![s] = "post"]
        /\ UNCHANGED <<blk, pend>>
    BY <1>3 DEF StartPost
  <2> QED
    BY <2>1, <2>2
<1>4. CASE SkipFailed(s) \/ SkipNeither(s)
  <2>1. PICK t \in todo[s] : todo' = [todo EXCEPT ![s] = @ \ {t}]
    BY <1>4 DEF SkipFailed, SkipNeither
  <2>2. pc[s] = "examine" /\ UNCHANGED <<pc, now, blk, pend>>
    BY <1>4 DEF SkipFailed, SkipNeither
  <2> QED
    BY <2>1, <2>2
<1>5. CASE PostOk(s) \/ PostGivesUp(s)
  BY <1>5 DEF PostOk, PostGivesUp, EndPost
<1>6. CASE \/ ScanStart(s) \/ CheckInitial(s) \/ ReadLastSeen(s)
           \/ ReadBirths(s) \/ FetchHash(s) \/ CheckParams(s) \/ Advance(s)
           \/ EndExamine(s) \/ PostFails(s) \/ CapacityStep(s) \/ Exec(s)
  BY <1>6 DEF ScanStart, CheckInitial, ReadLastSeen, ReadBirths, FetchHash,
     CheckParams, Advance, EndExamine, PostFails, CapacityStep, CapacityGet,
     CapacitySet, CapacityFails, Exec, Finish
<1> QED
  BY <1>1, <1>2, <1>3, <1>4, <1>5, <1>6 DEF ScanStep, ExamineStep, PostStep

LEMMA NextKeepsFromBlock == Basics /\ FromBlock /\ [Next]_vars => FromBlock'
<1> SUFFICES ASSUME Basics, FromBlock, [Next]_vars PROVE FromBlock'
  OBVIOUS
<1>1. ASSUME NEW s \in Scans, ScanStart(s) \/ ScanStep(s) PROVE FromBlock'
  BY <1>1, ScanKeepsFromBlock
<1>2. CASE Crash
  BY <1>2 DEF Crash, ExitProcess, FromBlock
<1>3. CASE \/ Chains \/ ProcessStep \/ UNCHANGED vars
           \/ \E t \in Txns : PubStep(t)
  BY <1>3 DEF Chains, ProcessStep, Restart, BootKeys, BootSkip, PubStep,
     PubRead, PubSubmit, PubWatch, PubFails, vars, scanVars, FromBlock, Indices
<1> QED
  BY <1>1, <1>2, <1>3 DEF Next

LEMMA InitFromBlock == Init => FromBlock
BY DEF Init, NoScan, FromBlock

\* What is being posted is in a finalized block of the best chain.
LEMMA PostedIsFinal ==
    ASSUME Basics, Tracking, SettledInv, FromBlock, OnlyFinalized, NoForkSeen,
           NEW s \in Scans, pc[s] = "post"
    PROVE  /\ now[s] \in Txns /\ incl[now[s]] \in 1..finalized
           /\ outcome[now[s]] = "success"
<1>1. now[s] \in Txns /\ outcome[now[s]] = "success" /\ now[s] \in blk[s]
  BY DEF Basics, TypeOK, ScanTypeOK, SettledInv, FromBlock, Indices
<1>2. incl[now[s]] = cur[s]
  BY <1>1 DEF Tracking, BlocksAreExact, BlockAt, OnBlock
<1>3. cur[s] >= 1 /\ cur[s] <= finalized
  BY DEF Basics, CursorsOnChain, Limit, OnBlock
<1> QED
  BY <1>1, <1>2, <1>3 DEF Basics, TypeOK, ChainTypeOK, ScanTypeOK, Blocks

\* The chain keeps what it has finalized.
LEMMA FinalStays ==
    ASSUME Basics, Chains, NEW t \in Txns, incl[t] \in 1..finalized
    PROVE  incl'[t] \in 1..finalized'
<1>1. /\ finalized \in Nat /\ head \in Nat /\ finalized <= head
      /\ incl \in [Txns -> Nat]
  BY DEF Basics, TypeOK, ChainTypeOK, CursorsOnChain, Blocks
<1>2. CASE ProduceBlock
  BY <1>1, <1>2 DEF ProduceBlock
<1>3. CASE Finalize
  BY <1>1, <1>3 DEF Finalize
<1>4. CASE Reorg
  BY <1>1, <1>4 DEF Reorg
<1> QED
  BY <1>2, <1>3, <1>4 DEF Chains, ChainNext

LEMMA NextKeepsFinal ==
    Basics /\ Tracking /\ SettledInv /\ FromBlock /\ DeliveredIsFinal
        /\ [Next]_vars => DeliveredIsFinal'
<1> SUFFICES ASSUME Basics, Tracking, SettledInv, FromBlock, DeliveredIsFinal,
                    [Next]_vars, OnlyFinalized, NoForkSeen',
                    NEW t \in Txns, delivered'[t] > 0
             PROVE  incl'[t] \in 1..finalized' /\ outcome'[t] = "success"
  BY DEF DeliveredIsFinal, OnlyFinalized
<1>1. CASE UNCHANGED vars
  BY <1>1 DEF vars, chainVars, histVars, DeliveredIsFinal, NoForkSeen,
              OnlyFinalized
<1>2. CASE Next
  <2>1. NoForkSeen /\ UNCHANGED outcome
    BY <1>2, ForkSeenStays, HistoryGrows
  <2>2. delivered[t] > 0 => incl[t] \in 1..finalized /\ outcome[t] = "success"
    BY <2>1 DEF DeliveredIsFinal
  <2>3. ASSUME NEW s \in Scans, ScanStart(s) \/ ScanStep(s)
        PROVE  UNCHANGED chainVars /\ (delivered[t] > 0 \/ (pc[s] = "post" /\ t = now[s]))
    <3>1. UNCHANGED chainVars
      BY <2>3, ScanFrame
    <3>2. CASE UNCHANGED delivered
      BY <3>1, <3>2
    <3>3. CASE PostOk(s) \/ PostFails(s)
      BY <3>1, <3>3 DEF PostOk, PostFails, Deliver, Basics, TypeOK,
         HistTypeOK, ScanTypeOK
    <3>4. UNCHANGED delivered \/ PostOk(s) \/ PostFails(s)
      BY <2>3 DEF ScanStart, ScanStep, CheckInitial, ReadLastSeen, ReadBirths,
         FetchHash, CheckParams, LoadPending, ExamineStep, ScanThrows,
         SkipFailed, SkipNeither, StartPost, EndExamine, PostStep, PostGivesUp,
         CapacityStep, CapacityGet, CapacitySet, CapacityFails, Exec, Advance,
         ExitProcess, histVars
    <3> QED
      BY <3>2, <3>3, <3>4
  <2>4. CASE \E s \in Scans : ScanStart(s) \/ ScanStep(s)
    BY <2>1, <2>2, <2>3, <2>4, PostedIsFinal DEF chainVars
  <2>5. CASE Chains
    BY <2>1, <2>2, <2>5, FinalStays DEF Chains, histVars
  <2>6. CASE Crash \/ ProcessStep \/ \E u \in Txns : PubStep(u)
    <3>1. UNCHANGED <<incl, finalized, delivered>>
      BY <2>6 DEF Crash, ExitProcess, ProcessStep, Restart, BootKeys, BootSkip,
         PubStep, PubRead, PubSubmit, Submit, PubWatch, PubFails, chainVars,
         histVars
    <3> QED
      BY <2>1, <2>2, <3>1
  <2> QED
    BY <1>2, <2>4, <2>5, <2>6 DEF Next
<1> QED
  BY <1>1, <1>2

\* When only finalized blocks are scanned, whatever was reported is final and
\* succeeded, however forks, scans and retries interleave.
THEOREM ReportedIsFinal == Spec => []DeliveredIsFinal
<1>1. Init => DeliveredIsFinal
  BY DEF Init, DeliveredIsFinal
<1>2. Init => Tracking
  BY DEF Init, Tracking, BlocksAreExact, NoScanPast, NoSilentSkip, NoScan,
         OnBlock
<1> QED
  BY <1>1, <1>2, InitBasics, NextKeepsBasics, NextKeepsTracking, InitSettled,
     NextKeepsSettled, InitFromBlock, NextKeepsFromBlock, NextKeepsFinal, PTL
     DEF Spec

-----------------------------------------------------------------------------
(* Webhooks are not repeated without a cause                               *)

\* As long as no two scans overlapped, at most one has the flag.
OneAtATime ==
    "overlap" \notin mishaps =>
        \A r, s \in Scans : Scanning(r) /\ Scanning(s) => r = s

LEMMA NextKeepsOneAtATime ==
    Basics /\ OneAtATime /\ [Next]_vars => OneAtATime'
<1> SUFFICES ASSUME Basics, OneAtATime, [Next]_vars, "overlap" \notin mishaps'
             PROVE  \A r, s \in Scans : (Scanning(r) /\ Scanning(s))' => r = s
  BY DEF OneAtATime
<1> USE DEF OneAtATime, Scanning, Basics, TypeOK, ScanTypeOK
<1>1. ASSUME NEW q \in Scans, ScanStart(q) \/ ScanStep(q)
      PROVE  \A r, s \in Scans : (Scanning(r) /\ Scanning(s))' => r = s
  <2>1. CASE ScanThrows(q)
    BY <2>1 DEF ScanThrows, ExitProcess
  <2>2. CASE CheckInitial(q)
    BY <2>2 DEF CheckInitial, Finish, histVars
  <2>3. CASE ~ScanThrows(q) /\ ~CheckInitial(q)
    <3>1. "overlap" \notin mishaps
      BY <1>1, <2>3 DEF ScanStart, ScanStep, ReadLastSeen, ReadBirths,
         FetchHash, CheckParams, LoadPending, ExamineStep, SkipFailed,
         SkipNeither, StartPost, EndExamine, PostStep, PostOk, PostFails,
         PostGivesUp, CapacityStep, CapacityGet, CapacitySet, CapacityFails,
         Exec, Advance, histVars
    <3>2. /\ \A r \in Scans \ {q} : pc'[r] = pc[r]
          /\ pc'[q] \notin {"idle", "initial"} => pc[q] \notin {"idle", "initial"}
      BY <1>1, <2>3 DEF ScanStart, ScanStep, ReadLastSeen, ReadBirths,
         FetchHash, CheckParams, LoadPending, ExamineStep, SkipFailed,
         SkipNeither, StartPost, EndExamine, PostStep, PostOk, PostFails,
         PostGivesUp, EndPost, CapacityStep, CapacityGet, CapacitySet,
         CapacityFails, Exec, Advance, Finish
    <3> QED
      BY <3>1, <3>2
  <2> QED
    BY <2>1, <2>2, <2>3
<1>2. CASE Crash
  BY <1>2 DEF Crash, ExitProcess
<1>3. CASE \/ Chains \/ ProcessStep \/ UNCHANGED vars
           \/ \E t \in Txns : PubStep(t)
  BY <1>3 DEF Chains, ProcessStep, Restart, BootKeys, BootSkip, PubStep,
     PubRead, PubSubmit, PubWatch, PubFails, vars, scanVars, histVars
<1> QED
  BY <1>1, <1>2, <1>3 DEF Next

LEMMA InitOneAtATime == Init => OneAtATime
BY DEF Init, NoScan, OneAtATime, Scanning

NoCause == mishaps \cap {"exit", "overlap", "reply"} = {}

\* Without a cause, an extrinsic that was told of is told of once: no scan is
\* about to post it, and it is on the list only until the scan that posted it
\* removes it.
Told(t) ==
    /\ delivered[t] = 1 /\ pub[t] = "watched"
    /\ \A s \in Scans :
          /\ pc[s] \in {"examine", "post"} => t \notin todo[s]
          /\ pc[s] = "post" => t # now[s]
    /\ t \in watch => \E s \in Scans : pc[s] \in OnBlock /\ t \in Indices(s)

ToldOnce == NoCause => \A t \in Txns : delivered[t] > 0 => Told(t)

\* A post that gets through is the first for its extrinsic, and the last.
LEMMA PostTellsOnce ==
    ASSUME Basics, SettledInv, FromBlock, OneAtATime, ToldOnce, NoCause,
           NEW s \in Scans, PostOk(s), NEW t \in Txns, delivered'[t] > 0
    PROVE  Told(t)'
<1> USE DEF Basics, TypeOK, ScanTypeOK, HistTypeOK
<1>1. /\ pc[s] = "post" /\ pc' = [pc EXCEPT ![s] = "examine"]
      /\ now' = [now EXCEPT ![s] = NoTxn]
      /\ UNCHANGED <<watch, pub, blk, pend, todo>>
  BY DEF PostOk, EndPost, storeVars, pubVars
<1>2. now[s] \in Txns /\ now[s] \in Indices(s) \ todo[s]
  BY <1>1 DEF FromBlock
<1>3. pub[now[s]] = "watched"
  BY <1>1 DEF SettledInv
<1>4. delivered[now[s]] = 0
  BY <1>1, <1>2 DEF ToldOnce, Told
<1>5. delivered' = [delivered EXCEPT ![now[s]] = 1]
  BY <1>2, <1>4 DEF PostOk, Deliver
<1>6. CASE t = now[s]
  <2>1. \A r \in Scans : pc[r] \in {"examine", "post"} => r = s
    BY <1>1 DEF OneAtATime, Scanning, NoCause
  <2> QED
    BY <1>1, <1>2, <1>3, <1>5, <1>6, <2>1 DEF Told, Indices, OnBlock
<1>7. CASE t # now[s]
  <2>1. Told(t) /\ delivered'[t] = delivered[t]
    BY <1>5, <1>7 DEF ToldOnce
  <2> QED
    BY <1>1, <2>1 DEF Told, Indices, OnBlock
<1> QED
  BY <1>6, <1>7

\* The other steps of a scan on a block.
LEMMA ScanKeepsTold ==
    ASSUME Basics, SettledInv, FromBlock, OneAtATime, Next, NoCause,
           NEW s \in Scans, ScanStart(s) \/ ScanStep(s),
           ~PostOk(s), ~PostFails(s), ~ScanThrows(s),
           NEW t \in Txns, Told(t), UNCHANGED delivered
    PROVE  Told(t)'
<1> USE DEF Basics, TypeOK, ScanTypeOK
<1>1. delivered'[t] = 1 /\ pub'[t] = "watched"
  BY HistoryGrows DEF Told
<1>2. CASE LoadPending(s)
  <2>1. /\ pc[s] = "load" /\ UNCHANGED <<now, watch, blk>>
        /\ pend' = [pend EXCEPT ![s] = watch]
        /\ todo' = [todo EXCEPT ![s] = blk[s] \cap watch]
        /\ pc' = [pc EXCEPT ![s] = IF blk[s] \cap watch = {} THEN "exec"
                                   ELSE "examine"]
    BY <1>2 DEF LoadPending, storeVars
  <2>2. t \notin watch
    BY <2>1 DEF Told, OneAtATime, Scanning, NoCause, OnBlock
  <2> QED
    BY <1>1, <2>1, <2>2 DEF Told
<1>3. CASE Exec(s)
  <2>1. /\ pc[s] = "exec" /\ pc' = [pc EXCEPT ![s] = "advance"]
        /\ watch' = watch \ (Indices(s) \cup Expired(s))
        /\ UNCHANGED <<now, todo, blk, pend>>
    BY <1>3 DEF Exec
  <2>2. t \notin watch'
    BY <2>1 DEF Told, OneAtATime, Scanning, NoCause, OnBlock
  <2> QED
    BY <1>1, <2>1, <2>2 DEF Told
<1>4. CASE StartPost(s)
  <2>1. PICK u \in todo[s] : /\ now' = [now EXCEPT ![s] = u]
                             /\ todo' = [todo EXCEPT ![s] = @ \ {u}]
    BY <1>4 DEF StartPost
  <2>2. /\ pc[s] = "examine" /\ pc' = [pc EXCEPT ![s] = "post"]
        /\ UNCHANGED <<watch, blk, pend>>
    BY <1>4 DEF StartPost, storeVars
  <2> QED
    BY <1>1, <2>1, <2>2 DEF Told, Indices, OnBlock
<1>5. CASE SkipFailed(s) \/ SkipNeither(s)
  <2>1. PICK u \in todo[s] : todo' = [todo EXCEPT ![s] = @ \ {u}]
    BY <1>5 DEF SkipFailed, SkipNeither
  <2>2. UNCHANGED <<pc, now, watch, blk, pend>>
    BY <1>5 DEF SkipFailed, SkipNeither, storeVars
  <2> QED
    BY <1>1, <2>1, <2>2 DEF Told, Indices
<1>6. CASE PostGivesUp(s) \/ EndExamine(s) \/ CapacityStep(s)
  <2>1. /\ pc[s] \in OnBlock /\ UNCHANGED <<watch, blk, pend, todo>>
        /\ \E p \in OnBlock \ {"post"} : pc' = [pc EXCEPT ![s] = p]
        /\ pc'[s] = "examine" => pc[s] = "post"
        /\ \A r \in Scans \ {s} : now'[r] = now[r]
    BY <1>6 DEF PostGivesUp, EndPost, EndExamine, CapacityStep, CapacityGet,
       CapacitySet, CapacityFails, OnBlock, storeVars
  <2> QED
    BY <1>1, <2>1 DEF Told, Indices, OnBlock
<1>7. CASE \/ ScanStart(s) \/ CheckInitial(s) \/ ReadLastSeen(s)
           \/ ReadBirths(s) \/ FetchHash(s) \/ CheckParams(s) \/ Advance(s)
  <2>1. /\ pc[s] \notin OnBlock /\ UNCHANGED <<watch, todo, now>>
        /\ \E p \in PCs \ OnBlock : pc' = [pc EXCEPT ![s] = p]
        /\ \A r \in Scans \ {s} : blk'[r] = blk[r] /\ pend'[r] = pend[r]
    BY <1>7 DEF ScanStart, CheckInitial, ReadLastSeen, ReadBirths, FetchHash,
       CheckParams, Advance, Finish, OnBlock, PCs, storeVars
  <2> QED
    BY <1>1, <2>1 DEF Told, Indices, OnBlock
<1> QED
  BY <1>2, <1>3, <1>4, <1>5, <1>6, <1>7
     DEF ScanStep, ExamineStep, PostStep

LEMMA NextKeepsToldOnce ==
    Basics /\ SettledInv /\ FromBlock /\ OneAtATime /\ ToldOnce
        /\ [Next]_vars => ToldOnce'
<1> SUFFICES ASSUME Basics, SettledInv, FromBlock, OneAtATime, ToldOnce,
                    [Next]_vars, NoCause', NEW t \in Txns, delivered'[t] > 0
             PROVE  Told(t)'
  BY DEF ToldOnce
<1>1. ASSUME NEW s \in Scans, ScanStart(s) \/ ScanStep(s)
      PROVE  Told(t)'
  <2>1. ~ScanThrows(s)
    BY DEF ScanThrows, ExitProcess, NoCause
  <2>2. NoCause
    BY <1>1, <2>1 DEF ScanStart, ScanStep, CheckInitial, ReadLastSeen,
       ReadBirths, FetchHash, CheckParams, LoadPending, ExamineStep,
       SkipFailed, SkipNeither, StartPost, EndExamine, PostStep, PostOk,
       PostFails, PostGivesUp, CapacityStep, CapacityGet, CapacitySet,
       CapacityFails, Exec, Advance, histVars, NoCause
  <2>3. CASE PostOk(s)
    BY <2>2, <2>3, PostTellsOnce
  <2>4. CASE PostFails(s)
    <3>1. UNCHANGED <<delivered, watch, pub, pc, blk, pend, todo, now>>
      BY <2>4 DEF PostFails, NoCause, storeVars, pubVars
    <3>2. Told(t)
      BY <2>2, <3>1 DEF ToldOnce
    <3> QED
      BY <3>1, <3>2 DEF Told, Indices
  <2>5. CASE ~PostOk(s) /\ ~PostFails(s)
    <3>1. UNCHANGED delivered
      BY <1>1, <2>1, <2>5 DEF ScanStart, ScanStep, CheckInitial, ReadLastSeen,
         ReadBirths, FetchHash, CheckParams, LoadPending, ExamineStep,
         SkipFailed, SkipNeither, StartPost, EndExamine, PostStep, PostGivesUp,
         CapacityStep, CapacityGet, CapacitySet, CapacityFails, Exec, Advance,
         histVars
    <3>2. Told(t)
      BY <2>2, <3>1 DEF ToldOnce
    <3> QED
      BY <1>1, <2>1, <2>2, <2>5, <3>1, <3>2, ScanKeepsTold DEF Next
  <2> QED
    BY <2>3, <2>4, <2>5
<1>2. ~Crash
  BY DEF Crash, ExitProcess, NoCause
<1>3. ASSUME NEW u \in Txns, PubStep(u)
      PROVE  Told(t)'
  <2>1. /\ UNCHANGED <<delivered, mishaps, pc, blk, pend, todo, now>>
        /\ pub'[t] = pub[t] \/ pub[t] # "watched"
        /\ t \in watch' => t \in watch \/ pub[t] # "watched"
    BY <1>3 DEF PubStep, PubRead, PubSubmit, PubWatch, PubFails, storeVars,
       scanVars, histVars, Basics, TypeOK, StoreTypeOK
  <2>2. Told(t)
    BY <2>1 DEF ToldOnce, NoCause
  <2> QED
    BY <2>1, <2>2 DEF Told, Indices
<1>4. CASE Chains \/ ProcessStep \/ UNCHANGED vars
  <2>1. UNCHANGED <<delivered, watch, pub, pc, blk, pend, todo, now, mishaps>>
    BY <1>4 DEF Chains, ProcessStep, Restart, BootKeys, BootSkip, pubVars,
       storeVars, scanVars, histVars, vars
  <2>2. Told(t)
    BY <2>1 DEF ToldOnce, NoCause
  <2> QED
    BY <2>1, <2>2 DEF Told, Indices
<1> QED
  BY <1>1, <1>2, <1>3, <1>4 DEF Next

\* No extrinsic is told of twice without an exit, an overlap of scans or a
\* lost answer.
THEOREM DuplicatesHaveCause == Spec => []DuplicateNeedsCause
<1>1. Init => ToldOnce
  BY DEF Init, ToldOnce
<1>2. Basics /\ ToldOnce => DuplicateNeedsCause
  BY DEF Basics, TypeOK, HistTypeOK, ToldOnce, Told, NoCause,
         DuplicateNeedsCause
<1> QED
  BY <1>1, <1>2, InitBasics, NextKeepsBasics, InitSettled, NextKeepsSettled,
     InitFromBlock, NextKeepsFromBlock, InitOneAtATime, NextKeepsOneAtATime,
     NextKeepsToldOnce, PTL DEF Spec

-----------------------------------------------------------------------------
(* The cursor moves on                                                     *)

\* There is no scan under way unless the process is up, and a scan that has the
\* cursor to itself is ahead of it.
IdleUnlessUp == phase # "up" => \A s \in Scans : pc[s] = "idle"

InFront(s) ==
    /\ pc[s] = "births" => lastSeen <= cur[s]
    /\ pc[s] \in OnBlock \cup {"hash", "check", "load", "advance"}
          => lastSeen < cur[s]

Onward ==
    /\ IdleUnlessUp
    /\ "overlap" \notin mishaps => \A s \in Scans : InFront(s)

LEMMA InitOnward == Init => Onward
BY DEF Init, NoScan, Onward, IdleUnlessUp, InFront, OnBlock

\* The scan that takes a step stays ahead, and another one that has the flag
\* has seen an overlap.
LEMMA ScanKeepsAhead ==
    ASSUME Basics, OneAtATime, Onward, "overlap" \notin mishaps,
           NEW q \in Scans, ScanStart(q) \/ ScanStep(q), ~ScanThrows(q)
    PROVE  \A s \in Scans : InFront(s)'
<1> USE DEF InFront, OnBlock, Basics, TypeOK, ScanTypeOK, StoreTypeOK, HistTypeOK,
            Blocks
<1>1. \A s \in Scans : InFront(s)
  BY DEF Onward
<1>2. CASE ReadLastSeen(q)
  BY <1>1, <1>2 DEF ReadLastSeen, storeVars
<1>3. CASE ReadBirths(q)
  <2>1. PICK k \in Nat : k > cur[q] /\ cur' = [cur EXCEPT ![q] = k]
    BY <1>3 DEF ReadBirths
  <2> QED
    BY <1>1, <1>3, <2>1 DEF ReadBirths, storeVars
<1>4. CASE Advance(q)
  <2>1. \A s \in Scans \ {q} : pc[s] \in {"idle", "initial"}
    BY <1>4 DEF Advance, OneAtATime, Scanning
  <2> QED
    BY <1>4, <2>1 DEF Advance
<1>5. CASE ~ReadLastSeen(q) /\ ~ReadBirths(q) /\ ~Advance(q)
  <2>1. /\ UNCHANGED lastSeen
        /\ \A s \in Scans \ {q} : pc'[s] = pc[s] /\ cur'[s] = cur[s]
    BY <1>5 DEF ScanStart, ScanStep, CheckInitial, FetchHash, CheckParams,
       LoadPending, ExamineStep, SkipFailed, SkipNeither, StartPost, EndExamine,
       PostStep, PostOk, PostFails, PostGivesUp, EndPost, CapacityStep,
       CapacityGet, CapacitySet, CapacityFails, Exec, Finish, storeVars
  <2>2. \/ pc'[q] \in {"idle", "initial", "last"}
        \/ /\ cur'[q] = cur[q] /\ pc'[q] # "births"
           /\ pc[q] \in OnBlock \cup {"hash", "check", "load"}
    BY <1>5 DEF ScanStart, ScanStep, CheckInitial, FetchHash, CheckParams,
       LoadPending, ExamineStep, SkipFailed, SkipNeither, StartPost, EndExamine,
       PostStep, PostOk, PostFails, PostGivesUp, EndPost, CapacityStep,
       CapacityGet, CapacitySet, CapacityFails, Exec, Finish
  <2> QED
    BY <1>1, <2>1, <2>2
<1> QED
  BY <1>2, <1>3, <1>4, <1>5

LEMMA NextKeepsOnward ==
    Basics /\ OneAtATime /\ Onward /\ [Next]_vars => Onward'
<1> SUFFICES ASSUME Basics, OneAtATime, Onward, [Next]_vars PROVE Onward'
  OBVIOUS
<1>1. ASSUME ExitProcess PROVE Onward'
  BY <1>1 DEF ExitProcess, Onward, IdleUnlessUp, InFront, OnBlock
<1>2. ASSUME NEW q \in Scans, ScanStart(q) \/ ScanStep(q), ~ScanThrows(q)
      PROVE  Onward'
  <2>1. mishaps \subseteq mishaps'
    BY <1>2 DEF ScanStart, ScanStep, CheckInitial, ReadLastSeen, ReadBirths,
       FetchHash, CheckParams, LoadPending, ExamineStep, SkipFailed,
       SkipNeither, StartPost, EndExamine, PostStep, PostOk, PostFails,
       PostGivesUp, CapacityStep, CapacityGet, CapacitySet, CapacityFails, Exec,
       Advance, histVars
  <2>2. phase = "up" /\ phase' = "up"
    BY <1>2 DEF Onward, IdleUnlessUp, ScanStart, ScanStep, CheckInitial,
       ReadLastSeen, ReadBirths, FetchHash, CheckParams, LoadPending,
       ExamineStep, SkipFailed, SkipNeither, StartPost, EndExamine, PostStep,
       PostOk, PostFails, PostGivesUp, CapacityStep, CapacityGet, CapacitySet,
       CapacityFails, Exec, Advance
  <2> QED
    BY <1>2, <2>1, <2>2, ScanKeepsAhead DEF Onward, IdleUnlessUp
<1>3. CASE \/ Chains \/ UNCHANGED vars \/ \E t \in Txns : PubStep(t)
  BY <1>3 DEF Chains, PubStep, PubRead, PubSubmit, PubWatch, PubFails, vars,
     storeVars, scanVars, histVars, Onward, IdleUnlessUp, InFront
<1>4. CASE ProcessStep
  <2>1. \A s \in Scans : pc[s] = "idle"
    BY <1>4 DEF ProcessStep, Restart, BootKeys, BootSkip, Onward, IdleUnlessUp
  <2>2. UNCHANGED pc
    BY <1>4 DEF ProcessStep, Restart, BootKeys, BootSkip, scanVars
  <2> QED
    BY <2>1, <2>2 DEF Onward, IdleUnlessUp, InFront, OnBlock
<1> QED
  BY <1>1, <1>2, <1>3, <1>4
     DEF Next, Crash, ScanStep, ExamineStep, ScanThrows

\* The cursor goes back only after an overlap of scans, or at a bootstrap that
\* finds the list empty where unfinalized blocks are scanned.
THEOREM CursorGoesForward == Spec => CursorMovesOn
<1>1. ASSUME Basics, Onward, [Next]_vars, lastSeen' < lastSeen
      PROVE  "overlap" \in mishaps \/ (phase = "skip" /\ ~OnlyFinalized)
  <2>1. UNCHANGED lastSeen \/ BootSkip \/ \E s \in Scans : Advance(s)
    BY <1>1 DEF Next, Chains, PubStep, PubRead, PubSubmit, PubWatch, PubFails,
       Crash, ExitProcess, ProcessStep, Restart, BootKeys, ScanStart, ScanStep,
       CheckInitial, ReadLastSeen, ReadBirths, FetchHash, CheckParams,
       LoadPending, ExamineStep, ScanThrows, SkipFailed, SkipNeither, StartPost,
       EndExamine, PostStep, PostOk, PostFails, PostGivesUp, CapacityStep,
       CapacityGet, CapacitySet, CapacityFails, Exec, storeVars, vars
  <2>2. lastSeen \in Nat
    BY <1>1, MaxBlockAssumption DEF Basics, TypeOK, StoreTypeOK, Blocks
  <2>3. CASE BootSkip
    BY <1>1, <2>2, <2>3 DEF BootSkip, Basics, CursorsOnChain, Limit, TypeOK,
                            ChainTypeOK, Blocks
  <2>4. ASSUME NEW s \in Scans, Advance(s), "overlap" \notin mishaps
        PROVE  FALSE
    <3>1. lastSeen < cur[s] /\ lastSeen' = cur[s] /\ cur[s] \in Nat
      BY <2>4, <1>1 DEF Advance, Onward, InFront, Basics, TypeOK, ScanTypeOK
    <3> QED
      BY <1>1, <2>2, <3>1
  <2> QED
    BY <1>1, <2>1, <2>2, <2>3, <2>4
<1>2. Basics /\ Onward /\ [Next]_vars
         => [lastSeen' < lastSeen =>
                "overlap" \in mishaps \/ (phase = "skip" /\ ~OnlyFinalized)]_vars
  BY <1>1
<1> QED
  BY <1>2, InitBasics, NextKeepsBasics, InitOneAtATime, NextKeepsOneAtATime,
     InitOnward, NextKeepsOnward, PTL DEF Spec, CursorMovesOn

-----------------------------------------------------------------------------
(* The epoch's counter is exact                                            *)

Quiet == reorgs = 0 /\ mishaps \cap {"exit", "overlap", "capacity"} = {}

\* What was found left the list for good; the one scan on a block finds its
\* extrinsics still there, so none of them is counted yet; nobody writes the
\* counter between its read and its write.
FoundAreGone ==
    Quiet => \A t \in found : t \notin watch /\ pub[t] = "watched" /\ incl[t] # 0

ListIsLive == Quiet => \A s \in Scans : pc[s] \in OnBlock => pend[s] \subseteq watch

ReadIsFresh ==
    Quiet => \A s \in Scans : pc[s] = "capSet" =>
                saved[s] = used[cur[s] \div EpochLength]

Counting ==
    OneAtATime /\ FoundAreGone /\ ListIsLive /\ ReadIsFresh /\ CapacityExact

LEMMA QuietWas ==
    ASSUME Basics, Next, Quiet'
    PROVE  Quiet
<1>1. \A x \in AllMishaps : x \in mishaps => x \in mishaps'
  <2>1. ASSUME NEW s \in Scans, ScanStart(s) \/ ScanStep(s)
        PROVE  mishaps \subseteq mishaps'
    BY <2>1 DEF ScanStart, ScanStep, CheckInitial, ReadLastSeen, ReadBirths,
         FetchHash, CheckParams, LoadPending, ExamineStep, ScanThrows,
         SkipFailed, SkipNeither, StartPost, EndExamine, PostStep, PostOk,
         PostFails, PostGivesUp, CapacityStep, CapacityGet, CapacitySet,
         CapacityFails, Exec, Advance, ExitProcess, histVars
  <2>2. CASE Crash
    BY <2>2 DEF Crash, ExitProcess
  <2>3. CASE Chains \/ ProcessStep \/ \E t \in Txns : PubStep(t)
    BY <2>3 DEF Chains, ProcessStep, Restart, BootKeys, BootSkip, PubStep,
       PubRead, PubSubmit, PubWatch, PubFails, histVars
  <2> QED
    BY <2>1, <2>2, <2>3 DEF Next
<1>2. reorgs = 0
  <2>1. CASE Chains
    BY <2>1 DEF Chains, ChainNext, ProduceBlock, Finalize, Reorg, Quiet,
       Basics, TypeOK, ChainTypeOK
  <2>2. ASSUME NEW s \in Scans, ScanStart(s) \/ ScanStep(s)
        PROVE  UNCHANGED reorgs
    BY <2>2, ScanFrame DEF chainVars
  <2>3. CASE Crash \/ ProcessStep \/ \E t \in Txns : PubStep(t)
    BY <2>3 DEF Crash, ExitProcess, ProcessStep, Restart, BootKeys, BootSkip,
       PubStep, PubRead, PubSubmit, Submit, PubWatch, PubFails, chainVars,
       Quiet
  <2> QED
    BY <2>1, <2>2, <2>3 DEF Next, Quiet
<1> QED
  BY <1>1, <1>2 DEF Quiet, AllMishaps

\* The extrinsics a scan has on its list and in its block are in the block.
LEMMA IndicesAreHere ==
    ASSUME Basics, Tracking, Quiet, NEW s \in Scans, pc[s] \in OnBlock
    PROVE  \A t \in Indices(s) : t \in Txns /\ incl[t] = cur[s] /\ incl[t] # 0
BY DEF Basics, Tracking, Quiet, BlocksAreExact, NoForkSeen, BlockAt, Indices,
   CursorsOnChain, TypeOK, ScanTypeOK, OnBlock

\* Membership in what an epoch counts, before and after a step.
LEMMA CountedMember ==
    ASSUME NEW e \in Epochs, NEW t
    PROVE  /\ t \in CountedIn(e) <=>
                 /\ t \in found \/ \E s \in Scans : pc[s] = "exec" /\ t \in Indices(s)
                 /\ incl[t] \div EpochLength = e
           /\ t \in CountedIn(e)' <=>
                 /\ t \in found' \/ \E s \in Scans : pc'[s] = "exec" /\ t \in Indices(s)'
                 /\ incl'[t] \div EpochLength = e
BY DEF CountedIn

\* A step that finds, counts and moves nothing of what was counted.
LEMMA CountStays ==
    ASSUME Quiet, CapacityExact, UNCHANGED used,
           \A t : (t \in found' \/ \E s \in Scans : pc'[s] = "exec" /\ t \in Indices(s)')
              <=> (t \in found \/ \E s \in Scans : pc[s] = "exec" /\ t \in Indices(s)),
           \A t : (t \in found \/ \E s \in Scans : pc[s] = "exec" /\ t \in Indices(s))
              => incl'[t] = incl[t]
    PROVE  CapacityExact'
<1>1. ASSUME NEW e \in Epochs PROVE CountedIn(e)' = CountedIn(e)
  BY CountedMember
<1> QED
  BY <1>1 DEF CapacityExact, Quiet

\* The write adds what the block holds, none of it counted before.
LEMMA WriteCounts ==
    ASSUME Basics, Tracking, Counting, Quiet, NEW s \in Scans, CapacitySet(s)
    PROVE  CapacityExact'
<1> USE DEF Basics, TypeOK, ScanTypeOK, StoreTypeOK, HistTypeOK
<1>1. /\ pc[s] = "capSet" /\ pc' = [pc EXCEPT ![s] = "exec"]
      /\ used' = [used EXCEPT ![cur[s] \div EpochLength] =
                     saved[s] + Cardinality(Indices(s))]
      /\ UNCHANGED <<incl, found, blk, pend>>
  BY DEF CapacitySet, chainVars, histVars
<1>2. \A r \in Scans : pc[r] # "exec"
  BY <1>1 DEF Counting, OneAtATime, Scanning, Quiet
<1>3. \A t \in Indices(s) : incl[t] = cur[s] /\ t \notin found
  BY <1>1, IndicesAreHere DEF Counting, FoundAreGone, ListIsLive, OnBlock, Indices
<1>4. saved[s] = used[cur[s] \div EpochLength]
  BY <1>1 DEF Counting, ReadIsFresh
<1>5. ASSUME NEW e \in Epochs
      PROVE  used'[e] = Cardinality(CountedIn(e)')
  <2>1. used[e] = Cardinality(CountedIn(e))
    BY DEF Counting, CapacityExact, Quiet
  <2>2. CASE e = cur[s] \div EpochLength
    <3>1. CountedIn(e)' = CountedIn(e) \cup Indices(s)
      BY <1>1, <1>2, <1>3, <2>2, CountedMember DEF Indices
    <3>2. CountedIn(e) \cap Indices(s) = {}
      BY <1>2, <1>3, CountedMember
    <3>3. IsFiniteSet(CountedIn(e)) /\ IsFiniteSet(Indices(s))
      <4>1. CountedIn(e) \subseteq Txns /\ Indices(s) \subseteq Txns
        BY <1>2, CountedMember DEF Indices
      <4> QED
        BY <4>1, TxnsAssumption, FS_Subset
    <3>4. Cardinality(CountedIn(e)') = Cardinality(CountedIn(e)) + Cardinality(Indices(s))
      <4>1. Cardinality(CountedIn(e) \cap Indices(s)) = 0
        BY <3>2, FS_EmptySet
      <4>2. Cardinality(CountedIn(e)) \in Nat /\ Cardinality(Indices(s)) \in Nat
        BY <3>3, FS_CardinalityType
      <4>3. Cardinality(CountedIn(e) \cup Indices(s)) =
               Cardinality(CountedIn(e)) + Cardinality(Indices(s))
                  - Cardinality(CountedIn(e) \cap Indices(s))
        BY <3>3, FS_Union
      <4> QED
        BY <3>1, <4>1, <4>2, <4>3
    <3> QED
      BY <1>1, <1>4, <2>1, <2>2, <3>4
  <2>3. CASE e # cur[s] \div EpochLength
    <3>1. \A t \in Indices(s) : incl[t] \div EpochLength # e
      BY <1>3, <2>3
    <3>2. ASSUME NEW t
          PROVE  t \in CountedIn(e)' <=> t \in CountedIn(e)
      BY <1>1, <1>2, <3>1, CountedMember DEF Indices
    <3>3. CountedIn(e)' = CountedIn(e)
      BY <3>2 DEF CountedIn
    <3> QED
      BY <1>1, <2>1, <2>3, <3>3
  <2> QED
    BY <2>2, <2>3
<1> QED
  BY <1>5 DEF CapacityExact

\* The other steps of a scan leave the count as it is.
LEMMA ScanKeepsCount ==
    ASSUME Basics, Tracking, Counting, Quiet, Quiet', NEW s \in Scans,
           ScanStart(s) \/ ScanStep(s)
    PROVE  CapacityExact'
<1> USE DEF Basics, TypeOK, ScanTypeOK
<1>0. UNCHANGED incl /\ CapacityExact
  BY ScanFrame DEF chainVars, Counting
<1>1. CASE CapacitySet(s)
  BY <1>1, WriteCounts
<1>2. CASE Exec(s)
  <2>1. /\ pc[s] = "exec" /\ pc' = [pc EXCEPT ![s] = "advance"]
        /\ found' = found \cup Indices(s)
        /\ UNCHANGED <<used, blk, pend>>
    BY <1>2 DEF Exec
  <2>2. \A r \in Scans : pc[r] = "exec" => r = s
    BY <2>1 DEF Counting, OneAtATime, Scanning, Quiet
  <2> QED
    BY <1>0, <2>1, <2>2, CountStays DEF Indices
<1>3. CASE LoadPending(s)
  <2>1. /\ pc[s] = "load" /\ UNCHANGED <<used, blk, found>>
        /\ pend' = [pend EXCEPT ![s] = watch]
        /\ pc' = [pc EXCEPT ![s] = IF blk[s] \cap watch = {} THEN "exec"
                                   ELSE "examine"]
    BY <1>3 DEF LoadPending, storeVars, histVars
  <2> QED
    BY <1>0, <2>1, CountStays DEF Indices
<1>4. ~ScanThrows(s) /\ ~CapacityFails(s)
  BY DEF ScanThrows, ExitProcess, CapacityFails, Quiet
<1>5. CASE ~CapacitySet(s) /\ ~Exec(s) /\ ~LoadPending(s)
  <2>1. /\ UNCHANGED <<used, found>>
        /\ pc[s] # "exec" /\ pc'[s] # "exec"
        /\ \A r \in Scans \ {s} :
              pc'[r] = pc[r] /\ blk'[r] = blk[r] /\ pend'[r] = pend[r]
    BY <1>4, <1>5 DEF ScanStart, ScanStep, CheckInitial, ReadLastSeen, ReadBirths,
       FetchHash, CheckParams, ExamineStep, SkipFailed, SkipNeither, StartPost,
       EndExamine, PostStep, PostOk, PostFails, PostGivesUp, EndPost,
       CapacityStep, CapacityGet, Advance, Finish, storeVars, histVars
  <2> QED
    BY <1>0, <2>1, CountStays DEF Indices
<1> QED
  BY <1>1, <1>2, <1>3, <1>5

LEMMA ScanKeepsCounting ==
    ASSUME Basics, Tracking, SettledInv, Counting, Quiet, Quiet',
           NEW s \in Scans, ScanStart(s) \/ ScanStep(s)
    PROVE  FoundAreGone' /\ ListIsLive' /\ ReadIsFresh'
<1> USE DEF Basics, TypeOK, ScanTypeOK, StoreTypeOK
<1>1. ~ScanThrows(s) /\ ~CapacityFails(s)
  BY DEF ScanThrows, ExitProcess, CapacityFails, Quiet
<1>2. UNCHANGED <<incl, pub>> /\ watch' \subseteq watch
  <2>1. ~ExitProcess
    BY DEF ExitProcess, Quiet
  <2> QED
    BY <2>1, ScanFrame DEF chainVars
<1>3. /\ FoundAreGone /\ ListIsLive /\ ReadIsFresh
      /\ \A r \in Scans : Scanning(r) /\ Scanning(s) => r = s
  BY DEF Counting, OneAtATime, Quiet
<1>4. CASE Exec(s)
  <2>1. /\ pc[s] = "exec" /\ pc' = [pc EXCEPT ![s] = "advance"]
        /\ watch' = watch \ (Indices(s) \cup Expired(s))
        /\ found' = found \cup Indices(s)
        /\ UNCHANGED <<cur, pend, saved, used>>
    BY <1>4 DEF Exec
  <2>2. \A t \in Indices(s) : pub[t] = "watched" /\ incl[t] # 0
    BY <2>1, IndicesAreHere DEF SettledInv, Indices, OnBlock
  <2>3. FoundAreGone'
    BY <1>2, <1>3, <2>1, <2>2 DEF FoundAreGone
  <2>4. \A r \in Scans : pc'[r] \notin OnBlock
    BY <1>3, <2>1 DEF Scanning, OnBlock
  <2> QED
    BY <2>3, <2>4 DEF ListIsLive, ReadIsFresh, OnBlock
<1>5. CASE ~Exec(s)
  <2>1. UNCHANGED <<watch, found>>
    BY <1>1, <1>5 DEF ScanStart, ScanStep, CheckInitial, ReadLastSeen,
       ReadBirths, FetchHash, CheckParams, LoadPending, ExamineStep, SkipFailed,
       SkipNeither, StartPost, EndExamine, PostStep, PostOk, PostFails,
       PostGivesUp, CapacityStep, CapacityGet, CapacitySet, Advance, storeVars,
       histVars
  <2>2. FoundAreGone'
    BY <1>2, <1>3, <2>1 DEF FoundAreGone
  <2>3. ListIsLive'
    <3>1. CASE LoadPending(s)
      BY <1>3, <2>1, <3>1 DEF LoadPending, ListIsLive
    <3>2. CASE ~LoadPending(s)
      <4>1. \A r \in Scans : pc'[r] \in OnBlock => pc[r] \in OnBlock /\ pend'[r] = pend[r]
        BY <1>1, <1>5, <3>2 DEF ScanStart, ScanStep, CheckInitial, ReadLastSeen,
           ReadBirths, FetchHash, CheckParams, ExamineStep, SkipFailed,
           SkipNeither, StartPost, EndExamine, PostStep, PostOk, PostFails,
           PostGivesUp, EndPost, CapacityStep, CapacityGet, CapacitySet,
           Advance, Finish, OnBlock
      <4> QED
        BY <1>3, <2>1, <4>1 DEF ListIsLive
    <3> QED
      BY <3>1, <3>2
  <2>4. ReadIsFresh'
    <3>1. CASE CapacityGet(s)
      BY <1>3, <3>1 DEF CapacityGet, ReadIsFresh, storeVars
    <3>2. CASE CapacitySet(s)
      <4>1. \A r \in Scans : pc'[r] # "capSet"
        BY <1>3, <3>2 DEF CapacitySet, Scanning
      <4> QED
        BY <4>1 DEF ReadIsFresh
    <3>3. CASE ~CapacityGet(s) /\ ~CapacitySet(s)
      <4>1. /\ UNCHANGED used
            /\ \A r \in Scans : pc'[r] = "capSet" =>
                  pc[r] = "capSet" /\ cur'[r] = cur[r] /\ saved'[r] = saved[r]
        BY <1>1, <1>5, <3>3 DEF ScanStart, ScanStep, CheckInitial,
           ReadLastSeen, ReadBirths, FetchHash, CheckParams, LoadPending,
           ExamineStep, SkipFailed, SkipNeither, StartPost, EndExamine,
           PostStep, PostOk, PostFails, PostGivesUp, EndPost, CapacityStep,
           Advance, Finish, storeVars
      <4> QED
        BY <1>3, <4>1 DEF ReadIsFresh
    <3> QED
      BY <3>1, <3>2, <3>3
  <2> QED
    BY <2>2, <2>3, <2>4
<1> QED
  BY <1>4, <1>5

\* The chain keeps inclusions while it does not fork.
LEMMA ChainKeepsCounting ==
    ASSUME Basics, Tracking, Counting, Quiet, Quiet', Chains
    PROVE  FoundAreGone' /\ ListIsLive' /\ ReadIsFresh' /\ CapacityExact'
<1>1. UNCHANGED <<found, watch, pub, pc, pend, blk, saved, used, cur>>
  BY DEF Chains, pubVars, storeVars, scanVars, histVars
<1>2. \A t \in Txns : incl[t] # 0 => incl'[t] = incl[t]
  <2>1. ~Reorg
    BY DEF Reorg, Quiet, Basics, TypeOK, ChainTypeOK
  <2> QED
    BY <2>1 DEF Chains, ChainNext, ProduceBlock, Finalize
<1>3. \A t \in found : t \in Txns
  BY DEF Basics, TypeOK, HistTypeOK
<1>4. FoundAreGone' /\ ListIsLive' /\ ReadIsFresh'
  BY <1>1, <1>2, <1>3 DEF Counting, FoundAreGone, ListIsLive, ReadIsFresh
<1>5. \A t : (t \in found \/ \E s \in Scans : pc[s] = "exec" /\ t \in Indices(s))
              => incl'[t] = incl[t]
  BY <1>2, <1>3, IndicesAreHere DEF Counting, FoundAreGone, OnBlock
<1>6. CapacityExact'
  BY <1>1, <1>5, CountStays DEF Counting, Indices
<1> QED
  BY <1>4, <1>6

LEMMA NextKeepsCounting ==
    Basics /\ Tracking /\ SettledInv /\ Counting /\ [Next]_vars => Counting'
<1> SUFFICES ASSUME Basics, Tracking, SettledInv, Counting, [Next]_vars, Quiet'
             PROVE  FoundAreGone' /\ ListIsLive' /\ ReadIsFresh' /\ CapacityExact'
  BY NextKeepsOneAtATime
     DEF Counting, FoundAreGone, ListIsLive, ReadIsFresh, CapacityExact, Quiet
<1>1. CASE UNCHANGED vars
  <2>1. UNCHANGED <<reorgs, incl, mishaps, found, watch, pub, pc, pend, blk,
                    saved, used, cur>>
    BY <1>1 DEF vars, chainVars, pubVars, storeVars, scanVars, histVars
  <2>2. FoundAreGone' /\ ListIsLive' /\ ReadIsFresh'
    BY <2>1 DEF Counting, FoundAreGone, ListIsLive, ReadIsFresh, Quiet
  <2>3. CapacityExact'
    BY <2>1, CountStays DEF Counting, Indices, Quiet
  <2> QED
    BY <2>2, <2>3
<1>2. CASE Next
  <2>1. Quiet
    BY <1>2, QuietWas
  <2>2. ASSUME NEW s \in Scans, ScanStart(s) \/ ScanStep(s)
        PROVE  FoundAreGone' /\ ListIsLive' /\ ReadIsFresh' /\ CapacityExact'
    BY <2>1, <2>2, ScanKeepsCount, ScanKeepsCounting
  <2>3. CASE Chains
    BY <2>1, <2>3, ChainKeepsCounting
  <2>4. ~Crash
    BY DEF Crash, ExitProcess, Quiet
  <2>5. CASE ProcessStep \/ \E t \in Txns : PubStep(t)
    <3>1. /\ UNCHANGED <<incl, found, pc, pend, blk, saved, used, cur>>
          /\ watch \subseteq watch'
          /\ \A t \in found : t \in watch' => t \in watch \/ pub[t] = "sent"
          /\ \A t \in found : pub[t] = "watched" => pub'[t] = "watched"
      BY <2>5 DEF ProcessStep, Restart, BootKeys, BootSkip, PubStep, PubRead,
         PubSubmit, Submit, PubWatch, PubFails, chainVars, pubVars, storeVars,
         scanVars, histVars, Basics, TypeOK, StoreTypeOK, HistTypeOK
    <3>2. FoundAreGone' /\ ListIsLive' /\ ReadIsFresh'
      BY <2>1, <3>1 DEF Counting, FoundAreGone, ListIsLive, ReadIsFresh
    <3>3. CapacityExact'
      BY <2>1, <3>1, CountStays DEF Counting, Indices
    <3> QED
      BY <3>2, <3>3
  <2> QED
    BY <1>2, <2>2, <2>3, <2>4, <2>5 DEF Next
<1> QED
  BY <1>1, <1>2

LEMMA InitCounting == Init => Counting
<1> SUFFICES ASSUME Init PROVE Counting
  OBVIOUS
<1>1. FoundAreGone /\ ListIsLive /\ ReadIsFresh
  BY DEF Init, NoScan, FoundAreGone, ListIsLive, ReadIsFresh, OnBlock
<1>2. ASSUME NEW e \in Epochs PROVE used[e] = Cardinality(CountedIn(e))
  <2>1. CountedIn(e) = {} /\ used[e] = 0
    BY DEF Init, NoScan, CountedIn
  <2> QED
    BY <2>1, FS_EmptySet
<1> QED
  BY <1>1, <1>2, InitOneAtATime DEF Counting, CapacityExact

\* The capacity counted for an epoch is that of the extrinsics found in it,
\* each once, however scans and publications interleave.
THEOREM CapacityIsExact == Spec => []CapacityExact
<1>1. Init => Tracking
  BY DEF Init, Tracking, BlocksAreExact, NoScanPast, NoSilentSkip, NoScan,
         OnBlock
<1>2. Counting => CapacityExact
  BY DEF Counting
<1> QED
  BY <1>1, <1>2, InitBasics, NextKeepsBasics, NextKeepsTracking, InitSettled,
     NextKeepsSettled, InitCounting, NextKeepsCounting, PTL DEF Spec

=============================================================================
