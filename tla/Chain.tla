------------------------------- MODULE Chain -------------------------------
(***************************************************************************)
(* The Frequency chain as account-service sees it through its node.  This  *)
(* is the environment of the worker: the repository holds no code for it,  *)
(* only the calls of blockchain.service.ts that read it.                   *)
(*                                                                         *)
(* Block numbers start at 1.  A transaction is here the extrinsic one job  *)
(* of the publish queue submits; what its dispatch will do is fixed from   *)
(* the start by `outcome'.                                                 *)
(***************************************************************************)
EXTENDS Integers, FiniteSets

CONSTANTS
    Txns,       \* the extrinsics
    Outcomes,   \* what a dispatch may end in: a subset of AllOutcomes
    Period,     \* how many blocks a mortal extrinsic stays valid
    MaxBlock,   \* bound: the last block of the chain
    MaxReorgs   \* bound: how many times the best chain switches forks

\* "success": the success event the publisher recorded is emitted; "failed":
\* ExtrinsicFailed with a module error; "nonModule": ExtrinsicFailed with any
\* other error (BadOrigin, Token, Arithmetic ...); "neither": no ExtrinsicFailed,
\* and no event of the section and method that the publisher recorded.
AllOutcomes == {"success", "failed", "nonModule", "neither"}

ASSUME TxnsAssumption == IsFiniteSet(Txns)
ASSUME OutcomesAssumption == Outcomes \subseteq AllOutcomes
ASSUME PeriodAssumption == Period \in Nat \ {0}
ASSUME MaxBlockAssumption == MaxBlock \in Nat \ {0}
ASSUME MaxReorgsAssumption == MaxReorgs \in Nat

VARIABLES
    head,       \* number of the best block
    finalized,  \* number of the latest finalized block
    incl,       \* incl[t]: the best-chain block holding t, 0 if none
    signed,     \* signed[t]: the block t's era starts at, 0 if never submitted
    outcome,    \* outcome[t]: how t's dispatch ends
    reorgs      \* how many forks were abandoned

chainVars == <<head, finalized, incl, signed, outcome, reorgs>>

Blocks == 0..MaxBlock

-----------------------------------------------------------------------------
(* MortalEra.birth and MortalEra.death of the polkadot library, for an     *)
(* extrinsic whose era starts at `start', asked about block `current'.     *)

EraBirth(start, current) ==
    LET phase == start % Period
        upTo  == IF current >= phase THEN current ELSE phase
    IN  Period * ((upTo - phase) \div Period) + phase

EraDeath(start, current) == EraBirth(start, current) + Period

\* The extrinsic can still be included in block b.
ValidAt(t, b) == signed[t] # 0 /\ signed[t] < b /\ b < signed[t] + Period

-----------------------------------------------------------------------------
ChainTypeOK ==
    /\ head \in Blocks
    /\ finalized \in Blocks
    /\ incl \in [Txns -> Blocks]
    /\ signed \in [Txns -> Blocks]
    /\ outcome \in [Txns -> AllOutcomes]
    /\ reorgs \in 0..MaxReorgs

ChainInit ==
    /\ head = 1
    /\ finalized = 1
    /\ incl = [t \in Txns |-> 0]
    /\ signed = [t \in Txns |-> 0]
    /\ outcome \in [Txns -> Outcomes]
    /\ reorgs = 0

\* author_submitExtrinsic accepts t.  The library starts the era at the
\* latest finalized block (it starts at the head only when finality lags by
\* more than five blocks, which the bounds exclude).
Submit(t) ==
    /\ signed[t] = 0
    /\ signed' = [signed EXCEPT ![t] = finalized]
    /\ UNCHANGED <<head, finalized, incl, outcome, reorgs>>

\* A new best block takes any of the valid extrinsics of the pool.
ProduceBlock ==
    /\ head < MaxBlock
    /\ head' = head + 1
    /\ \E block \in SUBSET {t \in Txns : incl[t] = 0 /\ ValidAt(t, head + 1)} :
          incl' = [t \in Txns |-> IF t \in block THEN head + 1 ELSE incl[t]]
    /\ UNCHANGED <<finalized, signed, outcome, reorgs>>

Finalize ==
    /\ finalized < head
    /\ finalized' = finalized + 1
    /\ UNCHANGED <<head, incl, signed, outcome, reorgs>>

\* A longer fork that branches off after block `fork' becomes the best chain.
\* Extrinsics above the branch return to the pool or sit elsewhere on it.
Reorg ==
    /\ reorgs < MaxReorgs
    /\ head < MaxBlock
    /\ \E fork \in finalized..(head - 1) :
          incl' \in {f \in [Txns -> Blocks] :
                        \A t \in Txns :
                           IF incl[t] \in 1..fork
                           THEN f[t] = incl[t]
                           ELSE f[t] = 0 \/ (f[t] \in (fork + 1)..(head + 1)
                                             /\ ValidAt(t, f[t]))}
    /\ head' = head + 1
    /\ reorgs' = reorgs + 1
    /\ UNCHANGED <<finalized, signed, outcome>>

ChainNext == ProduceBlock \/ Finalize \/ Reorg

ChainFairness == WF_chainVars(ProduceBlock) /\ WF_chainVars(Finalize)

=============================================================================
