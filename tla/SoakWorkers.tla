----------------------------- MODULE SoakWorkers -----------------------------
(***************************************************************************)
(* The background workers of a soak run (StateValidation and               *)
(* EvmConsistency) on one sequencer: the manual setup deploys the EVM      *)
(* contracts, then run_soak spawns the validation worker and one worker    *)
(* per contract, and each ends in its own time.                            *)
(***************************************************************************)
EXTENDS StateValidation, EvmConsistency

vars == <<seqVars, valVars, evmVars>>

\* run_soak loads the contracts of the metadata file.
SpawnWorkers ==
    /\ dpc = "done" /\ vpc = "waiting"
    /\ vpc' = "subscribing"
    /\ wpc' = [w \in Workers |-> "reading_nonce"]
    /\ UNCHANGED <<seqVars, vnext, errors, vslot, attempt, read, seen, vroot, vresult,
                   rejected, nonces, values, lost, deployVars, wnonce, wvalue,
                   wresult>>

\* The soak does not start without its contracts.
Spent ==
    \/ dpc = "failed"
    \/ vpc = "done" /\ \A w \in Workers : wpc[w] = "done"

Done == Spent /\ UNCHANGED vars

Init == SeqInit /\ ValInit /\ EvmInit

Sequencing == SeqNext /\ UNCHANGED <<valVars, evmVars>>
Validating == ValNext /\ UNCHANGED <<seqVars, evmVars>>
Updating   == EvmNext /\ UNCHANGED <<seqVars, valVars>>

Next == Sequencing \/ Validating \/ Updating \/ SpawnWorkers \/ Done

Spec == Init /\ [][Next]_vars
-----------------------------------------------------------------------------
TypeOK == SeqTypeOK /\ ValTypeOK /\ EvmTypeOK

\* On a rollup that executes what its API shows, no assertion is rejected in a
\* way that fails the run, however the requests interleave with the blocks.
NoFalseRejection == vresult = "rejected" => diverged # {}

\* An assertion that was rejected in the block it is about fails the worker.
RejectionIsReported == rejected => vresult = "rejected"

\* A worker's update is rejected only if the rollup lost a confirmed one: the
\* workers share neither accounts nor contracts, and never reuse a nonce.
UpdatesNeverCollide ==
    \A w \in Workers : wresult[w] = "rejected" => ContractOf(w) \in lost

\* While a worker goes on, its account and contract are where it left them; an
\* accepted update that it does not know of ends it.
WorkersKnowTheirContracts ==
    \A w \in Workers :
        wpc[w] = "updating" /\ ContractOf(w) \notin lost =>
            wvalue[w] = values[ContractOf(w)] /\ wnonce[w] = nonces[WorkerKey(w)]

\* Once the rollup has lost a confirmed update, its contract's worker never
\* gets another one accepted.
LossIsNoticed ==
    [][\A w \in Workers :
          wpc[w] # "waiting" /\ ContractOf(w) \in lost =>
              values'[ContractOf(w)] <= values[ContractOf(w)]]_vars
=============================================================================
