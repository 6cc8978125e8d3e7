--------------------------- MODULE EvmConsistency ---------------------------
(***************************************************************************)
(* The EVM consistency contracts and their workers (scripts/acceptance-    *)
(* test/src/evm_soak.rs).  The manual setup deploys the contracts, half of *)
(* them from a privileged account.  In the soak each contract has a worker *)
(* with a key of its own, which increments the contract's value over and   *)
(* over, naming the value it expects to replace; the sequencer rejects an  *)
(* update whose nonce or expected value is not the account's.              *)
(***************************************************************************)
EXTENDS Sequencer, Sequences, FiniteSets, FiniteSetsExt

CONSTANTS
    NumContracts,  \* NUM_PINNED_CONTRACTS and NUM_UNPINNED_CONTRACTS; 5
    MaxUpdates     \* bound: updates of a contract

ASSUME EvmConstants == NumContracts \in 1..50 /\ MaxUpdates \in Nat

VARIABLES
    nonces,      \* the nonce of each account (a key byte)
    values,      \* the value of each deployed contract
    lost,        \* contracts that lost a confirmed update (history)
    \* the manual setup
    dpc, deployed, metadata,
    \* the workers
    wpc, wnonce, wvalue, wresult

deployVars == <<dpc, deployed, metadata>>
workVars   == <<wpc, wnonce, wvalue, wresult>>
evmVars    == <<nonces, values, lost, deployVars, workVars>>

Kinds   == {"pinned", "unpinned"}
Workers == Kinds \X (0..(NumContracts - 1))
-----------------------------------------------------------------------------
(* Keys.  Only their first byte differs. *)

RootKeyByte == 172

\* Mutant: the ranges of the two kinds of workers overlap.
OverlappingOffset(kind) == IF kind = "pinned" THEN 10 ELSE 10 + NumContracts - 1

\* PINNED_WORKER_KEY_OFFSET, UNPINNED_WORKER_KEY_OFFSET.
WorkerKeyOffset(kind) == IF kind = "pinned" THEN 10 ELSE 60

\* derive_worker_key: a wrapping addition to the first byte.
DeriveKey(offset) == (RootKeyByte + offset) % 256

WorkerKey(w) == DeriveKey((WorkerKeyOffset(w[1]) + w[2]) % 256)

\* The root key itself, and UNPRIVILEGED_DEPLOYER_OFFSET.
DeployerKey(kind) == IF kind = "pinned" THEN RootKeyByte ELSE DeriveKey(1)

Accounts == {WorkerKey(w) : w \in Workers} \cup {DeployerKey(k) : k \in Kinds}

\* A contract's address is made of its deployer and the deployer's nonce.
Address(account, nonce) == <<account, nonce>>
-----------------------------------------------------------------------------
(* setup_state_consistency_contracts: the pinned contracts first. *)

DeployFails ==
    /\ dpc \in {"sending", "receipt"} /\ (~up \/ MayFail \/ stopping)
    /\ dpc' = "failed"
    /\ UNCHANGED <<nonces, values, lost, deployed, metadata, workVars>>

Count(kind) == Cardinality({i \in DOMAIN deployed : deployed[i][1] = DeployerKey(kind)})
NextKind    == IF Count("pinned") < NumContracts THEN "pinned" ELSE "unpinned"

SendDeployment ==
    /\ dpc = "sending" /\ up /\ ~stopping
    /\ Len(deployed) < 2 * NumContracts
    /\ LET account == DeployerKey(NextKind)
           address == Address(account, nonces[account])
       IN  /\ nonces' = [nonces EXCEPT ![account] = @ + 1]
           /\ values' = [a \in DOMAIN values \cup {address} |->
                            IF a = address THEN 0 ELSE values[a]]
           /\ deployed' = Append(deployed, address)
    /\ dpc' = "receipt"
    /\ UNCHANGED <<lost, metadata, workVars>>

ReceiveReceipt ==
    /\ dpc = "receipt" /\ up
    /\ dpc' = "sending"
    /\ UNCHANGED <<nonces, values, lost, deployed, metadata, workVars>>

\* Only a complete deployment is written to the metadata file.
WriteMetadata ==
    /\ dpc = "sending" /\ Len(deployed) = 2 * NumContracts
    /\ metadata' = [k \in Kinds |->
                       SubSeq(deployed, IF k = "pinned" THEN 1 ELSE NumContracts + 1,
                              IF k = "pinned" THEN NumContracts ELSE 2 * NumContracts)]
    /\ dpc' = "done" /\ deployed' = <<>>
    /\ UNCHANGED <<nonces, values, lost, workVars>>

ContractOf(w) == metadata[w[1]][w[2] + 1]
-----------------------------------------------------------------------------
(* evm_state_consistency_worker. *)

WFinish(w, why) ==
    /\ wpc' = [wpc EXCEPT ![w] = "done"]
    /\ wnonce' = [wnonce EXCEPT ![w] = 0] /\ wvalue' = [wvalue EXCEPT ![w] = 0]
    /\ wresult' = [wresult EXCEPT ![w] = why]

ReadNonce(w) ==
    /\ wpc[w] = "reading_nonce" /\ up
    /\ wnonce' = [wnonce EXCEPT ![w] = nonces[WorkerKey(w)]]
    /\ wpc' = [wpc EXCEPT ![w] = "reading_value"]
    /\ UNCHANGED <<nonces, values, lost, deployVars, wvalue, wresult>>

ReadValue(w) ==
    /\ wpc[w] = "reading_value" /\ up
    /\ wvalue' = [wvalue EXCEPT ![w] = values[ContractOf(w)]]
    /\ wpc' = [wpc EXCEPT ![w] = "updating"]
    /\ UNCHANGED <<nonces, values, lost, deployVars, wnonce, wresult>>

Valid(w) ==
    nonces[WorkerKey(w)] = wnonce[w] /\ values[ContractOf(w)] = wvalue[w]

Accepted(w) ==
    /\ nonces' = [nonces EXCEPT ![WorkerKey(w)] = @ + 1]
    /\ values' = [values EXCEPT ![ContractOf(w)] = @ + 1]

\* The worker moves on to the next nonce and value when the update is confirmed.
UpdateConfirmed(w) ==
    /\ wpc[w] = "updating" /\ up /\ ~stopping /\ Valid(w)
    /\ wvalue[w] < MaxUpdates
    /\ Accepted(w)
    /\ wnonce' = [wnonce EXCEPT ![w] = @ + 1]
    /\ wvalue' = [wvalue EXCEPT ![w] = @ + 1]
    /\ UNCHANGED <<lost, deployVars, wpc, wresult>>

\* Mutant: an update whose answer does not come is sent again.
UpdateRetried(w) ==
    /\ wpc[w] = "updating" /\ up /\ ~stopping /\ Valid(w) /\ MayFail
    /\ wvalue[w] < MaxUpdates
    /\ Accepted(w)
    /\ UNCHANGED <<lost, deployVars, workVars>>

\* The update is accepted, and its answer lost: the worker gives up.
UpdateUnconfirmed(w) ==
    /\ wpc[w] = "updating" /\ up /\ ~stopping /\ Valid(w) /\ MayFail
    /\ wvalue[w] < MaxUpdates
    /\ Accepted(w)
    /\ WFinish(w, "unreachable")
    /\ UNCHANGED <<lost, deployVars>>

\* Mutant: the worker reads its nonce and value again and carries on.
UpdateRefreshed(w) ==
    /\ wpc[w] = "updating" /\ up /\ ~stopping /\ ~Valid(w)
    /\ wpc' = [wpc EXCEPT ![w] = "reading_nonce"]
    /\ UNCHANGED <<nonces, values, lost, deployVars, wnonce, wvalue, wresult>>

UpdateRejected(w) ==
    /\ wpc[w] = "updating" /\ up /\ ~stopping /\ ~Valid(w)
    /\ WFinish(w, "rejected")
    /\ UNCHANGED <<nonces, values, lost, deployVars>>

\* The marker of the stop height in the error's text.
StopHeightReached(w) ==
    /\ wpc[w] = "updating" /\ up /\ stopping
    /\ WFinish(w, "stop_height")
    /\ UNCHANGED <<nonces, values, lost, deployVars>>

CallFails(w) ==
    /\ wpc[w] \in {"reading_nonce", "reading_value", "updating"} /\ (~up \/ MayFail)
    /\ WFinish(w, "unreachable")
    /\ UNCHANGED <<nonces, values, lost, deployVars>>

\* A fault of the rollup (bound: one): it loses the last update of a contract that it had
\* confirmed, with or without the account's nonce.
LoseUpdate(w) ==
    /\ up /\ MayDiverge /\ wpc[w] = "updating" /\ Valid(w) /\ wvalue[w] > 0
    /\ lost = {}
    /\ values' = [values EXCEPT ![ContractOf(w)] = @ - 1]
    /\ \/ UNCHANGED nonces
       \/ nonces' = [nonces EXCEPT ![WorkerKey(w)] = @ - 1]
    /\ lost' = lost \cup {ContractOf(w)}
    /\ UNCHANGED <<deployVars, workVars>>
-----------------------------------------------------------------------------
EvmInit ==
    /\ nonces = [a \in Accounts |-> 0]
    /\ values = <<>> /\ lost = {}
    /\ dpc = "sending" /\ deployed = <<>> /\ metadata = [k \in Kinds |-> <<>>]
    /\ wpc = [w \in Workers |-> "waiting"]
    /\ wnonce = [w \in Workers |-> 0] /\ wvalue = [w \in Workers |-> 0]
    /\ wresult = [w \in Workers |-> "running"]

Deploy == SendDeployment \/ ReceiveReceipt \/ WriteMetadata \/ DeployFails

Work(w) ==
    \/ ReadNonce(w) \/ ReadValue(w)
    \/ UpdateConfirmed(w) \/ UpdateUnconfirmed(w) \/ UpdateRejected(w)
    \/ StopHeightReached(w) \/ CallFails(w)

EvmNext == Deploy \/ (\E w \in Workers : Work(w) \/ LoseUpdate(w))

EvmTypeOK ==
    /\ nonces \in [Accounts -> Nat]
    /\ DOMAIN values \subseteq Accounts \X Nat
    /\ \A a \in DOMAIN values : values[a] \in 0..MaxUpdates
    /\ lost \subseteq DOMAIN values
    /\ dpc \in {"sending", "receipt", "done", "failed"}
    /\ deployed \in Seq(Accounts \X Nat)
    /\ metadata \in [Kinds -> Seq(Accounts \X Nat)]
    /\ wpc \in [Workers -> {"waiting", "reading_nonce", "reading_value", "updating", "done"}]
    /\ wnonce \in [Workers -> Nat] /\ wvalue \in [Workers -> 0..MaxUpdates]
    /\ wresult \in [Workers -> {"running", "unreachable", "rejected", "stop_height"}]
=============================================================================
