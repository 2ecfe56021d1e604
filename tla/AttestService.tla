--------------------------- MODULE AttestService ---------------------------
(***************************************************************************)
(* The attestation driver (src/unnamed/part_000, package attestation):     *)
(* AttestService.Run wakes on a timer, doAttestation runs the handler of   *)
(* the current AttestationState, and the handler sets the delay until the *)
(* next tick.  It composes the store (Store), the parent chain and wallet  *)
(* (ParentChain), the fee policy of the attest client (FeePolicy) and the *)
(* topics published to the remote signers (SignerTransport).              *)
(*                                                                         *)
(* Time is the number of seconds since confirmTime, the process-wide       *)
(* global set when an attestation is sent or found unconfirmed; it grows  *)
(* by attestDelay at each tick and is capped one second past              *)
(* atimeHandleUnconfirmed, the only threshold it is compared with.         *)
(* Transient failures (RPC, store, signer) and process crashes draw on one *)
(* budget of MaxFaults.  Log output and errorState are not modelled.      *)
(***************************************************************************)
EXTENDS Integers, Sequences, SequencesExt, ParentChain, Store, FeePolicy,
        SignerTransport

CONSTANTS
    NewAttestationMinutes,     \* config TimingConfig().NewAttestationMinutes
    HandleUnconfirmedMinutes,  \* config TimingConfig().HandleUnconfirmedMinutes
    MaxFaults,                 \* bound on injected failures and crashes
    StartRunning               \* start against a chain and store with history

ASSUME /\ NumCommits \in Nat \ {0}
       /\ MaxFaults \in Nat
       /\ FeeMin <= FeeMax /\ FeeRegtestBase \in FeeLevels
       /\ Regtest \in BOOLEAN /\ NotFoundIsError \in BOOLEAN

VARIABLES
    state,          \* s.state
    attestation,    \* s.attestation: [txid, root, confirmed, prev, fee]
    attestDelay,    \* global attestDelay (seconds)
    sinceConfirm,   \* time.Since(confirmTime), capped at SinceCap
    faults          \* injected failures so far

driverVars == <<state, attestation, attestDelay, sinceConfirm, fee>>
vars == <<driverVars, faults, chainVars, storeVars, signerVars>>

\* AttestationState
States == {"ASTATE_ERROR", "ASTATE_INIT", "ASTATE_NEXT_COMMITMENT",
           "ASTATE_NEW_ATTESTATION", "ASTATE_SIGN_ATTESTATION",
           "ASTATE_PRE_SEND_STORE", "ASTATE_SEND_ATTESTATION",
           "ASTATE_AWAIT_CONFIRMATION", "ASTATE_HANDLE_UNCONFIRMED"}

\* waiting time schedules (seconds)
ATIME_FIXED == 5
ATIME_SIGS == 60
ATIME_CONFIRMATION == 900
DEFAULT_ATIME_NEW_ATTESTATION == 3600
DEFAULT_ATIME_HANDLE_UNCONFIRMED == 3600
ATIME_STARTUP == 30
ATIME_REGTEST == 10

\* NewAttestService: a non-positive config value falls back to the default.
atimeNewAttestation ==
    IF NewAttestationMinutes > 0 THEN NewAttestationMinutes * 60
    ELSE DEFAULT_ATIME_NEW_ATTESTATION

atimeHandleUnconfirmed ==
    IF HandleUnconfirmedMinutes > 0 THEN HandleUnconfirmedMinutes * 60
    ELSE DEFAULT_ATIME_HANDLE_UNCONFIRMED

SinceCap == atimeHandleUnconfirmed + 1

\* models.NewAttestationDefault / models.NewAttestation(txid, commitment)
NewAttestationDefault ==
    [txid |-> NoTx, root |-> 0, confirmed |-> FALSE, prev |-> NoTx, fee |-> 0]

NewAttestation(txid, root) == [NewAttestationDefault EXCEPT !.txid = txid, !.root = root]

\* s.attestation.Tx = *rawTx.MsgTx(): the unsigned content of a fetched tx.
WithTx(a, t) == [a EXCEPT !.prev = t.prev, !.fee = t.fee]

\* The unsigned tx serialised for the signers: spent output, root, fee.
Unsigned(a) == [prev |-> a.prev, root |-> a.root, fee |-> a.fee]

---------------------------------------------------------------------------
(* The timer loop of Run and the failure helper.                          *)

\* Seconds since confirmTime when the timer fires (a negative delay fires
\* at once).
Elapsed ==
    LET d == IF attestDelay > 0 THEN attestDelay ELSE 0
    IN  IF sinceConfirm + d > SinceCap THEN SinceCap ELSE sinceConfirm + d

\* The handler ran Elapsed seconds after confirmTime and left it alone.
Tick == sinceConfirm' = Elapsed

\* The delay a handler sets; in regtest Run overrides it after the handler.
Sleep(d) == attestDelay' = IF Regtest THEN ATIME_REGTEST ELSE d

\* One injected failure: an RPC, store or signer call returns an error.
Fault == faults < MaxFaults /\ faults' = faults + 1

NoFault == UNCHANGED faults

\* setFailure(err) with err != nil; the next tick is after ATIME_FIXED.
Failure ==
    /\ state' = "ASTATE_ERROR"
    /\ Sleep(ATIME_FIXED)
    /\ Tick

---------------------------------------------------------------------------
(* One action per state handler of doAttestation.                         *)

\* ASTATE_ERROR: re-initiate the attestation.
doStateError ==
    /\ state = "ASTATE_ERROR"
    /\ state' = "ASTATE_INIT"
    /\ Sleep(ATIME_FIXED)
    /\ Tick
    /\ UNCHANGED <<attestation, fee, faults, chainVars, storeVars, signerVars>>

\* ASTATE_INIT, unconfirmed branch: a tx t of the wallet is in the mempool.
stateInitUnconfirmed(t) ==
    IF AttestationLookupFails(t)
    THEN Failure /\ UNCHANGED attestation
    ELSE /\ attestation' = WithTx(NewAttestation(t, AttestationCommitment(t)), t)
         /\ state' = "ASTATE_AWAIT_CONFIRMATION"
         /\ Sleep(ATIME_FIXED)
         /\ sinceConfirm' = 0

\* Mutant of stateInitUnspent: the found attestation is stored without
\* setting Confirmed.
stateInitUnspentUnconfirmed(u) ==
    LET root == AttestationCommitment(u)
        foundAtt == WithTx(NewAttestation(u, root), u)
    IN
    IF AttestationLookupFails(u)
    THEN Failure /\ NoFault /\ UNCHANGED <<attestation, storeVars, signerVars>>
    ELSE \/ /\ root # 0
            /\ attestation' = foundAtt
            /\ \/ /\ NoFault
                  /\ UpdateLatestAttestation(foundAtt)
                  /\ SendConfirmedHash(root)
                  /\ state' = "ASTATE_NEXT_COMMITMENT"
                  /\ Sleep(ATIME_FIXED)
                  /\ Tick
               \/ /\ Fault
                  /\ UpdateLatestAttestationFails(foundAtt)
                  /\ Failure
                  /\ UNCHANGED signerVars
         \/ /\ root = 0
            /\ NoFault
            /\ attestation' = NewAttestationDefault
            /\ SendConfirmedHash(0)
            /\ state' = "ASTATE_NEXT_COMMITMENT"
            /\ Sleep(ATIME_FIXED)
            /\ Tick
            /\ UNCHANGED storeVars

\* ASTATE_INIT, unspent branch: u is the staychain tip listed by the wallet.
stateInitUnspent(u) ==
    LET root == AttestationCommitment(u)
        confirmedAtt == [WithTx(NewAttestation(u, root), u) EXCEPT !.confirmed = TRUE]
    IN
    IF AttestationLookupFails(u)
    THEN Failure /\ NoFault /\ UNCHANGED <<attestation, storeVars, signerVars>>
    ELSE \/ /\ root # 0
            /\ attestation' = confirmedAtt
            /\ \/ /\ NoFault
                  /\ UpdateLatestAttestation(confirmedAtt)
                  /\ SendConfirmedHash(root)
                  /\ state' = "ASTATE_NEXT_COMMITMENT"
                  /\ Sleep(ATIME_FIXED)
                  /\ Tick
               \/ /\ Fault
                  /\ UpdateLatestAttestationFails(confirmedAtt)
                  /\ Failure
                  /\ UNCHANGED signerVars
         \/ /\ root = 0
            /\ NoFault
            /\ attestation' = NewAttestationDefault
            /\ SendConfirmedHash(0)
            /\ state' = "ASTATE_NEXT_COMMITMENT"
            /\ Sleep(ATIME_FIXED)
            /\ Tick
            /\ UNCHANGED storeVars

\* ASTATE_INIT, wallet failure branch: neither found; remain at init.
stateInitWalletFailure ==
    /\ state' = "ASTATE_INIT"
    /\ Sleep(ATIME_FIXED)
    /\ Tick
    /\ UNCHANGED attestation

\* ASTATE_INIT
doStateInit ==
    /\ state = "ASTATE_INIT"
    /\ UNCHANGED <<fee, chainVars>>
    /\ \/ /\ Fault
          /\ Failure
          /\ UNCHANGED <<attestation, storeVars, signerVars>>
       \/ \E t \in mempool :
             NoFault /\ stateInitUnconfirmed(t) /\ UNCHANGED <<storeVars, signerVars>>
       \/ /\ mempool = {}
          /\ LastUnspentFound
          /\ stateInitUnspent(Tip)
       \/ /\ mempool = {}
          /\ ~LastUnspentFound
          /\ NoFault
          /\ stateInitWalletFailure
          /\ UNCHANGED <<storeVars, signerVars>>

\* Mutant of doStateNextCommitment: no check that the commitment is
\* already attested.
doStateNextCommitmentNoSkip ==
    /\ state = "ASTATE_NEXT_COMMITMENT"
    /\ UNCHANGED <<fee, chainVars, storeVars>>
    /\ \/ /\ Fault
          /\ Failure
          /\ UNCHANGED <<attestation, signerVars>>
       \/ /\ NoFault
          /\ SendNewHash(ClientCommitment)
          /\ attestation' = [NewAttestationDefault EXCEPT !.root = ClientCommitment]
          /\ state' = "ASTATE_NEW_ATTESTATION"
          /\ Sleep(ATIME_FIXED)
          /\ Tick

\* ASTATE_NEXT_COMMITMENT
doStateNextCommitment ==
    /\ state = "ASTATE_NEXT_COMMITMENT"
    /\ UNCHANGED <<fee, chainVars, storeVars>>
    /\ \/ /\ Fault
          /\ Failure
          /\ UNCHANGED <<attestation, signerVars>>
       \/ /\ NoFault
          /\ ClientCommitment = attestation.root
          /\ Sleep(atimeNewAttestation)
          /\ Tick
          /\ UNCHANGED <<state, attestation, signerVars>>
       \/ /\ NoFault
          /\ ClientCommitment # attestation.root
          /\ SendNewHash(ClientCommitment)
          /\ attestation' = [NewAttestationDefault EXCEPT !.root = ClientCommitment]
          /\ state' = "ASTATE_NEW_ATTESTATION"
          /\ Sleep(ATIME_FIXED)
          /\ Tick

\* ASTATE_NEW_ATTESTATION: build the unsigned tx spending the last unspent
\* at the current fee and publish it to the signers.
doStateNewAttestation ==
    /\ state = "ASTATE_NEW_ATTESTATION"
    /\ UNCHANGED <<fee, chainVars, storeVars>>
    /\ \/ /\ Fault
          /\ Failure
          /\ UNCHANGED <<attestation, signerVars>>
       \/ /\ NoFault
          /\ IF LastUnspentFound
             THEN /\ attestation' = [attestation EXCEPT !.prev = Tip, !.fee = fee]
                  /\ SendNewTx(Unsigned(attestation'))
                  /\ state' = "ASTATE_SIGN_ATTESTATION"
                  /\ Sleep(ATIME_SIGS)
                  /\ Tick
             ELSE /\ Failure
                  /\ UNCHANGED <<attestation, signerVars>>

\* ASTATE_SIGN_ATTESTATION: combine the signers' sigs with the local sig,
\* the local key being tweaked by the latest attested root in the store.
doStateSignAttestation ==
    LET signed == [prev |-> attestation.prev, root |-> attestation.root,
                   fee |-> attestation.fee,
                   signRoot |-> LatestAttestedCommitmentHash]
    IN
    /\ state = "ASTATE_SIGN_ATTESTATION"
    /\ UNCHANGED <<fee, chainVars, storeVars, signerVars>>
    /\ \/ /\ Fault
          /\ Failure
          /\ UNCHANGED attestation
       \/ /\ NoFault
          /\ IF LatestAttestedLookupFails
             THEN Failure /\ UNCHANGED attestation
             ELSE /\ attestation' = [attestation EXCEPT !.txid = signed]
                  /\ state' = "ASTATE_PRE_SEND_STORE"
                  /\ Sleep(ATIME_FIXED)
                  /\ Tick

\* Mutant of doStatePreSendStore: moves on without storing.
doStatePreSendStoreSkipped ==
    /\ state = "ASTATE_PRE_SEND_STORE"
    /\ UNCHANGED <<attestation, fee, chainVars, storeVars, signerVars>>
    /\ \/ /\ Fault
          /\ Failure
       \/ /\ NoFault
          /\ state' = "ASTATE_SEND_ATTESTATION"
          /\ Sleep(ATIME_FIXED)
          /\ Tick

\* ASTATE_PRE_SEND_STORE: store the unconfirmed attestation before sending.
doStatePreSendStore ==
    /\ state = "ASTATE_PRE_SEND_STORE"
    /\ UNCHANGED <<attestation, fee, chainVars, signerVars>>
    /\ \/ /\ Fault
          /\ UpdateLatestAttestationFails(attestation)
          /\ Failure
       \/ /\ NoFault
          /\ UpdateLatestAttestation(attestation)
          /\ state' = "ASTATE_SEND_ATTESTATION"
          /\ Sleep(ATIME_FIXED)
          /\ Tick

\* ASTATE_SEND_ATTESTATION
doStateSendAttestation ==
    LET t == attestation.txid IN
    /\ state = "ASTATE_SEND_ATTESTATION"
    /\ UNCHANGED <<attestation, fee, storeVars, signerVars>>
    /\ \/ /\ Fault                  \* the RPC fails before the node sees t
          /\ Failure
          /\ UNCHANGED chainVars
       \/ /\ Fault                  \* the node accepts t, the reply is lost
          /\ Accepts(t)
          /\ Broadcast(t)
          /\ Failure
       \/ /\ NoFault                \* the node rejects t
          /\ ~Accepts(t)
          /\ Failure
          /\ UNCHANGED chainVars
       \/ /\ NoFault
          /\ Accepts(t)
          /\ Broadcast(t)
          /\ state' = "ASTATE_AWAIT_CONFIRMATION"
          /\ Sleep(ATIME_CONFIRMATION)
          /\ sinceConfirm' = 0

\* ASTATE_AWAIT_CONFIRMATION
doStateAwaitConfirmation ==
    LET confirmedAtt == [attestation EXCEPT !.confirmed = TRUE] IN
    /\ state = "ASTATE_AWAIT_CONFIRMATION"
    /\ UNCHANGED chainVars
    /\ \/ /\ Elapsed > atimeHandleUnconfirmed
          /\ state' = "ASTATE_HANDLE_UNCONFIRMED"
          /\ Sleep(ATIME_FIXED)
          /\ Tick
          /\ UNCHANGED <<attestation, fee, faults, storeVars, signerVars>>
       \/ /\ Elapsed <= atimeHandleUnconfirmed
          /\ Fault                  \* GetTransaction fails
          /\ Failure
          /\ UNCHANGED <<attestation, fee, storeVars, signerVars>>
       \/ /\ Elapsed <= atimeHandleUnconfirmed
          /\ Mined(attestation.txid)
          /\ Fault                  \* UpdateLatestAttestation fails
          /\ UpdateLatestAttestationFails(confirmedAtt)
          /\ Failure
          /\ attestation' = confirmedAtt
          /\ UNCHANGED <<fee, signerVars>>
       \/ /\ Elapsed <= atimeHandleUnconfirmed
          /\ Mined(attestation.txid)
          /\ NoFault
          /\ attestation' = confirmedAtt
          /\ UpdateLatestAttestation(confirmedAtt)
          /\ ResetFee
          /\ SendConfirmedHash(attestation.root)
          /\ state' = "ASTATE_NEXT_COMMITMENT"
          /\ Sleep(atimeNewAttestation - Elapsed)
          /\ Tick
       \/ /\ Elapsed <= atimeHandleUnconfirmed
          /\ ~Mined(attestation.txid)
          /\ NoFault
          /\ Sleep(ATIME_CONFIRMATION)
          /\ Tick
          /\ UNCHANGED <<state, attestation, fee, storeVars, signerVars>>

\* ASTATE_HANDLE_UNCONFIRMED: bump the fee of the in-flight tx and publish
\* it again for signing; its scriptSigs are cleared, its Txid left as is.
doStateHandleUnconfirmed ==
    /\ state = "ASTATE_HANDLE_UNCONFIRMED"
    /\ UNCHANGED <<chainVars, storeVars>>
    /\ \/ /\ Fault
          /\ Failure
          /\ UNCHANGED <<attestation, fee, signerVars>>
       \/ /\ NoFault
          /\ BumpFee
          /\ attestation' = [attestation EXCEPT !.fee = BumpedFee]
          /\ SendNewTx(Unsigned(attestation'))
          /\ state' = "ASTATE_SIGN_ATTESTATION"
          /\ Sleep(ATIME_SIGS)
          /\ Tick

\* The process dies (killed, or a nil dereference after an ignored RPC error
\* in stateInitUnconfirmed / stateInitUnspent) and is started again:
\* NewAttestService and Run rebuild the in-memory state.
Crash ==
    /\ Fault
    /\ state' = "ASTATE_INIT"
    /\ attestation' = NewAttestationDefault
    /\ attestDelay' = ATIME_STARTUP
    /\ sinceConfirm' = SinceCap
    /\ fee' = FeeBase
    /\ UNCHANGED <<chainVars, storeVars, signerVars>>

---------------------------------------------------------------------------

\* The first attestation of a running system: mined on InitTx, stored as
\* confirmed.
FirstAttestation == [prev |-> InitTx, root |-> 1, fee |-> FeeMin, signRoot |-> 0]

Init ==
    /\ state = "ASTATE_INIT"
    /\ attestation = NewAttestationDefault
    /\ attestDelay = ATIME_STARTUP
    /\ sinceConfirm = SinceCap
    /\ fee = FeeBase
    /\ faults = 0
    /\ mempool = {}
    /\ sent = IF StartRunning THEN {FirstAttestation} ELSE {}
    /\ chain = IF StartRunning THEN <<FirstAttestation>> ELSE <<>>
    /\ funded \in IF StartRunning THEN {TRUE} ELSE BOOLEAN
    /\ records = IF StartRunning
                 THEN {[txid |-> FirstAttestation, root |-> 1, confirmed |-> TRUE]}
                 ELSE {}
    /\ lastWritten = IF StartRunning THEN {[txid |-> FirstAttestation, root |-> 1]}
                     ELSE {}
    /\ clientCommit = 1
    /\ merkleCommitments = IF StartRunning THEN CommitmentDocs(1, NumClients) ELSE {}
    /\ merkleProofs = IF StartRunning THEN ProofDocs(1, NumClients) ELSE {}
    /\ confirmedHash = IF StartRunning THEN 1 ELSE NoHash
    /\ newHash = IF StartRunning THEN 1 ELSE NoHash
    /\ newTx = NoTx

doAttestation ==
    \/ doStateError
    \/ doStateInit
    \/ doStateNextCommitment
    \/ doStateNewAttestation
    \/ doStateSignAttestation
    \/ doStatePreSendStore
    \/ doStateSendAttestation
    \/ doStateAwaitConfirmation
    \/ doStateHandleUnconfirmed

Environment ==
    \/ NewClientCommitment /\ UNCHANGED <<driverVars, signerVars, faults, chainVars>>
    \/ FundInitTx /\ UNCHANGED <<driverVars, signerVars, faults, storeVars>>
    \/ \E t \in sent : Mine(t) /\ UNCHANGED <<driverVars, signerVars, faults, storeVars>>
    \/ \E t \in mempool : Fault /\ Evict(t) /\ UNCHANGED <<driverVars, signerVars, storeVars>>
    \/ \E t \in sent : Rebroadcast(t) /\ UNCHANGED <<driverVars, signerVars, faults, storeVars>>
    \/ Crash

Next == doAttestation \/ Environment

\* The timer always fires again; the chain eventually mines a valid spend
\* that stays in the mempool, the wallet keeps re-broadcasting its pending
\* transaction, and the operator eventually funds the wallet.
Fairness ==
    /\ WF_vars(doAttestation)
    /\ WF_vars(\E t \in mempool : Mine(t) /\ UNCHANGED <<driverVars, signerVars, faults, storeVars>>)
    /\ WF_vars(\E t \in sent : Rebroadcast(t) /\ UNCHANGED <<driverVars, signerVars, faults, storeVars>>)
    /\ WF_vars(FundInitTx /\ UNCHANGED <<driverVars, signerVars, faults, storeVars>>)

Spec == Init /\ [][Next]_vars
FairSpec == Spec /\ Fairness

---------------------------------------------------------------------------
(* Properties                                                              *)

TxShape(t) ==
    t = InitTx \/ (t.root \in Roots /\ t.fee \in FeeLevels /\ t.signRoot \in 0..NumCommits)

TypeOK ==
    /\ state \in States
    /\ attestation.root \in 0..NumCommits
    /\ attestation.confirmed \in BOOLEAN
    /\ attestation.txid = NoTx \/ TxShape(attestation.txid)
    /\ attestDelay \in Int
    /\ sinceConfirm \in 0..SinceCap
    /\ fee \in FeeLevels
    /\ faults \in 0..MaxFaults
    /\ funded \in BOOLEAN
    /\ \A t \in ChainTxs \cup mempool \cup sent : TxShape(t)
    /\ mempool \subseteq sent
    /\ clientCommit \in Roots
    /\ merkleCommitments \subseteq [root : Roots, pos : Positions, commitment : Roots \X Positions]
    /\ merkleProofs \subseteq [root : Roots, pos : Positions, proof : Roots \X Positions]
    /\ confirmedHash \in {NoHash} \cup 0..NumCommits
    /\ newHash \in {NoHash} \cup Roots

\* Persist before broadcast (doStatePreSendStore before
\* doStateSendAttestation): every transaction the node has ever accepted
\* has an attestation document with its txid and root, so that Init can
\* recover it after a crash, a lost reply or an eviction.
PersistBeforeBroadcast ==
    \A t \in sent : \E r \in records : r.txid = t /\ r.root = t.root

\* Confirmed means mined: the store marks an attestation confirmed
\* (doStateAwaitConfirmation, stateInitUnspent) only when its transaction
\* is on the chain, even when a replaced or re-broadcast spend won the race.
ConfirmedMeansMined ==
    \A r \in records : r.confirmed => r.txid \in ChainTxs

\* Buried attestations are recorded: every attestation below the tip of
\* the staychain is stored as confirmed.  The driver builds on the tip it
\* re-reads in doStateNewAttestation, which may have moved since it last
\* recorded a confirmation.
BuriedAttestationsConfirmed ==
    \A i \in 1..(Len(chain) - 1) :
        \E r \in records : r.txid = chain[i] /\ r.confirmed

\* Proofs of buried attestations are served: for every attestation below
\* the tip, the MerkleCommitment and MerkleProof collections hold the
\* commitment and the proof of every client position of its root.  A
\* confirmed update that fails half way through saveCommitment must be
\* repaired by the retry through Init before the driver builds on it, and
\* the per-position upserts of a later root must not overwrite them.
BuriedCommitmentsStored ==
    \A i \in 1..(Len(chain) - 1) :
        /\ CommitmentDocs(chain[i].root, NumClients) \subseteq merkleCommitments
        /\ ProofDocs(chain[i].root, NumClients) \subseteq merkleProofs

\* Every attestation document is for a transaction signed for the output it
\* spends: the local key in doStateSignAttestation is tweaked by the root
\* of the previous attestation, as spec 4.1 and 4.2 require.
StoredTxsSpendable ==
    \A r \in records : r.txid \in ChainTxs \/ Valid(r.txid)

\* The staychain attests newer and newer ingested commitments: mined roots
\* strictly increase and never exceed the newest client commitment.
Abstract == INSTANCE Staychain
    WITH attested <- [i \in 1..Len(chain) |-> chain[i].root],
         latest <- clientCommit

StaychainRefinement == Abstract!Spec

\* The signers are primed when their signatures are collected: in
\* SignAttestation they hold, as the last confirmed-hash, the root of the
\* output the tx spends (their keys are tweaked by it) and, as the last
\* new-tx, exactly the unsigned tx being signed.  Confirmations are found
\* by doStateAwaitConfirmation or, after an error or a restart, by
\* stateInitUnspent; the signers outlive driver restarts, and a tx found in
\* the mempool by stateInitUnconfirmed is not announced again.
SignersPrimed ==
    state = "ASTATE_SIGN_ATTESTATION" =>
        /\ confirmedHash = attestation.prev.root
        /\ newTx = Unsigned(attestation)

\* A new round builds its transaction at the base fee: when the driver
\* enters NewAttestation for a new commitment, the fee level raised by the
\* bumps of an earlier round has been reset.  AwaitConfirmation resets it
\* (ResetFee after the confirmed update); spec 4.1 says no partial state
\* leaks across an Error -> Init reset, yet stateInitUnspent reaches
\* NextCommitment from a confirmation without a reset.
NewRoundAtBaseFee == state = "ASTATE_NEW_ATTESTATION" => fee = FeeBase

\* Once ingestion stops, the newest client commitment is eventually
\* attested on the chain and stays the tip.
LatestEventuallyAttested == <>[](TipRoot = clientCommit)

=============================================================================
