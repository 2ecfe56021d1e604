\* Restart against a staychain with one confirmed attestation: safety of the
\* store and the chain, and refinement of Staychain, under up to 3 faults.
CONSTANTS
    NoTx = NoTx
    NumCommits <- MCNumCommits
    FeeMin <- MCFeeMin
    FeeMax <- MCFeeMax
    FeeIncrement <- MCFeeIncrement
    FeeRegtestBase <- MCFeeRegtestBase
    Regtest = FALSE
    NotFoundIsError = TRUE
    NumClients = 2
    StartRunning = TRUE
    NewAttestationMinutes = 0
    HandleUnconfirmedMinutes = 15
    MaxFaults = 3
SPECIFICATION Spec
INVARIANT TypeOK
INVARIANT PersistBeforeBroadcast
INVARIANT SignersPrimed
INVARIANT ConfirmedMeansMined
INVARIANT BuriedAttestationsConfirmed
INVARIANT BuriedCommitmentsStored
PROPERTY StaychainRefinement
