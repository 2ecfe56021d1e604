\* Fault-free restart against a confirmed staychain: the fee-bump path re-signs
\* with the root of the in-flight attestation and stores an unspendable tx.
CONSTANTS
    NoTx = NoTx
    NumCommits <- MCNumCommits
    FeeMin <- MCFeeMin
    FeeMax <- MCFeeMax
    FeeIncrement <- MCFeeIncrement
    FeeRegtestBase <- MCFeeRegtestBase
    Regtest = FALSE
    NotFoundIsError = TRUE
    NumClients = 2
    StartRunning = TRUE
    NewAttestationMinutes = 0
    HandleUnconfirmedMinutes = 15
    MaxFaults = 0
SPECIFICATION Spec
INVARIANT StoredTxsSpendable
