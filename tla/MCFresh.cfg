\* First start against a fresh store and a wallet that may not be funded
\* yet, with a store lookup of a missing document returning the zero
\* commitment (what stateInitUnspent expects).  A 10-minute new-attestation
\* period is shorter than the first confirmation wait, so the delay set on
\* confirmation (part_000:472) is negative.
CONSTANTS
    NoTx = NoTx
    NumCommits <- MCNumCommits
    FeeMin <- MCFeeMin
    FeeMax <- MCFeeMax
    FeeIncrement <- MCFeeIncrement
    FeeRegtestBase <- MCFeeRegtestBase
    Regtest = FALSE
    NotFoundIsError = FALSE
    NumClients = 2
    StartRunning = FALSE
    NewAttestationMinutes = 10
    HandleUnconfirmedMinutes = 15
    MaxFaults = 2
SPECIFICATION Spec
INVARIANT SignersPrimed
PROPERTY StaychainRefinement
