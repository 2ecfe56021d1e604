\* First start against a fresh store with the store code as it is in src:
\* a lookup of a missing attestation document returns an error.
CONSTANTS
    NoTx = NoTx
    NumCommits <- MCNumCommits
    FeeMin <- MCFeeMin
    FeeMax <- MCFeeMax
    FeeIncrement <- MCFeeIncrement
    FeeRegtestBase <- MCFeeRegtestBase
    Regtest = FALSE
    NotFoundIsError = TRUE
    NumClients = 2
    StartRunning = FALSE
    NewAttestationMinutes = 0
    HandleUnconfirmedMinutes = 15
    MaxFaults = 0
SPECIFICATION FairSpec
PROPERTY LatestEventuallyAttested
