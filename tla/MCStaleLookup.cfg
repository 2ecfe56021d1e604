\* A fault-free restart after a newer commitment was ingested: Init can no
\* longer rebuild the tip commitment, so the newest one is never attested.
CONSTANTS
    NoTx = NoTx
    NumCommits <- MCNumCommits
    FeeMin <- MCFeeMin
    FeeMax <- MCFeeMax
    FeeIncrement <- MCFeeIncrement
    FeeRegtestBase <- MCFeeRegtestBase
    Regtest = FALSE
    NotFoundIsError = TRUE
    NumClients = 2
    StartRunning = TRUE
    NewAttestationMinutes = 0
    HandleUnconfirmedMinutes = 15
    MaxFaults = 0
SPECIFICATION FairSpec
PROPERTY LatestEventuallyAttested
