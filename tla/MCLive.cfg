\* Regtest first start (10 s ticks, fee base at the ceiling) against a
\* funding tx, with one client commitment and no faults: under the fairness
\* of the timer, the miners and the wallet rebroadcast, the commitment is
\* eventually attested, through timeouts and rejected fee bumps.
CONSTANTS
    NoTx = NoTx
    NumCommits = 1
    FeeMin <- MCFeeMin
    FeeMax <- MCFeeMax
    FeeIncrement <- MCFeeIncrement
    FeeRegtestBase <- MCFeeRegtestBase
    Regtest = TRUE
    NotFoundIsError = FALSE
    NumClients = 2
    StartRunning = FALSE
    NewAttestationMinutes = 0
    HandleUnconfirmedMinutes = 0
    MaxFaults = 0
SPECIFICATION FairSpec
PROPERTY LatestEventuallyAttested
