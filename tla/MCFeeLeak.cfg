\* Restart against a confirmed staychain, no faults at all: a bump whose
\* original tx is mined before the bumped one is sent leads through Error
\* and Init to a new round at the bumped fee.
CONSTANTS
    NoTx = NoTx
    NumCommits <- MCNumCommits
    FeeMin <- MCFeeMin
    FeeMax <- MCFeeMax
    FeeIncrement <- MCFeeIncrement
    FeeRegtestBase <- MCFeeRegtestBase
    Regtest = FALSE
    NotFoundIsError = TRUE
    NumClients = 2
    StartRunning = TRUE
    NewAttestationMinutes = 0
    HandleUnconfirmedMinutes = 15
    MaxFaults = 0
SPECIFICATION Spec
INVARIANT NewRoundAtBaseFee
