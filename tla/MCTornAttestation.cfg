\* getAttestationCommitment read while a newer commitment is ingested.
CONSTANTS
    NumClients = 3
    NumCommits = 3
SPECIFICATION Spec
INVARIANT AttestationCommitmentExact
