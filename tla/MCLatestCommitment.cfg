\* Non-snapshot reads of LatestCommitment against atomic ingestion:
\* three client positions and three commitments, so that an ingestion can
\* fall between any two rows of a cursor, twice.
CONSTANTS
    NumClients = 3
    NumCommits = 3
SPECIFICATION Spec
INVARIANT TypeOK
