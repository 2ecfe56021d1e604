------------------------------- MODULE Store -------------------------------
(***************************************************************************)
(* The attestation store (server/db_mongo.go, in src/main/requestroutes.go *)
(* lines 58-333).  The Attestation collection is a set of documents keyed  *)
(* by (txid, merkle_root) with a confirmed flag; every upsert refreshes    *)
(* inserted_at, so "the latest attestation" is the document written last.  *)
(* The MerkleCommitment and MerkleProof collections hold one document per *)
(* (merkle_root, client_position); a leaf and a proof are identified by    *)
(* the pair <<root, position>>.  The LatestCommitment collection, which    *)
(* the ingestion side fills, is abstracted to the index of the newest      *)
(* client commitment (commitment roots are 1..NumCommits, 0 is the zero    *)
(* hash).                                                                  *)
(***************************************************************************)
EXTENDS Integers, FiniteSetsExt

CONSTANTS
    NumCommits,       \* number of distinct client commitments ingested
    NotFoundIsError,  \* a lookup of a missing document returns an error
    NumClients        \* client slots (leaves) of every commitment

VARIABLES
    records,          \* Attestation collection: [txid, root, confirmed]
    lastWritten,      \* {key of the document with the newest inserted_at}
    clientCommit,     \* LatestCommitment collection: the newest root
    merkleCommitments,\* MerkleCommitment collection: [root, pos, commitment]
    merkleProofs      \* MerkleProof collection: [root, pos, proof]

storeVars == <<records, lastWritten, clientCommit, merkleCommitments, merkleProofs>>

Roots == 1..NumCommits

Positions == 0..(NumClients - 1)

RecordKey(a) == [txid |-> a.txid, root |-> a.root]

\* saveAttestation: FindOneAndUpdate with upsert on (txid, merkle_root),
\* $set confirmed and inserted_at = now.
SaveAttestationDoc(a) ==
    /\ records' = {r \in records : RecordKey(r) # RecordKey(a)}
                    \cup {[txid |-> a.txid, root |-> a.root, confirmed |-> a.confirmed]}
    /\ lastWritten' = {RecordKey(a)}

\* The filter of the per-position upserts of saveMerkleCommitments and
\* saveMerkleProofs.
\* Mutant of MerkleKey: the filter names the client position only.
MerkleKeyPositionOnly(d) == [pos |-> d.pos]

MerkleKey(d) == [root |-> d.root, pos |-> d.pos]

Upsert(docs, new) ==
    {d \in docs : MerkleKey(d) \notin {MerkleKey(n) : n \in new}} \cup new

\* The documents of the first n positions of the commitment with root r.
CommitmentDocs(r, n) ==
    {[root |-> r, pos |-> p, commitment |-> <<r, p>>] : p \in 0..(n - 1)}

ProofDocs(r, n) ==
    {[root |-> r, pos |-> p, proof |-> <<r, p>>] : p \in 0..(n - 1)}

\* Server.UpdateLatestAttestation (not under src/, spec 4.4): saveAttestation,
\* then, for a confirmed attestation, saveCommitment, which upserts the
\* commitment of every position and then the proof of every position, and
\* returns at the first upsert that fails.  The writes are numbered in that
\* order; the first k of them happen.
NumWrites(a) == 1 + (IF a.confirmed THEN 2 * NumClients ELSE 0)

WritePrefix(a, k) ==
    /\ IF k >= 1 THEN SaveAttestationDoc(a) ELSE UNCHANGED <<records, lastWritten>>
    /\ merkleCommitments' =
          Upsert(merkleCommitments, CommitmentDocs(a.root, Min({NumClients, k - 1})))
    /\ merkleProofs' =
          Upsert(merkleProofs, ProofDocs(a.root, Min({NumClients, k - 1 - NumClients})))
    /\ UNCHANGED clientCommit

UpdateLatestAttestation(a) == WritePrefix(a, NumWrites(a))

\* An update that returns an error: a Decode error after a FindOneAndUpdate
\* leaves it undetermined whether that upsert was applied, so any prefix of
\* the writes, all of them included, may have happened.
UpdateLatestAttestationFails(a) == \E k \in 0..NumWrites(a) : WritePrefix(a, k)

\* getAttestationCommitment: FindOne by txid; a missing document makes
\* Decode fail with ErrNoDocuments.  The commitment is then rebuilt from
\* the LatestCommitment rows whose merkle_root is the document's root:
\* there are none once a newer commitment has been ingested, and
\* models.NewCommitment of an empty list is an error.
AttestationCommitmentFound(txid) == \E r \in records : r.txid = txid

StoredRoot(txid) == (CHOOSE r \in records : r.txid = txid).root

CommitmentRowsFound(txid) == StoredRoot(txid) = clientCommit

AttestationCommitment(txid) ==
    IF AttestationCommitmentFound(txid) THEN StoredRoot(txid) ELSE 0

\* Mutant of AttestationLookupFails: a missing document is always an error.
AttestationLookupFailsOnMissing(txid) ==
    ~AttestationCommitmentFound(txid) \/ ~CommitmentRowsFound(txid)

AttestationLookupFails(txid) ==
    IF AttestationCommitmentFound(txid)
    THEN ~CommitmentRowsFound(txid)
    ELSE NotFoundIsError

\* getLatestAttestedCommitmentHash: FindOne over all attestations sorted by
\* inserted_at descending; the confirmed flag is not part of the filter.
LatestAttestedCommitmentHash ==
    IF lastWritten = {} THEN 0 ELSE (CHOOSE k \in lastWritten : TRUE).root

LatestAttestedLookupFails == NotFoundIsError /\ lastWritten = {}

\* getLatestCommitment: the commitment built from the LatestCommitment rows.
ClientCommitment == clientCommit

\* Ingestion of a newer client commitment (outside src/).
NewClientCommitment ==
    /\ clientCommit < NumCommits
    /\ clientCommit' = clientCommit + 1
    /\ UNCHANGED <<records, lastWritten, merkleCommitments, merkleProofs>>

=============================================================================
