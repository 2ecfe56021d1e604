-------------------------- MODULE LatestCommitment --------------------------
(***************************************************************************)
(* The reads of the LatestCommitment collection (server/db_mongo.go in     *)
(* src/main/requestroutes.go): getLatestCommitment and                    *)
(* getAttestationCommitment, each a Find with a cursor over the rows,      *)
(* one row per client position holding the client's commitment hash and  *)
(* the merkle_root of the commitment the row belongs to.  The cursor       *)
(* decodes one row at a time and the Find runs without a snapshot, so the *)
(* client ingestion (not under src/) may replace the rows between two     *)
(* reads.  Ingestion is taken at its most favourable: it replaces all the *)
(* rows of a new commitment in one atomic step.  Commitment k holds the   *)
(* leaf <<k, p>> at client position p; models.NewCommitment is kept as   *)
(* the list of leaves it builds its Merkle tree from, so two commitments   *)
(* are equal exactly when their leaves are.                               *)
(***************************************************************************)
EXTENDS Integers, Sequences

CONSTANTS
    NumClients,     \* client positions (rows of LatestCommitment)
    NumCommits      \* commitments ingested, one after the other

VARIABLES
    latest,         \* the commitment whose rows LatestCommitment holds
    pc,             \* the caller: "idle", "reading" (cursor open), "done"
    call,           \* the DbMongo method being run
    filterRoot,     \* merkle_root filter of the Find (NoRoot: no filter)
    cursor,         \* rows of the cursor consumed so far
    hashes,         \* commitmentHashes: the leaves decoded so far
    err             \* the method returned an error

vars == <<latest, pc, call, filterRoot, cursor, hashes, err>>

Positions == 0..(NumClients - 1)

Commits == 1..NumCommits

NoRoot == 0

\* The commitment hash of client position p in commitment k.
Leaf(k, p) == <<k, p>>

\* The commitment hashes of commitment k, in client position order.
CommitmentLeaves(k) == [i \in 1..NumClients |-> Leaf(k, i - 1)]

\* findopt.Sort(client_position: 1): the i-th row the cursor returns.
SortedPosition(i) == i

Init ==
    /\ latest = 1
    /\ pc = "idle"
    /\ call = "getLatestCommitment"
    /\ filterRoot = NoRoot
    /\ cursor = 0
    /\ hashes = <<>>
    /\ err = FALSE

\* Open a cursor over the rows matching filter r, sorted by client_position.
OpenCursor(m, r) ==
    /\ pc \in {"idle", "done"}
    /\ pc' = "reading"
    /\ call' = m
    /\ filterRoot' = r
    /\ cursor' = 0
    /\ hashes' = <<>>
    /\ err' = FALSE
    /\ UNCHANGED latest

\* getLatestCommitment: Find over all rows.
GetLatestCommitment == OpenCursor("getLatestCommitment", NoRoot)

\* getAttestationCommitment: FindOne of the attestation by txid gives its
\* merkle_root r (a commitment attested before, or the current one); the
\* rows are then filtered by that merkle_root.
GetAttestationCommitment ==
    \E r \in 1..latest : OpenCursor("getAttestationCommitment", r)

\* getAttestationCommitment: no attestation with that txid; Decode fails
\* with ErrNoDocuments.
AttestationDocMissing ==
    /\ pc \in {"idle", "done"}
    /\ pc' = "done"
    /\ call' = "getAttestationCommitment"
    /\ err' = TRUE
    /\ UNCHANGED <<latest, filterRoot, cursor, hashes>>

\* Mutant of ReadRow: the loop reads on past the last row of the cursor.
ReadRowPastEnd ==
    /\ pc = "reading"
    /\ hashes' = Append(hashes, Leaf(latest, SortedPosition(cursor)))
    /\ cursor' = cursor + 1
    /\ UNCHANGED <<latest, pc, call, filterRoot, err>>

\* res.Next / res.Decode: the next row in sort order, as it is now; a row
\* that no longer matches the merkle_root filter is not returned.  The
\* driver hands res.Next the rows of a batch the server has already
\* scanned; the step stands for the server's scan of that row (or a
\* getMore), which MongoDB does not isolate from concurrent writes.
ReadRow ==
    LET p == SortedPosition(cursor) IN
    /\ pc = "reading"
    /\ cursor < NumClients
    /\ hashes' = IF filterRoot \in {NoRoot, latest}
                 THEN Append(hashes, Leaf(latest, p))
                 ELSE hashes
    /\ cursor' = cursor + 1
    /\ UNCHANGED <<latest, pc, call, filterRoot, err>>

\* An error of Find, of Decode, of NewHashFromStr or of res.Err: the
\* method returns at once.
CursorError ==
    /\ pc = "reading"
    /\ pc' = "done"
    /\ err' = TRUE
    /\ UNCHANGED <<latest, call, filterRoot, cursor, hashes>>

\* The cursor is exhausted: models.NewCommitment of the hashes read, an
\* error for an empty list.
NewCommitment ==
    /\ pc = "reading"
    /\ cursor = NumClients
    /\ pc' = "done"
    /\ err' = (hashes = <<>>)
    /\ UNCHANGED <<latest, call, filterRoot, cursor, hashes>>

\* Client ingestion (outside src/) makes the next commitment the content
\* of LatestCommitment, all rows at once.
Ingest ==
    /\ latest < NumCommits
    /\ latest' = latest + 1
    /\ UNCHANGED <<pc, call, filterRoot, cursor, hashes, err>>

Next ==
    \/ GetLatestCommitment
    \/ GetAttestationCommitment
    \/ AttestationDocMissing
    \/ ReadRow
    \/ CursorError
    \/ NewCommitment
    \/ Ingest

Spec == Init /\ [][Next]_vars

---------------------------------------------------------------------------
(* Properties                                                              *)

TypeOK ==
    /\ latest \in Commits
    /\ pc \in {"idle", "reading", "done"}
    /\ call \in {"getLatestCommitment", "getAttestationCommitment"}
    /\ filterRoot \in {NoRoot} \cup Commits
    /\ cursor \in 0..NumClients
    /\ hashes \in Seq(Commits \X Positions)
    /\ Len(hashes) <= cursor
    /\ err \in BOOLEAN

\* getAttestationCommitment returns the commitment the attestation
\* attested (spec 4.4: "the commitment attested by a given tx"), or an
\* error: never the leaves of some positions only.
AttestationCommitmentExact ==
    pc = "done" /\ call = "getAttestationCommitment" /\ ~err =>
        hashes = CommitmentLeaves(filterRoot)

=============================================================================
