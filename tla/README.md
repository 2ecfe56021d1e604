# TLA+ models of the mainstay attestation service

This directory models the mainstay attestation service in TLA+. The service anchors client
commitments (Merkle roots) in a chain of transactions on a parent chain.
That chain of transactions is the *staychain*. Each transaction spends the
output of the one before it, and that output is locked by a multisig key
tweaked with the root it attests.

The source is laid out as follows:

| File | Contents |
|---|---|
| `src/unnamed/part_000` | The attestation driver: package `attestation`, `AttestService`. |
| `src/main/requestroutes.go` | The HTTP router, followed by the MongoDB store `DbMongo`. |
| `src/unnamed/part_001` | Configuration tests, then the `requestapi` HTTP handlers. |

## 1. Survey

### Components and how they interact

| Component | Source | State | Operations |
|---|---|---|---|
| Attestation driver | part_000 | `state`, `attestation` (txid, root, confirmed, tx), the globals `attestDelay`, `confirmTime`, `atimeNewAttestation`, `atimeHandleUnconfirmed` | `Run` (timer loop), `doAttestation` and one handler per `AttestationState`, `setFailure` |
| Attestation store | requestroutes.go 58-333 | The collections Attestation (keyed by txid and merkle_root, with confirmed and inserted_at), LatestCommitment, MerkleCommitment and MerkleProof | `saveAttestation`, `saveCommitment`/`saveMerkleCommitments`/`saveMerkleProofs`, `getLatestAttestedCommitmentHash`, `getLatestCommitment`, `getAttestationCommitment` |
| Parent chain node and wallet | not in src | The mempool, the blocks, and the wallet's own transactions | `listunspent`, `getrawmempool`, `getrawtransaction`, `gettransaction`, `sendrawtransaction`; mining, eviction, rebroadcast |
| Attest client | not in src | The fee policy (current, min, max, increment) | key tweak, `createAttestation`, `signAttestation`, `sendAttestation`, `bumpAttestationFees`, `ResetFee` |
| Signer transport | not in src (called from part_000 216, 303, 361, 378, 469, 497) | What the remote signers were last told on each topic; queued signatures | publish new-hash, new-tx and confirmed-hash; `GetSigs` |
| Commitment ingestion | not in src | Writes LatestCommitment | — |
| HTTP API | requestroutes.go 1-59, part_001 504-568 | A request channel and a response channel, shared by all handlers | `NewRouter`/`makeHandler` and the `Index`/`Block`/`BestBlock`/... handlers |
| Configuration | part_001 1-491 (tests) | `InitTx`, timing, `Regtest`, fees, signers | — |

The driver is single-threaded. On each timer tick it runs one handler.

- The handler calls the wallet, the store and the signers.
- It sets the next state and the next delay.
- Any error goes through `setFailure` to `ASTATE_ERROR`, and the next tick returns to `ASTATE_INIT`.

`Init` rebuilds what the driver is doing from on-chain reality and the store:

- a wallet tx in the mempool means the driver waits for its confirmation;
- otherwise the wallet's unspent tip means a new commitment can be attested.

The store is shared with the HTTP side and with ingestion. Ingestion keeps moving the newest commitment forward, independently of the driver.

The HTTP side is concurrent. net/http runs each request in its own goroutine. Every routed handler except `Index` sends its `models.Request` on the shared `channel.Requests`, then takes the next value of `channel.Responses`. The request service (not under src/) answers one request at a time.

### Hard behaviours

- **Crashes.** A crash can come from a kill or from a panic, for example the nil `rawTx` after an ignored RPC error at part_000:181-182 and 202-205. A crash loses the in-memory attestation, the fee level and `confirmTime`.
- **Lost send reply.** The node may have accepted a tx even when `sendAttestation` reports an error.
- **Eviction and replacement.** The wallet still lists an evicted or replaced tx, and that hides the tip from `listunspent`.
- **Timeout versus mining.** The handle-unconfirmed timeout races the mining of the original tx. Fee bumping (RBF) then puts two spends of the tip in play.
- **Store write failure.** The write that records a confirmation can fail after the in-memory flag has been set.
- **Stale store reads.** Two reads can return stale data: the "latest attestation" (newest document, confirmed or not) and the commitment of a stored attestation, which is read through LatestCommitment.
- **Ingestion during a round.** Ingestion can run while an attestation is in flight.
- **Reads without a snapshot.** `getLatestCommitment` and `getAttestationCommitment` decode the LatestCommitment rows one at a time, and ingestion can replace the rows between two of these reads.
- **Partial store writes.** `saveCommitment` stops at the first failing upsert, which can leave an attestation with only some of its commitments and none of its proofs.
- **Shared response channel.** Any waiting handler may take the response the service sends.
- **Signers outlive the driver.** The remote signers keep the last confirmed-hash and new-tx they were sent. After a restart, `stateInitUnconfirmed` resumes a mempool tx without announcing anything again.
- **State that survives a reset.** The fee level is process state, and it is not re-derived by `Init`.

### Properties each component needs

- **Driver:**
  - a tx is persisted before it is broadcast;
  - the chain only ever attests newer ingested commitments (refinement of `Staychain`);
  - the newest commitment is eventually attested;
  - when signatures are collected, the signers hold the root of the spent output and the tx being signed;
  - a new round starts at the base fee.
- **Store:**
  - a confirmed document is on the chain;
  - every buried attestation is recorded as confirmed;
  - every stored tx spends its tip validly;
  - every buried attestation has all its Merkle commitments and proofs stored;
  - `getAttestationCommitment` returns the commitment the tx attested, or an error.
- **HTTP API:**
  - each handler writes the response to its own request, once (refinement of `ApiContract`).
- **Fee policy:**
  - the fee stays within [min, max] (type invariant).

## 2. Plan

| Module | Models | Composes |
|---|---|---|
| `Staychain` | The abstract promise: attested roots strictly increase and never pass the newest ingested commitment. | — |
| `ParentChain` | Node, mempool, miners and wallet (from the spec). | — |
| `Store` | The Attestation, MerkleCommitment and MerkleProof collections, and the store reads the driver makes, each read atomic. | — |
| `LatestCommitment` | The two cursor reads of LatestCommitment, row by row, against ingestion. | — |
| `FeePolicy` | Bump and reset of the fee level (from the spec). | — |
| `SignerTransport` | The outbound signer topics as the signers hold them (from the spec). | — |
| `AttestService` | The driver: one action per handler, plus Crash and the environment. | `ParentChain`, `Store`, `FeePolicy`, `SignerTransport`; refines `Staychain` |
| `MCAttestService` | Model values and bounds for TLC. | `AttestService` |
| `ApiContract` | The abstract promise of the HTTP API: each request answered atomically with its own response. | — |
| `RequestApi` | The router, the concurrent handlers and the shared channel to the request service. | refines `ApiContract` |
| `MCRequestApi` | Clients, block ids and symmetry for TLC. | `RequestApi` |

The modules were written in the order of the table.

Further work:

1. the inbound signature queue, where signatures of a replaced tx arrive late (needs the attest client's combination rule, which is not in this repository);
2. one-block reorgs of the tip.

## 3. How the modules correspond to the code

**Transactions.** A transaction is its content: `[prev, root, fee, signRoot]`. The txid is its hash, so equal content means an equal txid.

- `signRoot` is the root the local key was tweaked with in `signAttestation`.
- A spend is valid when `signRoot = prev.root` (`Valid`), because the spent output is locked under the key tweaked by its own root.
- Roots are `1..NumCommits` in ingestion order. 0 is the zero hash.

**Driver state (`AttestService`).** The variables follow the code:

| Variable | Code |
|---|---|
| `state` | `s.state` |
| `attestation` | `s.attestation`: txid, root, confirmed, and the unsigned tx as `prev`/`fee` |
| `attestDelay` | the global `attestDelay` |
| `sinceConfirm` | `time.Since(confirmTime)` in seconds, capped one past `atimeHandleUnconfirmed`, the only value it is compared with |
| `fee` | the attest client's fee level |

Each tick is one action, named after the handler it runs (`doStateInit`, `stateInitUnspent`, ...). Each action carries:

- the handler's guards, in code order, with its `setFailure` early returns: a `Fault` followed by `Failure`;
- the handler's store writes and its publications to the signers;
- the delay it sets (`Sleep`), including the regtest override of `Run`;
- the time advance of the tick (`Tick`).

`Crash` is a restart through `NewAttestService` and `Run`. It puts the driver back to `INIT`, with the default attestation, a 30 s delay and the base fee.

**Store (`Store`).**

- `records` is the Attestation collection. `SaveAttestationDoc` is the upsert of `saveAttestation`, keyed by `(txid, root)` (`RecordKey`).
- `merkleCommitments` and `merkleProofs` are the MerkleCommitment and MerkleProof collections. Each document holds a root, a client position and the commitment or proof for that pair. `CommitmentDocs`/`ProofDocs` are the documents of `saveMerkleCommitments`/`saveMerkleProofs`, upserted by `(root, position)` (`MerkleKey`, `Upsert`).
- `UpdateLatestAttestation` (server code, not under src/, modelled from the spec) performs `NumWrites` upserts in order: the attestation, then, if it is confirmed, one commitment per position, then one proof per position (`WritePrefix`).
- `UpdateLatestAttestationFails` is a write error at any of those upserts: a prefix of them is applied and the rest are not, because `saveCommitment` returns at the first error. Whether the failing upsert itself took effect is open, since the error comes from `Decode` of its reply.
- `lastWritten` is the key with the newest `inserted_at`, which is what `getLatestAttestedCommitmentHash` returns.
- `AttestationLookupFails` is `getAttestationCommitment`. It fails on a missing document when `NotFoundIsError` is set, and it fails when LatestCommitment no longer holds the stored root. The resulting empty list is an error of `models.NewCommitment`, which is not under src/.
- `clientCommit` is the LatestCommitment collection.

**Signer transport (`SignerTransport`).** The transport code is not under src/ and is modelled from spec 4.3. The variables are what the remote signers were last told on each fire-and-forget topic:

- `confirmedHash` is set by `SendConfirmedHash`, from `stateInitUnspent` (part_000:216, the zero hash for the funding tx) and `doStateAwaitConfirmation` (469).
- `newHash` is set by `SendNewHash` from `doStateNextCommitment` (303).
- `newTx` is set by `SendNewTx` from `doStateNewAttestation` (361) and `doStateHandleUnconfirmed` (497). It holds the unsigned tx (`Unsigned`: spent output, root, fee).

A driver `Crash` leaves these variables alone, because the signers are separate processes.

**LatestCommitment reads (`LatestCommitment`).** `Store` treats each read as one step. This module opens the cursor and follows it row by row.

- `latest` is the commitment whose rows the collection holds. `Ingest` replaces all rows at once. This is the most favourable form ingestion can take for the readers, and its code is not under src/.
- `GetLatestCommitment` (requestroutes.go:253-260) and `GetAttestationCommitment` (290-306) open the cursor through `OpenCursor`. `GetAttestationCommitment` filters on the merkle_root of the attestation document. `AttestationDocMissing` is the FindOne early return.
- `ReadRow` (264-277) decodes the next row in `client_position` order (`SortedPosition`, line 255), as the row is at that moment. A row that no longer matches the filter is not returned.
- `CursorError` stands for every error return of the Find, the Decode, the hash parse and `res.Err`. `NewCommitment` (282-286) fails on an empty list.
- A commitment is the list of its leaves; leaf `<<k, p>>` is client position `p` in commitment `k`. `ReadRow` stands for the server's scan of one row. With three rows, `Find` hands the driver the whole first batch at once, so the tear happens inside the server's scan (or a getMore), which MongoDB does not isolate from concurrent writes.

**Parent chain (`ParentChain`).**

- The wallet hides the tip from `listunspent` while one of its transactions spends it (`PendingSpend`).
- The node accepts a valid, higher-fee spend of the tip (`Accepts`).
- Any valid wallet spend of the tip may be mined, including a replaced one.

**HTTP API (`RequestApi`).**

- `pc[c]` is where the handler goroutine of request `c` is: `idle`, `send` (at `channel.Requests <- request`), `recv` (at `<- channel.Responses`) or `done` (encoding).
- `ServeHTTP` is the router's dispatch through `makeHandler`. It only happens for the routes of the `routes` table (`RouteRequests`). `Index` writes its page and never uses the channel.
- `models.NewChannel` makes both channels unbuffered, so `SendRequest` and `RecvResponse` are rendezvous with the request service (`service`): a send completes only when the service is receiving, and a receive only when it is sending.
- `Serve` is the service computing its answer. A response is modelled as the request it answers.
- `ApiContract` is what the API promises. A caller's request becomes pending, then is answered with its own response, and the caller is then free again. `Index` is answered at once. The mapping calls a handler pending from `ServeHTTP` until its receive, and answered from its receive until `Encode`.
- The route table declares handlers of type `func(..., chan Request)`, while the part_001 handlers take `*models.Channel`. The model follows the handler bodies.

**Faults and time.** Faults, evictions and crashes share the budget `MaxFaults`. The time abstraction keeps only the comparison `Elapsed > atimeHandleUnconfirmed`.

## 4. Runs

All runs use fee levels 1..2 with increment 1 and `NewAttestationMinutes = 0`, which selects the 60-minute default. The exception is `MCFresh`, which uses 10 minutes, so the delay set on confirmation (part_000:472) is negative. They use 3 commitments and `HandleUnconfirmedMinutes = 15`, except `MCLive`, which uses 1 commitment and the 60-minute default timeout.

| Run | cfg | Expect | What it shows |
|---|---|---|---|
| running | MCRunning.cfg | pass | Restart against a confirmed staychain, with up to 3 faults (any mix of RPC/store errors including partial store writes, lost reply, eviction, crash). TLC checks `TypeOK`, `PersistBeforeBroadcast`, `ConfirmedMeansMined`, `BuriedAttestationsConfirmed`, `BuriedCommitmentsStored`, `SignersPrimed`, and the refinement `StaychainRefinement`. |
| fresh | MCFresh.cfg | pass | First start on the funding tx, with a wallet that may be funded late and missing documents read as the zero commitment, and a 10-minute new-attestation period, so the delay set on confirmation is negative. TLC checks `SignersPrimed` through the zero-root branch of `stateInitUnspent`, which primes the signers with the default hash, and `StaychainRefinement` from an empty staychain. The type invariant and store-before-send order are checked by `running`; a fresh start only changes `Init`. |
| live | MCLive.cfg | pass | Regtest first start (10 s ticks, so about 360 polls before the timeout; fee base at the ceiling, so every bump is rejected), fault-free, one commitment. Under fairness, `LatestEventuallyAttested` holds through timeouts and rejected bumps. |
| bump_root | MCBumpRoot.cfg | violation | `StoredTxsSpendable` fails with no fault at all (finding 1). |
| fresh_stuck | MCFreshStuck.cfg | violation | `LatestEventuallyAttested` fails: a first start loops between Init and Error (finding 2). |
| request_api | MCRequestApi.cfg | pass | Three concurrent requests over two block ids. TLC checks `ApiRefinement` (every step is a step of `ApiContract`) and that handlers and service never all wait on each other (deadlock). |
| stale_lookup | MCStaleLookup.cfg | violation | `LatestEventuallyAttested` fails: after an ingestion, a return to Init through Error loops between Init and Error (finding 3). |
| latest_commitment | MCLatestCommitment.cfg | pass | `getLatestCommitment` and `getAttestationCommitment` against ingestion between any two rows. TLC checks `TypeOK`: the cursor loop, with every error return, never reads past the cursor. |
| torn_attestation | MCTornAttestation.cfg | violation | `AttestationCommitmentExact` fails: an ingestion while the cursor is open makes `getAttestationCommitment` return the leaves of some positions only (finding 5). |
| fee_leak | MCFeeLeak.cfg | violation | `NewRoundAtBaseFee` fails with no fault: a bumped fee survives a restart into the next round (finding 4). |

**Bounds.** Three commitments are enough for the following to happen:

- a second attestation on top of the first;
- ingestion while one attestation is in flight;
- a refinement step that would repeat a root.

Two fee levels let a bump reach the ceiling. Two client positions let a write fail between the two commitments, between the commitments and the proofs, or between the two proofs.

The LatestCommitment runs use three positions and three commitments. A cursor can then be overtaken between any two rows, twice, and in `torn_attestation` some rows of the attested commitment are read and some are not.

The request API run uses three clients, so that one request can be served while two others wait: one handler waits for a response while another is blocked at its send. Two block ids make two distinct Block requests. Clients are symmetric, since net/http goroutines are interchangeable; the run checks only safety and deadlock, so symmetry is sound.

The liveness run is fault-free with a single commitment because nothing more holds: any fault after PreSendStore (finding 1), or any ingestion before a return to Init (finding 3), stops progress for good. Both have their own violation runs. Three faults cover a fault inside recovery from a fault, for example a crash after a lost reply, followed by an eviction.

**Mutants.** Every property of a passing run is broken by a plausible bug:

| Mutant | Breaks |
|---|---|
| no fee clamp | `TypeOK` |
| PreSendStore skipping the write | `PersistBeforeBroadcast` |
| "confirmed" meaning "in the wallet" | `ConfirmedMeansMined` |
| Init storing the found tip without `Confirmed` | `BuriedAttestationsConfirmed` |
| NextCommitment without the already-attested check | `StaychainRefinement` |
| a missing attestation document always an error | `LatestEventuallyAttested` |
| Merkle upserts filtered by position only, without the root | `BuriedCommitmentsStored` |
| a request service that may drop a request without answering | `ApiRefinement` |
| the LatestCommitment loop reading past the last row | `TypeOK` of `LatestCommitment` |
| a confirmed-hash publication that never reaches the signers | `SignersPrimed` (running and fresh) |

## 5. Fairness

Fairness is only assumed in `FairSpec`, and each part has a justification:

- `WF(doAttestation)`: `Run` rearms its timer after every handler, and the loop only leaves on shutdown.
- Weak fairness of mining a spend that stays in the mempool: miners include a valid tx that remains in the mempool.
- Weak fairness of the wallet's rebroadcast: the node's wallet rebroadcasts its unconfirmed transactions periodically.
- Weak fairness of funding the wallet: the spec's wallet-failure branch waits for the operator.

Faults are not fair, and they are bounded.

## 6. Findings

1. **The fee bump signs with the wrong root** (requestroutes.go:235, part_000:385).
   - `getLatestAttestedCommitmentHash` takes the newest document whether or not it is confirmed.
   - After PreSendStore that document is the in-flight attestation, so a fee bump re-signs with the wrong root. A retry after a failed send does not: it goes through Init, which stores the tip again first (part_000:207). The resulting tx cannot spend the tip.
   - Spec 4.1 says to use the previously-confirmed root.
2. **A first start never leaves Init** (requestroutes.go:294).
   - A missing document is an error, while `stateInitUnspent` expects a zero commitment for the funding tx.
   - The server wrapper that could translate the error is not under src/.
3. **After an ingestion, a return to Init never leaves Init** (requestroutes.go:302). The return is through Error; a process restart does the same.
   - The commitment of a stored attestation is read from LatestCommitment filtered by its root.
   - After a newer commitment is ingested, that read returns nothing, so Init fails on every tick.

4. **A bumped fee leaks into the next round** (part_000:218).
   - Only `doStateAwaitConfirmation` resets the fee (part_000:466). `stateInitUnspent` moves to NextCommitment without `ResetFee`.
   - Fault-free path: a timeout bumps the fee, and the re-signed tx is rejected because the original was mined. Error then Init finds the mined tip, a new commitment arrives, and the next attestation starts at the bumped fee.
   - Spec 4.1 says no partial state leaks across resets.

5. **`getAttestationCommitment` can return a wrong commitment** (requestroutes.go:302).
   - The rows of the attested root are read through a cursor filtered on merkle_root, with no snapshot.
   - If ingestion replaces the rows while the cursor is open, the rest no longer match. `models.NewCommitment` then builds a commitment from the leaves already read, and no error is returned.
   - This holds even when ingestion replaces all rows atomically.
   - `stateInitUnspent` then stores the tip under that root, saves Merkle commitments and proofs for it, and sends it to the signers as the confirmed hash.
   - Spec 4.4 says the method returns the commitment attested by the tx.

## 7. Not modelled

- **Commitment and proof contents.** The documents hold the pair `(root, position)` rather than hashes and proof paths.
- **Outside src/.** The config parsing is not modelled. The signer transport is modelled only as its three outbound topics: the inbound signature stream, signer restarts and lost publications are left out. `newHash` is published but no property reads it, because what the signers do with it is not in this repository. The request service is modelled only as a sequential answerer.
- **Ingestion atomicity.** Ingestion is one atomic step in both `Store` and `LatestCommitment`, because its code is not in this repository. Row-by-row ingestion would only add more torn states. Whether a torn `getLatestCommitment` (a mix of two commitments) does harm depends on how ingestion writes the rows, so no property is stated about it. `AttestService` reads LatestCommitment atomically; the torn reads are checked on their own in `LatestCommitment`, and their effect on the driver is described in finding 5.
- **Wall clock.** `inserted_at` is wall-clock time, but the model has no wall clock. Ticks are at least 5 s apart, so the driver's writes never tie within a second; only a clock step could reorder them.
- **Negative delay** (part_000:472). `Elapsed` fires a non-positive delay at once. The fresh run reaches this case. No property depends on when that tick fires.
- **Liveness of the HTTP API.** With unbuffered rendezvous, a lost or extra message shows up as a deadlock, which the request_api run checks.
- **Block metadata, topup unspent, addresses and scripts.** These are abstracted into the validity rule.
- **Mongo connection** (`dbConnect`, requestroutes.go:83-121). This is pure I/O, and its failures are the store errors of the model.
- **Logging and signer payload encoding.**
- **Never-taken branches.** Two IF branches are never taken in the runs:
  - the unspent-not-found branch of `doStateNewAttestation`: no model step makes the tip disappear between Init and NewAttestation;
  - the lookup failure of `doStateSignAttestation`: it needs an empty store, and with an empty store Init already fails.
