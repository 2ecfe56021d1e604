----------------------------- MODULE Staychain -----------------------------
(***************************************************************************)
(* What the attestation service promises (spec section 1): the staychain  *)
(* is append-only, and each attestation commits a client commitment that  *)
(* has been ingested and is newer than the one attested before it, so no  *)
(* commitment is attested twice and the chain never goes back to an older *)
(* commitment.  Commitments are numbered in ingestion order.               *)
(***************************************************************************)
EXTENDS Naturals, Sequences, SequencesExt

CONSTANT NumCommits

VARIABLES
    attested,   \* roots attested on the parent chain, in chain order
    latest      \* the newest ingested client commitment

vars == <<attested, latest>>

StrictlyIncreasing(s) == \A i \in 1..(Len(s) - 1) : s[i] < s[i + 1]

Init ==
    /\ latest \in 1..NumCommits
    /\ attested \in Seq(1..latest)
    /\ StrictlyIncreasing(attested)

\* A newer commitment is ingested.
Ingest ==
    /\ latest < NumCommits
    /\ latest' = latest + 1
    /\ UNCHANGED attested

\* An ingested commitment newer than the last attested one is attested.
Attest ==
    /\ \E r \in 1..latest :
          /\ attested = <<>> \/ Last(attested) < r
          /\ attested' = Append(attested, r)
    /\ UNCHANGED latest

Next == Ingest \/ Attest

Spec == Init /\ [][Next]_vars

=============================================================================
