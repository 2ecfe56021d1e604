--------------------------- MODULE SignerTransport ---------------------------
(***************************************************************************)
(* The signer transport (spec 4.3; not under src/): the three              *)
(* fire-and-forget topics the driver publishes to the remote signers.     *)
(* Each variable is the last value of its topic as the connected signers   *)
(* hold it.  The signers run apart from the driver, so they keep what they *)
(* were told across a crash and restart of the driver.  The inbound        *)
(* signature stream drained by GetSigs is not modelled: the signatures are *)
(* combined by the attest client, which is not under src/ either.         *)
(***************************************************************************)
EXTENDS Integers

VARIABLES
    confirmedHash,  \* root of the last confirmed attestation (confirmed-hash)
    newHash,        \* root of the commitment to attest next (new-hash)
    newTx           \* the unsigned tx published for signing (new-tx)

signerVars == <<confirmedHash, newHash, newTx>>

\* Nothing published yet on a topic.
NoHash == -1

\* Mutant of SendConfirmedHash: the publication never reaches the signers.
SendConfirmedHashDropped(h) ==
    UNCHANGED <<confirmedHash, newHash, newTx>>

SendConfirmedHash(h) ==
    /\ confirmedHash' = h
    /\ UNCHANGED <<newHash, newTx>>

SendNewHash(h) ==
    /\ newHash' = h
    /\ UNCHANGED <<confirmedHash, newTx>>

SendNewTx(u) ==
    /\ newTx' = u
    /\ UNCHANGED <<confirmedHash, newHash>>

=============================================================================
