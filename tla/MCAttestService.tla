-------------------------- MODULE MCAttestService --------------------------
(***************************************************************************)
(* Model-checking instance of the attestation driver.  Three client        *)
(* commitments are enough for a staychain of two attestations after the    *)
(* running start and for a commitment to be ingested while another is in   *)
(* flight; two fee levels make the bump reach its ceiling.                 *)
(***************************************************************************)
EXTENDS AttestService

MCNumCommits == 3
MCFeeMin == 1
MCFeeMax == 2
MCFeeIncrement == 1
MCFeeRegtestBase == 2

=============================================================================
