----------------------------- MODULE FeePolicy -----------------------------
(***************************************************************************)
(* The fee policy owned by the attest client (spec 4.5).  Not under src/:  *)
(* modelled from the spec.  Fee rates are abstract levels.                 *)
(***************************************************************************)
EXTENDS Naturals

CONSTANTS
    FeeMin,           \* baseline rate
    FeeMax,           \* bump ceiling
    FeeIncrement,     \* bump step
    FeeRegtestBase,   \* baseline in regtest (higher, to exercise bumping)
    Regtest

VARIABLE fee

FeeLevels == FeeMin..FeeMax

\* ResetFee(isRegtest): back to the baseline.
FeeBase == IF Regtest THEN FeeRegtestBase ELSE FeeMin

ResetFee == fee' = FeeBase

\* Mutant of BumpedFee: the increment is added without the clamp.
BumpedFeeUnclamped == fee + FeeIncrement

\* BumpFee: add the increment, clamped to the maximum.
BumpedFee == IF fee + FeeIncrement > FeeMax THEN FeeMax ELSE fee + FeeIncrement

BumpFee == fee' = BumpedFee

=============================================================================
