----------------------------- MODULE MCCodeTask -----------------------------
(* Instances of CodeTask for TLC.                                           *)
EXTENDS CodeTask

PricesUneven == {1, 2, Unpriced}
PricesMixed == {1, Unpriced}
PricesReplayed == {0, 1, Unpriced}
=============================================================================
