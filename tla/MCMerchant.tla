----------------------------- MODULE MCMerchant -----------------------------
(* Instances of Merchant for TLC. *)
EXTENDS Merchant, TLC
=============================================================================
