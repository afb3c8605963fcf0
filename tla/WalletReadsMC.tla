---------------------------- MODULE WalletReadsMC ---------------------------
(* Values for the constants of OrderBilling and WalletReads. *)
EXTENDS WalletReads, TLC

CONSTANTS u1, u2

BillingAmounts == {1, 2}
BillingOpening == u1 :> 3 @@ u2 :> 2
=============================================================================
