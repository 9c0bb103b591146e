-------------------------- MODULE MCBankrPurchases --------------------------
(* Two requests at a time of one buyer, who buys once or twice. *)
EXTENDS BankrPurchases

CONSTANTS r1, r2, sweep
=============================================================================
