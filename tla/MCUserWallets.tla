---------------------------- MODULE MCUserWallets ----------------------------
(* Small instances of UserWallets: two withdrawals and a /wallet command.    *)
EXTENDS UserWallets

CONSTANTS d1, d2, w1

MCAmountOf == [c \in Withdrawals |-> 2]
MCFunds == [native |-> 4, erc20 |-> 2]
=============================================================================
