---------------------------- MODULE MCToolPurchase ----------------------------
(* Small instances of ToolPurchase: two requests of one user, the second   *)
(* of which redelivers the first.                                          *)
EXTENDS ToolPurchase

CONSTANTS alice, usdc, a1, a2, r1

MCOwnerOf == [i \in Ids |-> alice]
MCAssetOf == [i \in Ids |-> usdc]
MCAmountOf == [i \in Ids |-> 2]
MCRequestOf == [i \in Ids |-> r1]
=============================================================================
