---------------------------- MODULE MCSpendLimits ----------------------------
(* A small instance of SpendLimits: one user, one asset, three reserved    *)
(* purchases and one direct one, two days.                                 *)
EXTENDS SpendLimits

CONSTANTS alice, usdc, p1, p2, p3, b1

MCOwnerOf == [i \in Ids |-> alice]
MCAssetOf == [i \in Ids |-> usdc]
MCAmountOf == [i \in Ids |-> IF i = p1 THEN 2 ELSE 1]
=============================================================================
