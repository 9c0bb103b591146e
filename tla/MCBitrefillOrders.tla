------------------------- MODULE MCBitrefillOrders -------------------------
(* Two purchases of one buyer's wallet, of one quote (or of two); or one by *)
(* the Firefly device, which Bankr's endpoint may fulfil as well, beside    *)
(* one of the operator's wallet.                                            *)
EXTENDS BitrefillOrders

CONSTANTS q1, q2, w1, w2, f1, o1, c1, alice

MCOneQuote == [b \in Buys |-> IF b \in UserBuys THEN q1 ELSE q2]
MCTwoQuotes == [b \in Buys |-> IF b = w1 THEN q1 ELSE q2]
MCBuyOf == [c \in BankrCalls |-> f1]
MCBuyerOf == [b \in Buys |-> IF b \in UserBuys THEN alice ELSE Nobody]
MCRequests == {UserBuys, Buys \ UserBuys}
=============================================================================
