--------------------------- MODULE MCOperatorLane ---------------------------
(* A small instance of OperatorLane: a policy approved twice, two buy-tool  *)
(* requests of one key, a buy-x402, and a payment handed to the device.     *)
EXTENDS OperatorLane

CONSTANTS g1, g2, a1, t1, t2, x1, weather, p1

MCPolicyOf == [r \in PolicyReqs |-> p1]
MCKeyOf == [r \in ToolReqs |-> weather]
\* The second tool request may be asked for the intent of the first or for a
\* new one.
MCOffersOf == [r \in Requests |->
    IF r = x1 THEN {[intent |-> 2, amount |-> 1, class |-> "api"]}
    ELSE IF r \in {a1, t1} THEN {[intent |-> 1, amount |-> 2, class |-> "api"]}
    ELSE {[intent |-> i, amount |-> 2, class |-> "api"] : i \in {1, 2}}]
MCClass == [p \in Policies |-> "api"]
MCMax == [p \in Policies |-> 2]
MCBudget == [p \in Policies |-> 3]
=============================================================================
