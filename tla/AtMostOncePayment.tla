-------------------------- MODULE AtMostOncePayment --------------------------
(***************************************************************************)
(* What the Ledger lane promises its owner: a request is given to the      *)
(* payer at most once, never while purchases are paused and never after    *)
(* its approval lapsed; while the outcome of one is not established no     *)
(* other is given to the payer; a request reported dead (failed, cancelled *)
(* or expired) was never given to the payer and never will be.             *)
(***************************************************************************)
EXTENDS Naturals

CONSTANT Requests

VARIABLES
  sent,    \* how often each request was given to the payer
  open,    \* those given whose outcome is not established
  dead,    \* requests reported as never to be paid
  paused,  \* purchases are paused
  lapsed   \* requests whose approval is over its time

vars == <<sent, open, dead, paused, lapsed>>

Init ==
  /\ sent = [r \in Requests |-> 0]
  /\ open = {} /\ dead = {} /\ lapsed = {}
  /\ paused = FALSE

Send(r) ==
  /\ sent[r] = 0 /\ r \notin dead \cup lapsed
  /\ ~paused
  /\ open = {}
  /\ sent' = [sent EXCEPT ![r] = 1]
  /\ open' = {r}
  /\ UNCHANGED <<dead, paused, lapsed>>

Confirm(r) ==
  /\ r \in open
  /\ open' = open \ {r}
  /\ UNCHANGED <<sent, dead, paused, lapsed>>

Kill(r) ==
  /\ sent[r] = 0
  /\ dead' = dead \cup {r}
  /\ UNCHANGED <<sent, open, paused, lapsed>>

Lapse(S) ==
  /\ lapsed' = lapsed \cup S
  /\ UNCHANGED <<sent, open, dead, paused>>

Toggle ==
  /\ paused' = ~paused
  /\ UNCHANGED <<sent, open, dead, lapsed>>

Next ==
  \/ \E r \in Requests : Send(r) \/ Confirm(r) \/ Kill(r)
  \/ \E S \in SUBSET Requests : Lapse(S)
  \/ Toggle

Spec == Init /\ [][Next]_vars
=============================================================================
