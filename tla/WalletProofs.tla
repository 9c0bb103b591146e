----------------------------- MODULE WalletProofs -----------------------------
(***************************************************************************)
(* What leaves a user's own wallets.                                       *)
(*                                                                         *)
(* The ledger lane (LedgerPayments), for any number of requests, threads,  *)
(* crashes and pauses: the inductive invariant IInv, the safety properties *)
(* the runs check, and the refinement of AtMostOncePayment.                *)
(*                                                                         *)
(* The managed wallet (UserWallets), for any number of commands, any       *)
(* number of live tokens and any lifetime: a step of one command leaves    *)
(* the others their wallet and their token, unless as many newer tokens    *)
(* were minted as the gateway keeps.  Tokens and the plugin's copy of one  *)
(* grow older together, so the copy is a tick younger at most.             *)
(***************************************************************************)
EXTENDS LedgerPayments, UserWallets, FiniteSetTheorems, TLAPS

(***************************************************************************)
(* The ledger lane                                                         *)
(***************************************************************************)

Working == Before \cup After
Undone == Dead \cup {"none", "preparing", "pending"}

\* A thread past the transition to executing owns its request: the row is
\* executing and no other thread works on it.
Ownership ==
  /\ \A t \in Threads : pc[t] # "idle" => job[t] \in Requests
  /\ \A t \in Threads : pc[t] \in Working => status[job[t]] = "executing"
  /\ \A t, u \in Threads :
       pc[t] \in Working /\ pc[u] \in Working /\ job[t] = job[u] => t = u

\* Where a request that was given to the payer can be.
Submission ==
  /\ \A r \in Requests : status[r] \in Undone => sent[r] = 0
  /\ \A t \in Threads : pc[t] \in Before => sent[job[t]] = 0
  /\ \A t \in Threads : pc[t] \in After => sent[job[t]] > 0
  /\ SentAtMostOnce

\* The signature is there from acceptance on, and the need for it is fixed.
Signature ==
  /\ \A t \in Threads : pc[t] = "accepted" =>
       /\ status[job[t]] \notin {"none", "preparing"}
       /\ needsSig[job[t]] => job[t] \in consent
  /\ \A r \in Requests :
       status[r] \in Unresolved \cup {"succeeded"} /\ needsSig[r] => r \in consent

\* What each working step holds.
Holdings ==
  /\ IdleHoldsNothing
  /\ SentKeepsEvidence
  /\ \A t \in Threads :
       /\ pc[t] \in {"checking", "reserving", "unclaiming", "failing"} => job[t] \notin budget
       /\ pc[t] \in {"checking", "reserving", "claiming", "failing"} => job[t] \notin claims
       /\ pc[t] \in {"persisting", "gate"} => job[t] \in claims
       /\ pc[t] = "gate" => job[t] \in handles

IInv == TypeOK /\ OneUnresolved /\ Ownership /\ Submission /\ Signature /\ Holdings
-----------------------------------------------------------------------------
\* No request has a row, no thread works: nothing to hold or to sign.
LEMMA InitIInv == Init => IInv
<1> SUFFICES ASSUME Init PROVE IInv
  OBVIOUS
<1> USE LedgerAssumption DEF Init
<1>1. TypeOK
  BY DEF TypeOK, Steps, Waiting, Statuses
<1>2. OneUnresolved
  BY DEF OneUnresolved, Unresolved
<1>3. Ownership
  BY DEF Ownership, Working, Before, After
<1>4. Submission
  BY DEF Submission, SentAtMostOnce, Before, After
<1>5. Signature
  BY DEF Signature, Unresolved
<1>6. Holdings
  BY DEF Holdings, IdleHoldsNothing, SentKeepsEvidence
<1> QED
  BY <1>1, <1>2, <1>3, <1>4, <1>5, <1>6 DEF IInv

\* Every action of every thread and of the environment keeps IInv.
LEMMA StepIInv == IInv /\ [Next]_vars => IInv'
<1> SUFFICES ASSUME IInv, [Next]_vars PROVE IInv'
  OBVIOUS
<1> USE LedgerAssumption
<1> USE DEF IInv, TypeOK, OneUnresolved, Ownership, Submission, Signature, Holdings,
  SentAtMostOnce, IdleHoldsNothing, SentKeepsEvidence,
  Steps, Waiting, Before, After, Working, Undone, Dead, Final,
  Statuses, Unresolved,
  envVars, rowVars, moneyVars, Goto, Begin, Leave, SetStatus,
  Lapsed, Read, StatusRead
<1>1. ASSUME NEW t \in Threads, Decide(t) PROVE IInv'
  <2>1. CASE SetStatus(job[t], "failed") /\ Leave(t)
    BY <1>1, <2>1 DEF Decide
  <2>2. CASE ~(SetStatus(job[t], "failed") /\ Leave(t))
    BY <1>1, <2>2 DEF Decide
  <2> QED
    BY <2>1, <2>2
<1>2. ASSUME NEW t \in Threads, InspectRaises(t) PROVE IInv'
  BY <1>2 DEF InspectRaises
<1>3. ASSUME NEW t \in Threads, Abort(t) PROVE IInv'
  BY <1>3 DEF Abort
<1>4. ASSUME NEW t \in Threads, Cancel(t) PROVE IInv'
  BY <1>4 DEF Cancel
<1>5. ASSUME NEW t \in Threads, AutoApprove(t) PROVE IInv'
  BY <1>5 DEF AutoApprove, MayApprove
<1>6. ASSUME NEW t \in Threads, Execute(t) PROVE IInv'
  BY <1>6 DEF Execute, OthersUnresolved
<1>7. ASSUME NEW t \in Threads, Recheck(t) PROVE IInv'
  BY <1>7 DEF Recheck
<1>8. ASSUME NEW t \in Threads, ReserveBudget(t) PROVE IInv'
  BY <1>8 DEF ReserveBudget
<1>9. ASSUME NEW t \in Threads, ClaimPayment(t) PROVE IInv'
  BY <1>9 DEF ClaimPayment
<1>10. ASSUME NEW t \in Threads, PersistHandles(t) PROVE IInv'
  BY <1>10 DEF PersistHandles
<1>11. ASSUME NEW t \in Threads, Gate(t) PROVE IInv'
  BY <1>11 DEF Gate
<1>12. ASSUME NEW t \in Threads, PayReturns(t) PROVE IInv'
  BY <1>12 DEF PayReturns
<1>13. ASSUME NEW t \in Threads, SaveResult(t) PROVE IInv'
  BY <1>13 DEF SaveResult
<1>14. ASSUME NEW t \in Threads, SettleAccounts(t) PROVE IInv'
  BY <1>14 DEF SettleAccounts
<1>15. ASSUME NEW t \in Threads, Finish(t) PROVE IInv'
  BY <1>15 DEF Finish
<1>16. ASSUME NEW t \in Threads, Lose(t) PROVE IInv'
  BY <1>16 DEF Lose
<1>17. ASSUME NEW t \in Threads, ReleaseBudget(t) PROVE IInv'
  BY <1>17 DEF ReleaseBudget
<1>18. ASSUME NEW t \in Threads, ReleaseClaim(t) PROVE IInv'
  BY <1>18 DEF ReleaseClaim
<1>19. ASSUME NEW t \in Threads, Fail(t) PROVE IInv'
  BY <1>19 DEF Fail
<1>20. ASSUME NEW t \in Threads, MoneyMoves(t) PROVE IInv'
  BY <1>20 DEF MoneyMoves
<1>21. ASSUME NEW t \in Threads, NEW r \in Requests, Create(t, r) PROVE IInv'
  BY <1>21 DEF Create, OthersUnresolved
<1>22. ASSUME NEW t \in Threads, NEW r \in Requests, CancelRead(t, r) PROVE IInv'
  BY <1>22 DEF CancelRead
<1>23. ASSUME NEW t \in Threads, NEW r \in Requests, NEW signed \in BOOLEAN,
           ApproveRead(t, r, signed) PROVE IInv'
  BY <1>23 DEF ApproveRead, MayApprove, Consent
<1>24. ASSUME NEW r \in Requests, Status(r) PROVE IInv'
  BY <1>24 DEF Status
<1>25. CASE Crash
  BY <1>25 DEF Crash
<1>26. CASE Tick
  BY <1>26 DEF Tick
<1>27. CASE TogglePause
  BY <1>27 DEF TogglePause
<1>28. CASE UNCHANGED vars
  BY <1>28 DEF vars
<1> HIDE DEF IInv, TypeOK, OneUnresolved, Ownership, Submission, Signature, Holdings,
  SentAtMostOnce, IdleHoldsNothing, SentKeepsEvidence,
  Steps, Waiting, Before, After, Working, Undone, Dead, Final,
  Statuses, Unresolved,
  envVars, rowVars, moneyVars, Goto, Begin, Leave, SetStatus,
  Lapsed, Read, StatusRead
<1> QED
  BY <1>1, <1>2, <1>3, <1>4, <1>5, <1>6, <1>7, <1>8, <1>9, <1>10, <1>11,
     <1>12, <1>13, <1>14, <1>15, <1>16, <1>17, <1>18, <1>19, <1>20,
     <1>21, <1>22, <1>23, <1>24, <1>25, <1>26, <1>27, <1>28
     DEF Next, Proceed, Receive

\* IInv holds in every reachable state, for every number of requests and
\* threads and every bound.
THEOREM Invariance == Spec => []IInv
<1>1. Init => IInv
  BY InitIInv
<1>2. IInv /\ [Next]_vars => IInv'
  BY StepIInv
<1> QED
  BY <1>1, <1>2, PTL DEF Spec

\* The rows, the threads and the accounting keep their types.
THEOREM TypeCorrect == Spec => []TypeOK
  BY Invariance, PTL DEF IInv

\* Never two requests of the owner executing or uncertain at once.
THEOREM LaneExclusive == Spec => []OneUnresolved
  BY Invariance, PTL DEF IInv

\* The payer is called at most once for a request.
THEOREM PayerCalledAtMostOnce == Spec => []SentAtMostOnce
<1>1. IInv => SentAtMostOnce
  BY DEF IInv, Submission
<1> QED
  BY <1>1, Invariance, PTL

\* No escalated purchase reaches the payer without a verified signature.
THEOREM NothingSentUnsigned == Spec => []SentWithConsent
<1>1. IInv => SentWithConsent
  <2> SUFFICES ASSUME IInv, NEW r \in Requests, sent[r] > 0, needsSig[r]
               PROVE r \in consent
    BY DEF SentWithConsent
  <2>1. status[r] \in Unresolved \cup {"succeeded"}
    BY DEF IInv, TypeOK, Submission, Statuses, Final, Undone, Dead, Unresolved
  <2> QED
    BY <2>1 DEF IInv, Signature
<1> QED
  BY <1>1, Invariance, PTL

\* A row that says no payment was sent was never given to the payer.
THEOREM DeadRowsTellTheTruth == Spec => []DeadNeverSent
<1>1. IInv => DeadNeverSent
  BY DEF IInv, Submission, DeadNeverSent, Undone
<1> QED
  BY <1>1, Invariance, PTL

\* What is dead or still waits holds no budget and no claim.
THEOREM WaitingHoldsNothing == Spec => []IdleHoldsNothing
<1>1. IInv => IdleHoldsNothing
  BY DEF IInv, Holdings
<1> QED
  BY <1>1, Invariance, PTL

\* What was given to the payer keeps its claim and its saved handles.
THEOREM EvidenceKept == Spec => []SentKeepsEvidence
<1>1. IInv => SentKeepsEvidence
  BY DEF IInv, Holdings
<1> QED
  BY <1>1, Invariance, PTL

\* A final state is never overwritten: the thread that ends a request owns it.
LEMMA StepFinal ==
  IInv /\ [Next]_vars =>
    \A q \in Requests : status[q] \in Final => status'[q] = status[q]
<1> SUFFICES ASSUME IInv, [Next]_vars, NEW q \in Requests, status[q] \in Final
             PROVE status'[q] = status[q]
  OBVIOUS
<1> USE DEF IInv, TypeOK, Ownership, Working, Before, After, Final, Dead,
  envVars, rowVars, moneyVars, Goto, Begin, Leave, SetStatus,
  Lapsed, Read, StatusRead
<1>1. ASSUME NEW t \in Threads, Decide(t) PROVE status'[q] = status[q]
  BY <1>1 DEF Decide
<1>2. ASSUME NEW t \in Threads, InspectRaises(t) PROVE status'[q] = status[q]
  BY <1>2 DEF InspectRaises
<1>3. ASSUME NEW t \in Threads, Abort(t) PROVE status'[q] = status[q]
  BY <1>3 DEF Abort
<1>4. ASSUME NEW t \in Threads, Cancel(t) PROVE status'[q] = status[q]
  BY <1>4 DEF Cancel
<1>5. ASSUME NEW t \in Threads, AutoApprove(t) PROVE status'[q] = status[q]
  BY <1>5 DEF AutoApprove, MayApprove
<1>6. ASSUME NEW t \in Threads, Execute(t) PROVE status'[q] = status[q]
  BY <1>6 DEF Execute, OthersUnresolved
<1>7. ASSUME NEW t \in Threads, Recheck(t) PROVE status'[q] = status[q]
  BY <1>7 DEF Recheck
<1>8. ASSUME NEW t \in Threads, ReserveBudget(t) PROVE status'[q] = status[q]
  BY <1>8 DEF ReserveBudget
<1>9. ASSUME NEW t \in Threads, ClaimPayment(t) PROVE status'[q] = status[q]
  BY <1>9 DEF ClaimPayment
<1>10. ASSUME NEW t \in Threads, PersistHandles(t) PROVE status'[q] = status[q]
  BY <1>10 DEF PersistHandles
<1>11. ASSUME NEW t \in Threads, Gate(t) PROVE status'[q] = status[q]
  BY <1>11 DEF Gate
<1>12. ASSUME NEW t \in Threads, PayReturns(t) PROVE status'[q] = status[q]
  BY <1>12 DEF PayReturns
<1>13. ASSUME NEW t \in Threads, SaveResult(t) PROVE status'[q] = status[q]
  BY <1>13 DEF SaveResult
<1>14. ASSUME NEW t \in Threads, SettleAccounts(t) PROVE status'[q] = status[q]
  BY <1>14 DEF SettleAccounts
<1>15. ASSUME NEW t \in Threads, Finish(t) PROVE status'[q] = status[q]
  BY <1>15 DEF Finish
<1>16. ASSUME NEW t \in Threads, Lose(t) PROVE status'[q] = status[q]
  BY <1>16 DEF Lose
<1>17. ASSUME NEW t \in Threads, ReleaseBudget(t) PROVE status'[q] = status[q]
  BY <1>17 DEF ReleaseBudget
<1>18. ASSUME NEW t \in Threads, ReleaseClaim(t) PROVE status'[q] = status[q]
  BY <1>18 DEF ReleaseClaim
<1>19. ASSUME NEW t \in Threads, Fail(t) PROVE status'[q] = status[q]
  BY <1>19 DEF Fail
<1>20. ASSUME NEW t \in Threads, MoneyMoves(t) PROVE status'[q] = status[q]
  BY <1>20 DEF MoneyMoves
<1>21. ASSUME NEW t \in Threads, NEW r \in Requests, Create(t, r) PROVE status'[q] = status[q]
  BY <1>21 DEF Create, OthersUnresolved
<1>22. ASSUME NEW t \in Threads, NEW r \in Requests, CancelRead(t, r) PROVE status'[q] = status[q]
  BY <1>22 DEF CancelRead
<1>23. ASSUME NEW t \in Threads, NEW r \in Requests, NEW signed \in BOOLEAN,
           ApproveRead(t, r, signed) PROVE status'[q] = status[q]
  BY <1>23 DEF ApproveRead, MayApprove, Consent
<1>24. ASSUME NEW r \in Requests, Status(r) PROVE status'[q] = status[q]
  BY <1>24 DEF Status
<1>25. CASE Crash
  BY <1>25 DEF Crash
<1>26. CASE Tick
  BY <1>26 DEF Tick
<1>27. CASE TogglePause
  BY <1>27 DEF TogglePause
<1>28. CASE UNCHANGED vars
  BY <1>28 DEF vars
<1> HIDE DEF IInv, TypeOK, Ownership, Working, Before, After, Final, Dead,
  envVars, rowVars, moneyVars, Goto, Begin, Leave, SetStatus,
  Lapsed, Read, StatusRead
<1> QED
  BY <1>1, <1>2, <1>3, <1>4, <1>5, <1>6, <1>7, <1>8, <1>9, <1>10, <1>11,
     <1>12, <1>13, <1>14, <1>15, <1>16, <1>17, <1>18, <1>19, <1>20,
     <1>21, <1>22, <1>23, <1>24, <1>25, <1>26, <1>27, <1>28
     DEF Next, Proceed, Receive

THEOREM FinalStatesStay == Spec => FinalIsFinal
<1>1. IInv /\ [Next]_vars =>
        [\A r \in Requests : status[r] \in Final => status'[r] = status[r]]_vars
  BY StepFinal
<1> QED
  BY <1>1, Invariance, PTL DEF Spec, FinalIsFinal

-----------------------------------------------------------------------------
(* The refinement.  A row is read as its request in AtMostOncePayment.     *)
OpenSet == {r \in Requests : sent[r] > 0 /\ status[r] # "succeeded"}
DeadSet == {r \in Requests : status[r] \in Dead}
LapsedSet == {r \in Requests : status[r] # "none" /\ expiresAt[r] <= now}

\* A step that gives nothing to the payer and confirms nothing either buries
\* requests one at a time or is invisible.
LEMMA BuryStep ==
  ASSUME IInv, NEW r \in Requests, UNCHANGED <<sent, paused>>, LapsedSet' = LapsedSet,
         \A q \in Requests \ {r} : status'[q] = status[q],
         status'[r] # "succeeded" \/ status'[r] = status[r],
         status[r] \in Dead => status'[r] = status[r],
         status[r] = "succeeded" => status'[r] = status[r],
         status'[r] \in Dead => sent[r] = 0
  PROVE  [Abstract!Next]_(Abstract!vars)
<1>1. OpenSet' = OpenSet
  BY DEF OpenSet
<1>2. CASE status'[r] \in Dead
  <2>1. DeadSet' = DeadSet \cup {r}
    BY <1>2 DEF DeadSet
  <2> QED
    BY <1>1, <1>2, <2>1
    DEF Abstract!Next, Abstract!Kill, OpenSet, DeadSet, LapsedSet
<1>3. CASE status'[r] \notin Dead
  <2>1. DeadSet' = DeadSet
    BY <1>3 DEF DeadSet
  <2> QED
    BY <1>1, <2>1 DEF Abstract!vars, OpenSet, DeadSet, LapsedSet
<1> QED
  BY <1>2, <1>3

\* The same for a step at one moment that leaves the deadlines alone.
LEMMA QuietStep ==
  ASSUME IInv, NEW r \in Requests, UNCHANGED <<sent, paused, now, expiresAt>>,
         \A q \in Requests \ {r} : status'[q] = status[q],
         status'[r] = "none" <=> status[r] = "none",
         status'[r] # "succeeded" \/ status'[r] = status[r],
         status[r] \in Dead => status'[r] = status[r],
         status[r] = "succeeded" => status'[r] = status[r],
         status'[r] \in Dead => sent[r] = 0
  PROVE  [Abstract!Next]_(Abstract!vars)
<1>1. LapsedSet' = LapsedSet
  BY DEF LapsedSet
<1> QED
  BY <1>1, BuryStep

\* A new request has its time ahead of it.
LEMMA CreateQuiet ==
  ASSUME IInv, NEW t \in Threads, NEW r \in Requests, Create(t, r)
  PROVE  [Abstract!Next]_(Abstract!vars)
<1>1. /\ \A q \in Requests \ {r} : status'[q] = status[q] /\ expiresAt'[q] = expiresAt[q]
      /\ status[r] = "none" /\ status'[r] = "preparing" /\ expiresAt'[r] = now + TTL
      /\ UNCHANGED <<now, paused, sent>>
  BY DEF Create, envVars, moneyVars, IInv, TypeOK
<1>2. ~(expiresAt'[r] <= now)
  BY <1>1, LedgerAssumption DEF IInv, TypeOK
<1>3. LapsedSet' = LapsedSet
  BY <1>1, <1>2 DEF LapsedSet
<1> QED
  BY <1>1, <1>3, BuryStep DEF Dead

\* A step that touches neither the rows' states nor the payer is invisible.
LEMMA SilentStep ==
  ASSUME UNCHANGED <<status, expiresAt, now, paused, sent>>
  PROVE  [Abstract!Next]_(Abstract!vars)
  BY DEF Abstract!vars

\* The call of the payer is Send: no other request is open, because the row
\* is the only unresolved one.
LEMMA GateSends ==
  ASSUME IInv, NEW t \in Threads, Gate(t)
  PROVE  [Abstract!Next]_(Abstract!vars)
<1> DEFINE r == job[t]
<1>1. /\ r \in Requests /\ status[r] = "executing" /\ sent[r] = 0
  BY DEF IInv, Gate, Ownership, Submission, Working, Before
<1>2. CASE sent' = sent
  BY <1>2, SilentStep DEF Gate, rowVars, envVars
<1>3. CASE sent' = [sent EXCEPT ![r] = @ + 1] /\ ~(paused \/ expiresAt[r] <= now)
  <2>1. status' = status
    BY DEF Gate, rowVars
  <2>2. sent' = [sent EXCEPT ![r] = 1]
    BY <1>1, <1>3 DEF IInv, TypeOK
  <2>3. OpenSet = {}
    <3> SUFFICES ASSUME NEW q \in OpenSet PROVE FALSE
      OBVIOUS
    <3>1. q \in Requests /\ sent[q] > 0 /\ status[q] # "succeeded"
      BY DEF OpenSet
    <3>2. status[q] \in Unresolved
      BY <3>1 DEF IInv, TypeOK, Submission, Undone, Statuses, Final, Dead, Unresolved
    <3> QED
      BY <1>1, <3>1, <3>2 DEF IInv, OneUnresolved, Unresolved
  <2>4. OpenSet' = {r}
    BY <1>1, <1>3, <2>1, <2>3 DEF OpenSet, IInv, TypeOK
  <2>5. DeadSet' = DeadSet /\ r \notin DeadSet
    BY <1>1, <2>1 DEF DeadSet, Dead
  <2>6. LapsedSet' = LapsedSet /\ r \notin LapsedSet /\ ~paused /\ paused' = paused
    BY <1>1, <1>3, <2>1 DEF Gate, LapsedSet, rowVars, envVars, IInv, TypeOK
  <2> QED
    BY <1>1, <2>2, <2>3, <2>4, <2>5, <2>6
    DEF Abstract!Next, Abstract!Send, OpenSet, DeadSet, LapsedSet
<1> QED
  BY <1>2, <1>3 DEF Gate, Goto

\* The last transition of a payment that was confirmed is Confirm.
LEMMA FinishConfirms ==
  ASSUME IInv, NEW t \in Threads, Finish(t)
  PROVE  [Abstract!Next]_(Abstract!vars)
<1> DEFINE r == job[t]
<1>1. /\ r \in Requests /\ status[r] = "executing" /\ sent[r] > 0
  BY DEF IInv, Finish, Ownership, Submission, Working, After
<1>2. UNCHANGED <<sent, paused, now>>
  BY DEF Finish, moneyVars, envVars
<1>3. CASE UNCHANGED rowVars
  BY <1>2, <1>3, SilentStep DEF rowVars
<1>4. CASE SetStatus(r, "succeeded")
  <2>1. status' = [status EXCEPT ![r] = "succeeded"]
    BY <1>4 DEF SetStatus
  <2>2. LapsedSet' = LapsedSet
    BY <1>1, <1>2, <1>4, <2>1 DEF SetStatus, LapsedSet, IInv, TypeOK
  <2>3. r \in OpenSet /\ OpenSet' = OpenSet \ {r}
    BY <1>1, <1>2, <2>1 DEF OpenSet, IInv, TypeOK
  <2>4. DeadSet' = DeadSet
    BY <1>1, <2>1 DEF DeadSet, Dead, IInv, TypeOK
  <2> QED
    BY <1>1, <1>2, <2>2, <2>3, <2>4
    DEF Abstract!Next, Abstract!Confirm, OpenSet, DeadSet, LapsedSet
<1> QED
  BY <1>3, <1>4 DEF Finish

\* Time only lapses approvals.
LEMMA TickLapses ==
  ASSUME IInv, Tick
  PROVE  [Abstract!Next]_(Abstract!vars)
<1>1. UNCHANGED <<sent, status, expiresAt, paused>> /\ now <= now'
  BY DEF Tick, rowVars, moneyVars, IInv, TypeOK
<1> DEFINE S == LapsedSet'
<1>2. LapsedSet \subseteq S /\ S \subseteq Requests
  <2>1. now \in Nat /\ now' \in Nat /\ expiresAt \in [Requests -> Nat]
    BY DEF Tick, IInv, TypeOK
  <2>2. \A r \in Requests : expiresAt[r] <= now => expiresAt'[r] <= now'
    BY <1>1, <2>1
  <2> QED
    BY <1>1, <2>2 DEF LapsedSet
<1>3. OpenSet' = OpenSet /\ DeadSet' = DeadSet
  BY <1>1 DEF OpenSet, DeadSet
<1>4. Abstract!Lapse(S)
  <2>1. LapsedSet' = LapsedSet \cup S
    BY <1>2
  <2> QED
    BY <1>1, <1>3, <2>1 DEF Abstract!Lapse, OpenSet, DeadSet, LapsedSet
<1>5. Abstract!Next
  <2>1. S \in SUBSET Requests
    BY <1>2
  <2> HIDE DEF S
  <2> QED
    BY <1>4, <2>1, Zenon DEF Abstract!Next, Abstract!Lapse
<1> QED
  BY <1>5

\* Every step of the lane is a step of AtMostOncePayment or invisible there.
LEMMA StepRefines == IInv /\ [Next]_vars => [Abstract!Next]_(Abstract!vars)
<1> SUFFICES ASSUME IInv, [Next]_vars PROVE [Abstract!Next]_(Abstract!vars)
  OBVIOUS
<1>1. ASSUME NEW t \in Threads, Recheck(t) PROVE [Abstract!Next]_(Abstract!vars)
  BY <1>1, SilentStep DEF Recheck, rowVars, moneyVars, envVars
<1>2. ASSUME NEW t \in Threads, ReserveBudget(t) PROVE [Abstract!Next]_(Abstract!vars)
  BY <1>2, SilentStep DEF ReserveBudget, rowVars, moneyVars, envVars
<1>3. ASSUME NEW t \in Threads, ClaimPayment(t) PROVE [Abstract!Next]_(Abstract!vars)
  BY <1>3, SilentStep DEF ClaimPayment, rowVars, moneyVars, envVars
<1>4. ASSUME NEW t \in Threads, PersistHandles(t) PROVE [Abstract!Next]_(Abstract!vars)
  BY <1>4, SilentStep DEF PersistHandles, rowVars, moneyVars, envVars
<1>5. ASSUME NEW t \in Threads, PayReturns(t) PROVE [Abstract!Next]_(Abstract!vars)
  BY <1>5, SilentStep DEF PayReturns, rowVars, moneyVars, envVars
<1>6. ASSUME NEW t \in Threads, SaveResult(t) PROVE [Abstract!Next]_(Abstract!vars)
  BY <1>6, SilentStep DEF SaveResult, rowVars, moneyVars, envVars
<1>7. ASSUME NEW t \in Threads, SettleAccounts(t) PROVE [Abstract!Next]_(Abstract!vars)
  BY <1>7, SilentStep DEF SettleAccounts, rowVars, moneyVars, envVars
<1>8. ASSUME NEW t \in Threads, ReleaseBudget(t) PROVE [Abstract!Next]_(Abstract!vars)
  BY <1>8, SilentStep DEF ReleaseBudget, rowVars, moneyVars, envVars
<1>9. ASSUME NEW t \in Threads, ReleaseClaim(t) PROVE [Abstract!Next]_(Abstract!vars)
  BY <1>9, SilentStep DEF ReleaseClaim, rowVars, moneyVars, envVars
<1>10. ASSUME NEW t \in Threads, MoneyMoves(t) PROVE [Abstract!Next]_(Abstract!vars)
  BY <1>10, SilentStep DEF MoneyMoves, rowVars, moneyVars, envVars
<1>11. ASSUME NEW t \in Threads, Decide(t) PROVE [Abstract!Next]_(Abstract!vars)
  BY <1>11, QuietStep DEF Decide, SetStatus, Lapsed, Read, StatusRead, Goto, Leave, Begin, rowVars, moneyVars,
         envVars, IInv, TypeOK, Ownership, Submission, Working, Before, After,
         Undone, Dead
<1>12. ASSUME NEW t \in Threads, InspectRaises(t) PROVE [Abstract!Next]_(Abstract!vars)
  BY <1>12, QuietStep DEF InspectRaises, SetStatus, Lapsed, Read, StatusRead, Goto, Leave, Begin, rowVars, moneyVars,
         envVars, IInv, TypeOK, Ownership, Submission, Working, Before, After,
         Undone, Dead
<1>13. ASSUME NEW t \in Threads, Abort(t) PROVE [Abstract!Next]_(Abstract!vars)
  BY <1>13, QuietStep DEF Abort, SetStatus, Lapsed, Read, StatusRead, Goto, Leave, Begin, rowVars, moneyVars,
         envVars, IInv, TypeOK, Ownership, Submission, Working, Before, After,
         Undone, Dead
<1>14. ASSUME NEW t \in Threads, Cancel(t) PROVE [Abstract!Next]_(Abstract!vars)
  BY <1>14, QuietStep DEF Cancel, SetStatus, Lapsed, Read, StatusRead, Goto, Leave, Begin, rowVars, moneyVars,
         envVars, IInv, TypeOK, Ownership, Submission, Working, Before, After,
         Undone, Dead
<1>15. ASSUME NEW t \in Threads, AutoApprove(t) PROVE [Abstract!Next]_(Abstract!vars)
  BY <1>15, QuietStep DEF AutoApprove, SetStatus, Lapsed, Read, StatusRead, Goto, Leave, Begin, rowVars, moneyVars,
         envVars, IInv, TypeOK, Ownership, Submission, Working, Before, After,
         Undone, Dead
<1>16. ASSUME NEW t \in Threads, Execute(t) PROVE [Abstract!Next]_(Abstract!vars)
  BY <1>16, QuietStep DEF Execute, SetStatus, Lapsed, Read, StatusRead, Goto, Leave, Begin, rowVars, moneyVars,
         envVars, IInv, TypeOK, Ownership, Submission, Working, Before, After,
         Undone, Dead
<1>17. ASSUME NEW t \in Threads, Lose(t) PROVE [Abstract!Next]_(Abstract!vars)
  BY <1>17, QuietStep DEF Lose, SetStatus, Lapsed, Read, StatusRead, Goto, Leave, Begin, rowVars, moneyVars,
         envVars, IInv, TypeOK, Ownership, Submission, Working, Before, After,
         Undone, Dead
<1>18. ASSUME NEW t \in Threads, Fail(t) PROVE [Abstract!Next]_(Abstract!vars)
  BY <1>18, QuietStep DEF Fail, SetStatus, Lapsed, Read, StatusRead, Goto, Leave, Begin, rowVars, moneyVars,
         envVars, IInv, TypeOK, Ownership, Submission, Working, Before, After,
         Undone, Dead
<1>19. ASSUME NEW t \in Threads, NEW r \in Requests, Create(t, r) PROVE [Abstract!Next]_(Abstract!vars)
  BY <1>19, CreateQuiet
<1>20. ASSUME NEW t \in Threads, NEW r \in Requests, CancelRead(t, r) PROVE [Abstract!Next]_(Abstract!vars)
  BY <1>20, QuietStep DEF CancelRead, SetStatus, Lapsed, Read, StatusRead, Goto, Leave, Begin, rowVars, moneyVars,
         envVars, IInv, TypeOK, Ownership, Submission, Working, Before, After,
         Undone, Dead
<1>21. ASSUME NEW t \in Threads, NEW r \in Requests, NEW signed \in BOOLEAN,
           ApproveRead(t, r, signed) PROVE [Abstract!Next]_(Abstract!vars)
  BY <1>21, QuietStep DEF ApproveRead, SetStatus, Lapsed, Read, StatusRead, Goto, Leave, Begin, rowVars, moneyVars,
         envVars, IInv, TypeOK, Ownership, Submission, Working, Before, After,
         Undone, Dead
<1>22. ASSUME NEW r \in Requests, Status(r) PROVE [Abstract!Next]_(Abstract!vars)
  BY <1>22, QuietStep DEF Status, SetStatus, Lapsed, Read, StatusRead, Goto, Leave, Begin, rowVars, moneyVars,
         envVars, IInv, TypeOK, Ownership, Submission, Working, Before, After,
         Undone, Dead
<1>23. ASSUME NEW t \in Threads, Gate(t) PROVE [Abstract!Next]_(Abstract!vars)
  BY <1>23, GateSends
<1>24. ASSUME NEW t \in Threads, Finish(t) PROVE [Abstract!Next]_(Abstract!vars)
  BY <1>24, FinishConfirms
<1>25. CASE Crash
  BY <1>25, SilentStep DEF Crash, rowVars, moneyVars
<1>26. CASE Tick
  BY <1>26, TickLapses
<1>27. CASE TogglePause
  <2>1. UNCHANGED <<sent, status, expiresAt, now>> /\ paused' = ~paused
    BY <1>27 DEF TogglePause, rowVars, moneyVars
  <2> QED
    BY <2>1 DEF Abstract!Next, Abstract!Toggle
<1>28. CASE UNCHANGED vars
  BY <1>28, SilentStep DEF vars, rowVars, moneyVars, envVars, envVars
<1> QED
  BY <1>1, <1>2, <1>3, <1>4, <1>5, <1>6, <1>7, <1>8, <1>9, <1>10, <1>11,
     <1>12, <1>13, <1>14, <1>15, <1>16, <1>17, <1>18, <1>19, <1>20,
     <1>21, <1>22, <1>23, <1>24, <1>25, <1>26, <1>27, <1>28
     DEF Next, Proceed, Receive

\* The lane implements AtMostOncePayment.
THEOREM LaneImplementsPromise == Spec => ImplementsAtMostOnce
<1>1. Init => Abstract!Init
  BY DEF Init, Abstract!Init, Dead
<1>2. IInv /\ [Next]_vars => [Abstract!Next]_(Abstract!vars)
  BY StepRefines
<1> QED
  BY <1>1, <1>2, Invariance, PTL DEF Spec, ImplementsAtMostOnce, Abstract!Spec

(***************************************************************************)
(* The managed wallet                                                      *)
(***************************************************************************)

Minting == {"asked", "issued", "absent", "found", "answered", "failed"}
ServingSteps == {"received", "admitted", "priced", "asking", "approved", "sending", "replied"}

\* The types, in three groups
ThreadTypes ==
    /\ user \in [Commands -> {"idle", "minting", "ready", "posted", "done"}]
    /\ gw \in [Commands -> {"none"} \cup Minting \cup ServingSteps]
    /\ held \in [Commands -> 0 .. minted]
    /\ late \in [Commands -> BOOLEAN]
    /\ address \in [Commands -> Commands \cup {None}]
TransferTypes ==
    /\ reply \in [Withdrawals -> {"none", "unauthorised", "no", "unknown", "sent"}]
    /\ told \in [Withdrawals -> {"none", "sign in failed", "try again", "sent"}]
    /\ open \in Withdrawals \cup {None}
    /\ tx \in [Withdrawals -> {"none", "pending", "mined", "reverted"}]
    /\ balance \in [Assets -> Nat]
StoreTypes ==
    /\ wallet \in [Chains -> Commands \cup {None}]
    /\ minted \in Nat
    /\ DOMAIN tokens \subseteq 1 .. minted /\ tokens \in [DOMAIN tokens -> 0 .. TokenTTL - 1]
    /\ cache \in [token : 0 .. minted, age : Nat]

\* The plugin's thread of a command and the gateway's work on the same call.
InStep(c) ==
    /\ user[c] = "idle" => gw[c] = "none" /\ held[c] = 0
    /\ user[c] = "minting" => gw[c] \in Minting
    /\ user[c] = "ready" => c \in Withdrawals /\ gw[c] \in {"none", "answered"}
    /\ gw[c] \in ServingSteps => c \in Withdrawals /\ user[c] \in {"posted", "done"}
    /\ user[c] = "posted" => gw[c] \in ServingSteps
    /\ user[c] = "minting" /\ c \notin OnSolana /\ gw[c] \in {"issued", "absent", "answered"} =>
         held[c] # 0
    /\ gw[c] = "found" => c \in OnSolana

\* A token is on file and of that age at most, or pushed out by newer ones.
Good(k, age) == minted >= k + MaxActive \/ (k \in DOMAIN tokens /\ tokens[k] <= age)

\* A token is one tick older than the plugin counts, at most.
CacheGood ==
    cache.token # 0 /\ cache.age + 1 < TokenTTL => Good(cache.token, cache.age + 1)
HeldGood(c) ==
    /\ user[c] = "minting" /\ held[c] # 0 =>
         Good(held[c], 1) /\ (~late[c] => Good(held[c], 0))
    /\ user[c] = "ready" \/ gw[c] = "received" => Good(held[c], TokenTTL)
    /\ c \in Withdrawals => (reply[c] = "unauthorised" => minted >= held[c] + MaxActive)

\* The address a command was given is on file, and stays there.
AddressFiled(c) ==
    user[c] = "minting" /\ gw[c] \in {"found", "answered"} =>
        address[c] = wallet[ChainOf(c)] /\ address[c] # None

\* Nothing is answered before the end and nothing is sent before the sending.
MoneyTold(c) ==
    /\ gw[c] # "replied" => reply[c] = "none"
    /\ gw[c] \notin {"sending", "replied"} => tx[c] = "none"
    /\ reply[c] \in {"no", "unauthorised"} => tx[c] = "none"
    /\ reply[c] = "sent" => tx[c] = "mined"

CommandInv(c) ==
    InStep(c) /\ HeldGood(c) /\ AddressFiled(c) /\ (c \in Withdrawals => MoneyTold(c))

WalletInv == 
    /\ ThreadTypes /\ TransferTypes /\ StoreTypes
    /\ CacheGood /\ \A c \in Commands : CommandInv(c)

USE DEF plugin, store, chain, Enter, Serving, Minting, ServingSteps

LEMMA WalletInitially == WalletInit => WalletInv
<1> SUFFICES ASSUME WalletInit PROVE WalletInv
  OBVIOUS
<1> USE WalletAssumption DEF WalletInit
<1>1. ThreadTypes /\ TransferTypes /\ StoreTypes
  BY DEF ThreadTypes, TransferTypes, StoreTypes, NoToken, Assets, Chains
<1>2. CacheGood
  BY DEF CacheGood, NoToken
<1>3. ASSUME NEW c \in Commands PROVE CommandInv(c)
  BY <1>3 DEF CommandInv, InStep, HeldGood, AddressFiled, MoneyTold
<1> QED
  BY <1>1, <1>2, <1>3 DEF WalletInv

LEMMA ChainOfType == ASSUME NEW c \in Commands PROVE ChainOf(c) \in Chains
BY DEF ChainOf, Chains

\* A step of one command keeps what holds of the others: the tokens stay good,
\* and a wallet on file stays there.
LEMMA OneCommand ==
  ASSUME WalletInv, NEW c \in Commands,
         \A d \in Commands \ {c} :
            /\ user'[d] = user[d] /\ gw'[d] = gw[d] /\ late'[d] = late[d]
            /\ held'[d] = held[d] /\ address'[d] = address[d]
            /\ d \in Withdrawals => reply'[d] = reply[d] /\ tx'[d] = tx[d],
         minted <= minted', minted' \in Nat,
         \A k \in 0 .. minted : \A age \in Nat : Good(k, age) => Good(k, age)',
         \A n \in Chains : wallet[n] # None => wallet'[n] = wallet[n],
         CommandInv(c)', ThreadTypes', TransferTypes', StoreTypes', CacheGood'
  PROVE  WalletInv'
<1>1. ASSUME NEW d \in Commands \ {c} PROVE CommandInv(d)'
  <2>1. CommandInv(d) /\ held[d] \in 0 .. minted /\ ChainOf(d) \in Chains
    BY ChainOfType DEF WalletInv, ThreadTypes
  <2>2. InStep(d)' /\ AddressFiled(d)' /\ (d \in Withdrawals => MoneyTold(d)')
    BY <2>1 DEF CommandInv, InStep, AddressFiled, MoneyTold
  <2>3. HeldGood(d)'
    <3>1. /\ Good(held[d], 1) => Good(held[d], 1)'
          /\ Good(held[d], 0) => Good(held[d], 0)'
          /\ Good(held[d], TokenTTL) => Good(held[d], TokenTTL)'
      BY <2>1, WalletAssumption
    <3>2. /\ held'[d] = held[d] /\ user'[d] = user[d] /\ gw'[d] = gw[d] /\ late'[d] = late[d]
          /\ d \in Withdrawals => reply'[d] = reply[d]
      OBVIOUS
    <3> QED
      BY <2>1, <3>1, <3>2, WalletAssumption DEF CommandInv, HeldGood, WalletInv, StoreTypes, Good
  <2> QED
    BY <2>2, <2>3 DEF CommandInv
<1> QED
  BY <1>1 DEF WalletInv

\* The same where the tokens and the wallets are left alone, as most steps do.
LEMMA StoreAlone ==
  ASSUME WalletInv, NEW c \in Commands, UNCHANGED store,
         \A d \in Commands \ {c} :
            /\ user'[d] = user[d] /\ gw'[d] = gw[d] /\ late'[d] = late[d]
            /\ held'[d] = held[d] /\ address'[d] = address[d]
            /\ d \in Withdrawals => reply'[d] = reply[d] /\ tx'[d] = tx[d],
         CommandInv(c)', ThreadTypes', TransferTypes',
         cache' = cache \/ (cache' \in [token : 0 .. minted, age : Nat] /\ CacheGood')
  PROVE  WalletInv'
<1>1. StoreTypes' /\ minted' \in Nat /\ minted <= minted'
  BY DEF WalletInv, StoreTypes
<1>2. CacheGood'
  BY DEF WalletInv, CacheGood, Good
<1>3. \A k \in 0 .. minted : \A age \in Nat : Good(k, age) => Good(k, age)'
  BY DEF Good
<1>4. \A n \in Chains : wallet[n] # None => wallet'[n] = wallet[n]
  OBVIOUS
<1> QED
  BY <1>1, <1>2, <1>3, <1>4, OneCommand

\* A step in which the gateway serves a withdrawal whose token it has accepted.
LEMMA ServingStep ==
  ASSUME WalletInv, NEW c \in Withdrawals,
         NEW s \in ServingSteps \ {"received"}, NEW w \in {"no", "unknown", "sent"},
         gw[c] \in ServingSteps \ {"received", "replied"},
         gw' = [gw EXCEPT ![c] = s],
         reply' = IF s = "replied" THEN [reply EXCEPT ![c] = w] ELSE reply,
         gw[c] = "sending" => s = "replied" /\ w # "no",
         gw[c] # "sending" => w = "no",
         w = "sent" => tx[c] = "mined",
         open' \in Withdrawals \cup {None},
         UNCHANGED <<plugin, held, address, store, chain>>
  PROVE  WalletInv'
<1> USE WalletAssumption DEF WalletInv
<1>1. ThreadTypes' /\ TransferTypes'
  <2>1. ThreadTypes'
    BY DEF ThreadTypes
  <2>2. TransferTypes'
    BY DEF TransferTypes
  <2> QED
    BY <2>1, <2>2
<1>2. gw'[c] = s /\ (s = "replied" => reply'[c] = w) /\ (s # "replied" => reply'[c] = reply[c])
  BY DEF ThreadTypes, TransferTypes
<1>3. CommandInv(c) /\ c \in Commands
  OBVIOUS
<1>4. user[c] \in {"posted", "done"} /\ reply[c] = "none"
  BY <1>3 DEF CommandInv, InStep, MoneyTold
<1>5. InStep(c)' /\ AddressFiled(c)' /\ HeldGood(c)'
  BY <1>2, <1>3, <1>4 DEF InStep, AddressFiled, HeldGood
<1>6. MoneyTold(c)'
  BY <1>2, <1>3, <1>4 DEF CommandInv, MoneyTold
<1>7. \A d \in Commands \ {c} : gw'[d] = gw[d] /\ (d \in Withdrawals => reply'[d] = reply[d])
  BY DEF ThreadTypes, TransferTypes
<1> QED
  BY <1>1, <1>3, <1>5, <1>6, <1>7, StoreAlone DEF CommandInv

LEMMA ServeStep ==
  ASSUME WalletInv, NEW c \in Withdrawals,
         RateRefused(c) \/ CheckBalance(c) \/ Ask(c) \/ PersonDecides(c) \/ Decrypt(c) \/ TransferEnds(c)
  PROVE  WalletInv'
<1> USE DEF Answer
<1>1. open \in Withdrawals \cup {None}
  BY DEF WalletInv, TransferTypes
<1>2. CASE RateRefused(c)
  BY <1>1, <1>2, ServingStep DEF RateRefused
<1>3. CASE CheckBalance(c)
  BY <1>1, <1>3, ServingStep DEF CheckBalance
<1>4. CASE Ask(c)
  BY <1>1, <1>4, ServingStep DEF Ask
<1>5. CASE PersonDecides(c)
  BY <1>1, <1>5, ServingStep DEF PersonDecides
<1>6. CASE Decrypt(c)
  BY <1>1, <1>6, ServingStep DEF Decrypt
<1>7. CASE TransferEnds(c)
  BY <1>1, <1>7, ServingStep DEF TransferEnds
<1> QED
  BY <1>2, <1>3, <1>4, <1>5, <1>6, <1>7

LEMMA AuthoriseStep == ASSUME WalletInv, NEW c \in Withdrawals, Authorise(c) PROVE WalletInv'
<1> USE WalletAssumption DEF WalletInv
<1>1. /\ gw[c] = "received"
      /\ \/ gw' = [gw EXCEPT ![c] = "admitted"] /\ held' = [held EXCEPT ![c] = 0] /\ reply' = reply
         \/ /\ held[c] \notin DOMAIN tokens /\ gw' = [gw EXCEPT ![c] = "replied"]
            /\ reply' = [reply EXCEPT ![c] = "unauthorised"] /\ held' = held
      /\ UNCHANGED <<plugin, address, store, open, chain>>
  BY DEF Authorise, Answer, Known
<1>2. ThreadTypes'
  BY <1>1 DEF ThreadTypes, StoreTypes
<1>3. TransferTypes'
  BY <1>1 DEF TransferTypes
<1>4. CommandInv(c) /\ c \in Commands
  OBVIOUS
<1>5. /\ user[c] \in {"posted", "done"} /\ reply[c] = "none" /\ tx[c] = "none"
      /\ Good(held[c], TokenTTL)
  BY <1>1, <1>4 DEF CommandInv, InStep, MoneyTold, HeldGood
<1>6. \/ gw'[c] = "admitted" /\ reply'[c] = "none"
      \/ /\ gw'[c] = "replied" /\ reply'[c] = "unauthorised"
         /\ held'[c] = held[c] /\ minted >= held[c] + MaxActive
  BY <1>1, <1>5 DEF ThreadTypes, TransferTypes, Good
<1>7. InStep(c)' /\ AddressFiled(c)' /\ MoneyTold(c)'
  BY <1>1, <1>5, <1>6 DEF InStep, AddressFiled, MoneyTold
<1>8. HeldGood(c)'
  BY <1>1, <1>5, <1>6 DEF HeldGood
<1>9. \A d \in Commands \ {c} :
         gw'[d] = gw[d] /\ held'[d] = held[d] /\ (d \in Withdrawals => reply'[d] = reply[d])
  BY <1>1 DEF ThreadTypes, TransferTypes
<1> QED
  BY <1>1, <1>2, <1>3, <1>4, <1>7, <1>8, <1>9, StoreAlone DEF CommandInv

\* The chain: what is sent belongs to a withdrawal that is being sent or was.
LEMMA ChainStep == ASSUME WalletInv, NEW c \in Withdrawals, Broadcast(c) \/ Land(c) PROVE WalletInv'
<1> USE WalletAssumption DEF WalletInv
<1>1. /\ tx' = [tx EXCEPT ![c] = tx'[c]]
      /\ \/ gw[c] = "sending" /\ tx[c] = "none" /\ tx'[c] = "pending"
         \/ tx[c] = "pending" /\ tx'[c] \in {"mined", "reverted"}
      /\ UNCHANGED <<plugin, gw, held, address, reply, store, open>>
  BY DEF Broadcast, Land, TransferTypes
<1>2. balance' \in [Assets -> Nat]
  <2>1. CASE UNCHANGED balance
    BY <2>1 DEF TransferTypes
  <2>2. CASE /\ balance[AssetOf(c)] >= AmountOf[c]
             /\ balance' = [balance EXCEPT ![AssetOf(c)] = @ - AmountOf[c]]
    <3>1. AssetOf(c) \in Assets /\ balance[AssetOf(c)] \in Nat /\ AmountOf[c] \in Nat
      BY DEF AssetOf, Assets, TransferTypes
    <3>2. balance[AssetOf(c)] - AmountOf[c] \in Nat
      BY <2>2, <3>1
    <3> QED
      BY <2>2, <3>1, <3>2, Zenon DEF TransferTypes
  <2> QED
    BY <2>1, <2>2 DEF Broadcast, Land
<1>3. ThreadTypes'
  BY <1>1 DEF ThreadTypes
<1>10. TransferTypes'
  <2>1. tx' \in [Withdrawals -> {"none", "pending", "mined", "reverted"}]
    BY <1>1 DEF TransferTypes
  <2> QED
    BY <1>1, <1>2, <2>1 DEF TransferTypes
<1>4. CommandInv(c) /\ c \in Commands
  OBVIOUS
<1>5. gw[c] \in {"sending", "replied"} /\ reply[c] \notin {"no", "unauthorised", "sent"}
  BY <1>1, <1>4 DEF CommandInv, MoneyTold
<1>6. CommandInv(c)'
  BY <1>1, <1>4, <1>5 DEF CommandInv, InStep, AddressFiled, HeldGood, Good, MoneyTold
<1>7. \A d \in Commands \ {c} : d \in Withdrawals => tx'[d] = tx[d]
  BY <1>1 DEF TransferTypes
<1> QED
  BY <1>1, <1>3, <1>4, <1>6, <1>7, <1>10, StoreAlone

\* The plugin's steps: of the types a thread works with, those change.
LEMMA PluginStep ==
  ASSUME WalletInv, NEW c \in Commands,
         UNCHANGED <<reply, store, open, chain>>,
         \A d \in Commands \ {c} :
            /\ user'[d] = user[d] /\ gw'[d] = gw[d] /\ late'[d] = late[d]
            /\ held'[d] = held[d] /\ address'[d] = address[d],
         ThreadTypes', told' \in [Withdrawals -> {"none", "sign in failed", "try again", "sent"}],
         cache' = cache \/ (cache' \in [token : 0 .. minted, age : Nat] /\ CacheGood'),
         gw'[c] # gw[c] => gw[c] \notin {"sending", "replied"} /\ gw'[c] # "replied",
         gw'[c] # gw[c] \/ gw[c] # "replied" \/ held'[c] = held[c],
         InStep(c)', AddressFiled(c)',
         user'[c] = "minting" => held'[c] = 0 \/ (user[c] = "minting" /\ held'[c] = held[c] /\ late'[c] = late[c]),
         user'[c] = "ready" \/ gw'[c] = "received" => Good(held'[c], TokenTTL)
  PROVE  WalletInv'
<1> USE WalletAssumption
<1>1. TransferTypes' /\ CommandInv(c)
  BY DEF WalletInv, TransferTypes
<1>2. c \in Withdrawals => MoneyTold(c)'
  BY <1>1 DEF CommandInv, MoneyTold
<1>3. HeldGood(c)'
  BY <1>1 DEF CommandInv, HeldGood, Good, MoneyTold
<1>4. CommandInv(c)'
  BY <1>2, <1>3 DEF CommandInv
<1> QED
  BY <1>1, <1>4, StoreAlone

LEMMA UseCachedTokenStep ==
  ASSUME WalletInv, NEW c \in Commands, UseCachedToken(c) PROVE WalletInv'
<1> USE WalletAssumption DEF WalletInv
<1>1. /\ c \in Withdrawals /\ user[c] = "idle" /\ cache.token # 0 /\ cache.age < TokenTTL - Skew
      /\ held' = [held EXCEPT ![c] = cache.token]
      /\ user' = [user EXCEPT ![c] = "ready"] /\ late' = [late EXCEPT ![c] = FALSE]
      /\ UNCHANGED <<gw, told, cache, address, reply, store, open, chain>>
  BY DEF UseCachedToken, Usable
<1>2. ThreadTypes'
  BY <1>1 DEF ThreadTypes, StoreTypes
<1>3. /\ cache.token \in 0 .. minted /\ cache.age \in Nat
      /\ Good(cache.token, cache.age + 1)
  BY <1>1 DEF CacheGood, StoreTypes
<1>4. Good(cache.token, TokenTTL)
  BY <1>1, <1>3 DEF Good, StoreTypes
<1>5. gw[c] = "none" /\ gw'[c] = "none" /\ user'[c] = "ready" /\ held'[c] = cache.token
  BY <1>1 DEF CommandInv, InStep, ThreadTypes
<1>6. InStep(c)' /\ AddressFiled(c)'
  BY <1>1, <1>5 DEF InStep, AddressFiled
<1>7. Good(held'[c], TokenTTL)
  BY <1>4, <1>5
<1>8. \A d \in Commands \ {c} :
        /\ user'[d] = user[d] /\ gw'[d] = gw[d] /\ late'[d] = late[d]
        /\ held'[d] = held[d] /\ address'[d] = address[d]
  BY <1>1 DEF ThreadTypes
<1> QED
  BY <1>1, <1>2, <1>5, <1>6, <1>7, <1>8, PluginStep DEF TransferTypes

LEMMA AskForWalletStep ==
  ASSUME WalletInv, NEW c \in Commands, AskForWallet(c) PROVE WalletInv'
<1> USE WalletAssumption DEF WalletInv
<1>1. /\ user[c] = "idle"
      /\ cache' = IF c \in Withdrawals THEN NoToken ELSE cache
      /\ user' = [user EXCEPT ![c] = "minting"] /\ late' = [late EXCEPT ![c] = FALSE]
      /\ gw' = [gw EXCEPT ![c] = "asked"]
      /\ UNCHANGED <<told, held, address, reply, store, open, chain>>
  BY DEF AskForWallet
<1>2. ThreadTypes'
  BY <1>1 DEF ThreadTypes
<1>3. cache' = cache \/ (cache' \in [token : 0 .. minted, age : Nat] /\ CacheGood')
  BY <1>1 DEF NoToken, StoreTypes, CacheGood
<1>4. gw[c] = "none" /\ gw'[c] = "asked" /\ user'[c] = "minting" /\ held'[c] = 0
  BY <1>1 DEF CommandInv, InStep, ThreadTypes
<1>5. InStep(c)' /\ AddressFiled(c)'
  BY <1>4 DEF InStep, AddressFiled
<1>6. \A d \in Commands \ {c} :
        /\ user'[d] = user[d] /\ gw'[d] = gw[d] /\ late'[d] = late[d]
        /\ held'[d] = held[d] /\ address'[d] = address[d]
  BY <1>1 DEF ThreadTypes
<1> QED
  BY <1>1, <1>2, <1>3, <1>4, <1>5, <1>6, PluginStep DEF TransferTypes

LEMMA WalletArrivesStep ==
  ASSUME WalletInv, NEW c \in Commands, WalletArrives(c) PROVE WalletInv'
<1> USE WalletAssumption DEF WalletInv
<1>1. /\ user[c] = "minting" /\ gw[c] = "answered"
      /\ cache' = [token |-> held[c], age |-> 0]
      /\ address' = [address EXCEPT ![c] = None]
      /\ user' = [user EXCEPT ![c] = IF c \in Withdrawals THEN "ready" ELSE "done"]
      /\ late' = [late EXCEPT ![c] = FALSE]
      /\ held' = IF c \in Withdrawals THEN held ELSE [held EXCEPT ![c] = 0]
      /\ UNCHANGED <<gw, told, reply, store, open, chain>>
  BY DEF WalletArrives
<1>2. ThreadTypes'
  BY <1>1 DEF ThreadTypes, StoreTypes
<1>3. held[c] \in 0 .. minted /\ minted \in Nat /\ (held[c] # 0 => Good(held[c], 1))
  BY <1>1 DEF CommandInv, HeldGood, ThreadTypes, StoreTypes
<1>4. cache' \in [token : 0 .. minted, age : Nat] /\ CacheGood'
  BY <1>1, <1>3 DEF CacheGood, Good
<1>5. /\ user'[c] = (IF c \in Withdrawals THEN "ready" ELSE "done")
      /\ user'[c] # "minting" /\ gw'[c] = "answered"
      /\ c \in Withdrawals => held'[c] = held[c] /\ held[c] # 0
  <2>1. c \in Withdrawals => held[c] # 0
    BY <1>1 DEF CommandInv, InStep
  <2> QED
    BY <1>1, <2>1 DEF ThreadTypes
<1>6. InStep(c)' /\ AddressFiled(c)'
  BY <1>1, <1>5 DEF CommandInv, InStep, AddressFiled
<1>7. user'[c] = "ready" => Good(held'[c], TokenTTL)
  BY <1>3, <1>5 DEF Good, StoreTypes
<1>8. \A d \in Commands \ {c} :
        /\ user'[d] = user[d] /\ gw'[d] = gw[d] /\ late'[d] = late[d]
        /\ held'[d] = held[d] /\ address'[d] = address[d]
  BY <1>1 DEF ThreadTypes
<1> QED
  BY <1>1, <1>2, <1>4, <1>5, <1>6, <1>7, <1>8, PluginStep DEF TransferTypes

\* The plugin gives up, posts the withdrawal or hears the answer.
LEMMA PostStep ==
  ASSUME WalletInv, NEW c \in Commands, WalletLost(c) \/ Post(c) \/ ReplyArrives(c) \/ ReplyLate(c)
  PROVE  WalletInv'
<1> USE WalletAssumption DEF WalletInv
<1> DEFINE Tells == told' \in [Withdrawals -> {"none", "sign in failed", "try again", "sent"}]
<1>1. Tells
  BY DEF WalletLost, Post, ReplyArrives, ReplyLate, TransferTypes
<1> HIDE DEF Tells
<1>2. /\ \/ user[c] = "minting" /\ user' = [user EXCEPT ![c] = "done"] /\ gw' = gw
         \/ user[c] = "posted" /\ user' = [user EXCEPT ![c] = "done"] /\ gw' = gw
         \/ /\ user[c] = "ready" /\ user' = [user EXCEPT ![c] = "posted"]
            /\ gw' = [gw EXCEPT ![c] = "received"]
      /\ late' = late \/ late' = [late EXCEPT ![c] = FALSE]
      /\ UNCHANGED <<cache, held, address, reply, store, open, chain>>
  BY DEF WalletLost, Post, ReplyArrives, ReplyLate
<1>3. ThreadTypes'
  BY <1>2 DEF ThreadTypes
<1>4. /\ user[c] = "minting" => user'[c] = "done" /\ gw'[c] = gw[c] /\ gw[c] \in Minting
      /\ user[c] = "posted" => user'[c] = "done" /\ gw'[c] = gw[c] /\ gw[c] \in ServingSteps
      /\ user[c] = "ready" => /\ user'[c] = "posted" /\ gw'[c] = "received"
                              /\ gw[c] \in {"none", "answered"} /\ Good(held[c], TokenTTL)
      /\ user[c] \in {"minting", "posted", "ready"} /\ held'[c] = held[c]
      /\ InStep(c) /\ HeldGood(c)
  BY <1>2 DEF ThreadTypes, CommandInv, InStep, HeldGood
<1>5. InStep(c)' /\ AddressFiled(c)'
  BY <1>4 DEF InStep, AddressFiled
<1>6. user'[c] = "ready" \/ gw'[c] = "received" => Good(held'[c], TokenTTL)
  BY <1>4 DEF HeldGood
<1>7. \A d \in Commands \ {c} :
        /\ user'[d] = user[d] /\ gw'[d] = gw[d] /\ late'[d] = late[d]
        /\ held'[d] = held[d] /\ address'[d] = address[d]
  BY <1>2 DEF ThreadTypes
<1> QED
  BY <1>1, <1>2, <1>3, <1>4, <1>5, <1>6, <1>7, PluginStep DEF Tells

\* A token leaves the table only for as many newer ones as the table keeps.
LEMMA PushedOut ==
  ASSUME WalletInv, NEW k \in DOMAIN tokens, k \notin Newest({NewToken} \cup DOMAIN tokens)
  PROVE  minted + 1 >= k + MaxActive
<1> DEFINE newer == {n \in {NewToken} \cup DOMAIN tokens : n > k}
<1>1. k \in 1 .. minted /\ minted \in Nat /\ MaxActive \in Nat
  BY WalletAssumption DEF WalletInv, StoreTypes
<1>2. newer \subseteq (k + 1) .. (minted + 1)
  BY <1>1 DEF WalletInv, StoreTypes, NewToken
<1>3. IsFiniteSet((k + 1) .. (minted + 1)) /\ Cardinality((k + 1) .. (minted + 1)) = minted + 1 - k
  BY <1>1, FS_Interval
<1>4. Cardinality(newer) \in Nat /\ Cardinality(newer) <= minted + 1 - k
  BY <1>2, <1>3, FS_Subset, FS_CardinalityType
<1>5. ~(Cardinality(newer) < MaxActive)
  BY DEF Newest
<1> QED
  BY <1>1, <1>4, <1>5

LEMMA NewIsKept ==
  ASSUME WalletInv
  PROVE  NewToken \in Newest({NewToken} \cup DOMAIN tokens)
<1> DEFINE newer == {n \in {NewToken} \cup DOMAIN tokens : n > NewToken}
<1>1. newer = {}
  BY DEF WalletInv, StoreTypes, NewToken
<1> HIDE DEF newer
<1>2. Cardinality(newer) < MaxActive
  BY <1>1, FS_EmptySet, WalletAssumption
<1> QED
  BY <1>2 DEF Newest, newer

LEMMA IssueStep == ASSUME WalletInv, NEW c \in Commands, Issue(c) PROVE WalletInv'
<1> USE WalletAssumption
<1> DEFINE live == Newest({NewToken} \cup DOMAIN tokens)
<1>1. /\ \/ gw[c] = "asked" /\ c \notin OnSolana /\ gw' = [gw EXCEPT ![c] = "issued"]
         \/ gw[c] = "found" /\ gw' = [gw EXCEPT ![c] = "answered"]
      /\ tokens' = [k \in live |-> AgeOnFile(k)]
      /\ minted' = minted + 1 /\ held' = [held EXCEPT ![c] = minted + 1]
      /\ UNCHANGED <<plugin, address, reply, wallet, open, chain>>
  BY DEF Issue, IssueToken, Hand, NewToken
<1>2. /\ minted \in Nat /\ minted + 1 \in live /\ live \subseteq {minted + 1} \cup DOMAIN tokens
      /\ \A k \in DOMAIN tokens : k \in 1 .. minted /\ tokens[k] \in 0 .. TokenTTL - 1
  BY NewIsKept DEF WalletInv, StoreTypes, Newest, NewToken
<1>3. DOMAIN tokens' = live /\ \A k \in live : tokens'[k] = (IF k = minted + 1 THEN 0 ELSE tokens[k])
  BY <1>1 DEF AgeOnFile, NewToken
<1> HIDE DEF live
<1>4. StoreTypes'
  <2>1. live \subseteq 1 .. (minted + 1) /\ \A k \in live : tokens'[k] \in 0 .. TokenTTL - 1
    BY <1>2, <1>3
  <2>2. tokens' = [k \in live |-> tokens'[k]]
    BY <1>1, <1>3
  <2>3. tokens' \in [live -> 0 .. TokenTTL - 1]
    BY <2>1, <2>2
  <2>4. cache' \in [token : 0 .. minted', age : Nat] /\ wallet' \in [Chains -> Commands \cup {None}]
    BY <1>1, <1>2 DEF WalletInv, StoreTypes
  <2> QED
    BY <1>1, <1>2, <1>3, <2>1, <2>3, <2>4 DEF StoreTypes
<1>5. ASSUME NEW k \in 0 .. minted, NEW age \in Nat, Good(k, age)
      PROVE  Good(k, age)'
  <2>1. CASE k \in DOMAIN tokens /\ k \notin live
    BY <1>1, <1>2, <2>1, PushedOut DEF Good, live
  <2>2. CASE k \in live /\ k \in DOMAIN tokens
    BY <1>1, <1>2, <1>3, <1>5, <2>2 DEF Good
  <2>3. CASE k \notin DOMAIN tokens
    BY <1>1, <1>2, <1>5, <2>3 DEF Good
  <2> QED
    BY <2>1, <2>2, <2>3
<1>6. CacheGood'
  <2>1. cache' = cache /\ cache.token \in 0 .. minted /\ cache.age + 1 \in Nat
    BY <1>1 DEF WalletInv, StoreTypes
  <2>2. Good(cache.token, cache.age + 1) => Good(cache.token, cache.age + 1)'
    BY <1>5, <2>1
  <2> QED
    BY <2>1, <2>2 DEF WalletInv, CacheGood
<1>7. ThreadTypes' /\ TransferTypes'
  <2>1. ThreadTypes'
    BY <1>1, <1>2 DEF WalletInv, ThreadTypes
  <2>2. TransferTypes'
    BY <1>1 DEF WalletInv, TransferTypes
  <2> QED
    BY <2>1, <2>2
<1>8. CommandInv(c)'
  <2>1. /\ held'[c] = minted + 1 /\ user'[c] = user[c]
        /\ \/ gw[c] = "asked" /\ c \notin OnSolana /\ gw'[c] = "issued"
           \/ gw[c] = "found" /\ gw'[c] = "answered"
    BY <1>1 DEF WalletInv, ThreadTypes
  <2>2. CommandInv(c)
    BY DEF WalletInv
  <2>3. InStep(c)'
    BY <1>2, <2>1, <2>2 DEF CommandInv, InStep
  <2>4. held'[c] \in DOMAIN tokens' /\ tokens'[held'[c]] = 0
    BY <1>2, <1>3, <2>1
  <2>5. c \in Withdrawals => reply'[c] = "none"
    BY <1>1, <2>1, <2>2 DEF CommandInv, MoneyTold
  <2>6. user[c] # "ready"
    BY <2>1, <2>2 DEF CommandInv, InStep
  <2>7. HeldGood(c)'
    BY <2>1, <2>4, <2>5, <2>6 DEF HeldGood, Good
  <2>8. AddressFiled(c)' /\ (c \in Withdrawals => MoneyTold(c)')
    BY <1>1, <2>1, <2>2 DEF CommandInv, AddressFiled, MoneyTold
  <2> QED
    BY <2>3, <2>7, <2>8 DEF CommandInv
<1>9. \A d \in Commands \ {c} :
        /\ user'[d] = user[d] /\ gw'[d] = gw[d] /\ late'[d] = late[d]
        /\ held'[d] = held[d] /\ address'[d] = address[d]
        /\ d \in Withdrawals => reply'[d] = reply[d] /\ tx'[d] = tx[d]
  BY <1>1 DEF WalletInv, ThreadTypes
<1> QED
  BY <1>1, <1>2, <1>4, <1>5, <1>6, <1>7, <1>8, <1>9, OneCommand

\* The rest of the creation: the wallet is looked for, inserted, or it fails.
\* A wallet is written where none is, so whoever was told one was told that one.
LEMMA CreationStep ==
  ASSUME WalletInv, NEW c \in Commands,
         NEW s \in {"absent", "found", "answered", "failed"}, NEW a \in Commands \cup {None},
         gw[c] \in {"asked", "issued", "absent", "found"},
         gw' = [gw EXCEPT ![c] = s], address' = [address EXCEPT ![c] = a],
         \/ wallet' = wallet
         \/ wallet[ChainOf(c)] = None /\ wallet' = [wallet EXCEPT ![ChainOf(c)] = c],
         s \in {"found", "answered"} => a = wallet'[ChainOf(c)] /\ a # None,
         s = "found" => c \in OnSolana,
         s \in {"absent", "answered"} => c \in OnSolana \/ gw[c] \in {"issued", "absent"},
         UNCHANGED <<plugin, held, reply, tokens, minted, open, chain>>
  PROVE  WalletInv'
<1> USE WalletAssumption
<1> DEFINE n == ChainOf(c)
<1>1. n \in Chains /\ CommandInv(c)
  BY ChainOfType DEF WalletInv
<1> HIDE DEF n
<1>2. ThreadTypes'
  BY DEF WalletInv, ThreadTypes
<1>3. TransferTypes'
  BY DEF WalletInv, TransferTypes
<1>4. StoreTypes' /\ \A m \in Chains : wallet[m] # None => wallet'[m] = wallet[m]
  BY <1>1 DEF WalletInv, StoreTypes, n
<1>5. /\ minted' \in Nat /\ minted <= minted'
      /\ \A k \in 0 .. minted : \A age \in Nat : Good(k, age) => Good(k, age)'
  BY DEF WalletInv, StoreTypes, Good
<1>6. CacheGood'
  BY DEF WalletInv, CacheGood, Good
<1>7. gw'[c] = s /\ address'[c] = a
  BY DEF WalletInv, ThreadTypes
<1>8. InStep(c)' /\ AddressFiled(c)'
  BY <1>1, <1>7 DEF CommandInv, InStep, AddressFiled
<1>9. HeldGood(c)' /\ (c \in Withdrawals => MoneyTold(c)')
  BY <1>1, <1>7 DEF CommandInv, InStep, HeldGood, Good, MoneyTold
<1>10. \A d \in Commands \ {c} : gw'[d] = gw[d] /\ address'[d] = address[d]
  BY DEF WalletInv, ThreadTypes
<1> QED
  BY <1>2, <1>3, <1>4, <1>5, <1>6, <1>8, <1>9, <1>10, OneCommand DEF CommandInv

LEMMA CreateStep ==
  ASSUME WalletInv, NEW c \in Commands, LookForWallet(c) \/ InsertWallet(c) \/ CreateFails(c)
  PROVE  WalletInv'
<1> USE WalletAssumption
<1> DEFINE n == ChainOf(c)
<1>1. n \in Chains /\ CommandInv(c) /\ wallet[n] \in Commands \cup {None} /\ address[c] \in Commands \cup {None}
  BY ChainOfType DEF WalletInv, ThreadTypes, StoreTypes
<1> HIDE DEF n
<1>2. CASE LookForWallet(c)
  <2>1. /\ gw[c] = IF c \in OnSolana THEN "asked" ELSE "issued"
        /\ gw' = [gw EXCEPT ![c] = IF wallet[n] # None THEN Ready(c) ELSE "absent"]
        /\ address' = [address EXCEPT ![c] = wallet[n]]
        /\ UNCHANGED <<plugin, held, reply, store, open, chain>>
    BY <1>2 DEF LookForWallet, HasWallet, n
  <2> QED
    BY <1>1, <2>1, CreationStep DEF Ready, n
<1>3. CASE InsertWallet(c)
  <2>1. /\ gw[c] = "absent" /\ gw' = [gw EXCEPT ![c] = Ready(c)]
        /\ wallet' = IF wallet[n] # None THEN wallet ELSE [wallet EXCEPT ![n] = c]
        /\ address' = [address EXCEPT ![c] = wallet'[n]]
        /\ UNCHANGED <<plugin, held, reply, tokens, minted, open, chain>>
    BY <1>3 DEF InsertWallet, HasWallet, n
  <2>2. wallet'[n] \in Commands /\ wallet'[n] # None
    BY <1>1, <2>1 DEF WalletInv, StoreTypes
  <2> QED
    BY <1>1, <2>1, <2>2, CreationStep DEF Ready, n
<1>4. CASE CreateFails(c)
  <2>1. /\ gw[c] \in {"asked", "issued", "absent", "found"} /\ gw' = [gw EXCEPT ![c] = "failed"]
        /\ address' = [address EXCEPT ![c] = address[c]]
        /\ UNCHANGED <<plugin, held, reply, store, open, chain>>
    BY <1>4 DEF CreateFails, WalletInv, ThreadTypes
  <2> QED
    BY <1>1, <2>1, CreationStep
<1> QED
  BY <1>2, <1>3, <1>4

\* A token and the plugin's copy of it grow older together; what is held at a
\* tick was minted a tick ago at most.
LEMMA WalletTickStep == ASSUME WalletInv, WalletTick PROVE WalletInv'
<1> USE WalletAssumption
<1> DEFINE live == {k \in DOMAIN tokens : tokens[k] + 1 < TokenTTL}
<1>1. /\ \A c \in Commands : ~late[c] /\ user[c] # "ready" /\ gw[c] # "received"
      /\ late' = [c \in Commands |-> user[c] = "minting"]
      /\ tokens' = [k \in live |-> tokens[k] + 1]
      /\ cache' = IF cache.token # 0 /\ cache.age + 1 < TokenTTL
                  THEN [cache EXCEPT !.age = @ + 1] ELSE NoToken
      /\ UNCHANGED <<user, gw, told, held, address, reply, wallet, minted, open, chain>>
  BY DEF WalletTick
<1>2. /\ minted \in Nat /\ DOMAIN tokens \subseteq 1 .. minted
      /\ \A k \in DOMAIN tokens : tokens[k] \in 0 .. TokenTTL - 1
      /\ cache \in [token : 0 .. minted, age : Nat]
  BY DEF WalletInv, StoreTypes
<1>3. DOMAIN tokens' = live /\ \A k \in live : tokens'[k] = tokens[k] + 1
  BY <1>1
<1>4. ASSUME NEW k \in 0 .. minted, NEW age \in Nat, age + 1 < TokenTTL, Good(k, age)
      PROVE  minted' >= k + MaxActive \/ (k \in DOMAIN tokens' /\ tokens'[k] <= age + 1)
  BY <1>1, <1>2, <1>3, <1>4 DEF Good
<1>5. StoreTypes'
  <2>1. live \subseteq 1 .. minted /\ \A k \in live : tokens[k] + 1 \in 0 .. TokenTTL - 1
    BY <1>2
  <2>2. tokens' \in [live -> 0 .. TokenTTL - 1]
    BY <1>1, <2>1
  <2>3. cache' \in [token : 0 .. minted, age : Nat]
    BY <1>1, <1>2 DEF NoToken
  <2>4. wallet' \in [Chains -> Commands \cup {None}]
    BY <1>1 DEF WalletInv, StoreTypes
  <2> QED
    BY <1>1, <1>2, <1>3, <2>1, <2>2, <2>3, <2>4 DEF StoreTypes
<1>6. ThreadTypes' /\ TransferTypes'
  <2>1. ThreadTypes'
    BY <1>1 DEF WalletInv, ThreadTypes
  <2>2. TransferTypes'
    BY <1>1 DEF WalletInv, TransferTypes
  <2> QED
    BY <2>1, <2>2
<1>7. CacheGood'
  <2>1. CASE cache.token # 0 /\ cache.age + 1 < TokenTTL
    <3>1. cache'.token = cache.token /\ cache'.age = cache.age + 1
      BY <1>1, <1>2, <2>1
    <3>2. cache.token \in 0 .. minted /\ cache.age + 1 \in Nat /\ Good(cache.token, cache.age + 1)
      BY <1>2, <2>1 DEF WalletInv, CacheGood
    <3>3. cache.age + 1 + 1 < TokenTTL =>
            \/ minted' >= cache.token + MaxActive
            \/ cache.token \in DOMAIN tokens' /\ tokens'[cache.token] <= cache.age + 1 + 1
      BY <1>4, <3>2
    <3> QED
      BY <3>1, <3>3 DEF CacheGood, Good
  <2>2. CASE ~(cache.token # 0 /\ cache.age + 1 < TokenTTL)
    BY <1>1, <2>2 DEF CacheGood, NoToken
  <2> QED
    BY <2>1, <2>2
<1>8. ASSUME NEW c \in Commands PROVE CommandInv(c)'
  <2>1. CommandInv(c) /\ held[c] \in 0 .. minted /\ ~late[c] /\ user[c] # "ready" /\ gw[c] # "received"
    BY <1>1 DEF WalletInv, ThreadTypes
  <2>2. late'[c] = (user[c] = "minting")
    BY <1>1
  <2>3. user[c] = "minting" /\ held[c] # 0 =>
          minted' >= held[c] + MaxActive \/ (held[c] \in DOMAIN tokens' /\ tokens'[held[c]] <= 1)
    <3>1. user[c] = "minting" /\ held[c] # 0 => Good(held[c], 0)
      BY <2>1 DEF CommandInv, HeldGood
    <3>2. 0 + 1 < TokenTTL /\ 0 \in Nat
      OBVIOUS
    <3> QED
      BY <1>4, <2>1, <3>1, <3>2
  <2>4. HeldGood(c)'
    <3>1. /\ user'[c] = user[c] /\ gw'[c] = gw[c] /\ held'[c] = held[c] /\ minted' = minted
          /\ reply'[c] = reply[c]
      BY <1>1
    <3>2. c \in Withdrawals => (reply[c] = "unauthorised" => minted >= held[c] + MaxActive)
      BY <2>1 DEF CommandInv, HeldGood
    <3> QED
      BY <2>1, <2>2, <2>3, <3>1, <3>2 DEF HeldGood, Good
  <2>5. InStep(c)' /\ AddressFiled(c)' /\ (c \in Withdrawals => MoneyTold(c)')
    BY <1>1, <2>1 DEF CommandInv, InStep, AddressFiled, MoneyTold
  <2> QED
    BY <2>4, <2>5 DEF CommandInv
<1> QED
  BY <1>5, <1>6, <1>7, <1>8 DEF WalletInv

LEMMA WalletInductive == WalletInv /\ [WalletNext]_walletVars => WalletInv'
<1> SUFFICES ASSUME WalletInv, [WalletNext]_walletVars PROVE WalletInv'
  OBVIOUS
<1>1. CASE WalletTick
  BY <1>1, WalletTickStep
<1>2. ASSUME NEW c \in Commands, Plugin(c) PROVE WalletInv'
  BY <1>2, UseCachedTokenStep, AskForWalletStep, WalletArrivesStep, PostStep DEF Plugin
<1>3. ASSUME NEW c \in Commands, Gateway(c) PROVE WalletInv'
  BY <1>3, IssueStep, CreateStep, AuthoriseStep, ServeStep DEF Gateway, Mint, Serve
<1>4. ASSUME NEW c \in Commands, Chain(c) PROVE WalletInv'
  BY <1>4, ChainStep DEF Chain
<1>5. CASE UNCHANGED walletVars
  <2>1. ThreadTypes' /\ TransferTypes' /\ StoreTypes'
    BY <1>5 DEF walletVars, WalletInv, ThreadTypes, TransferTypes, StoreTypes
  <2>2. CacheGood'
    BY <1>5 DEF walletVars, WalletInv, CacheGood, Good
  <2>3. ASSUME NEW c \in Commands PROVE CommandInv(c)'
    BY <1>5 DEF walletVars, WalletInv, CommandInv, InStep, HeldGood, Good, AddressFiled, MoneyTold
  <2> QED
    BY <2>1, <2>2, <2>3 DEF WalletInv
<1> QED
  BY <1>1, <1>2, <1>3, <1>4, <1>5 DEF WalletNext

LEMMA WalletInvariance == WalletSpec => []WalletInv
BY WalletInitially, WalletInductive, PTL DEF WalletSpec

\* The threads, the wallets and the tokens of a user keep their types.
THEOREM WalletTypeCorrect == WalletSpec => []WalletTypeOK
<1>1. WalletInv => WalletTypeOK
  BY DEF WalletInv, WalletTypeOK, ThreadTypes, TransferTypes, StoreTypes, Minting, ServingSteps
<1> QED
  BY <1>1, WalletInvariance, PTL

\* Whoever is told an address is told the one whose key is on file.
THEOREM AddressIsOnFile == WalletSpec => []OneAddress
<1>1. WalletInv => OneAddress
  BY DEF WalletInv, CommandInv, AddressFiled, OneAddress
<1> QED
  BY <1>1, WalletInvariance, PTL

\* A token works until as many newer ones were minted as the gateway keeps: the
\* plugin never uses one that may have expired, however its calls are delayed.
THEOREM TokensLast == WalletSpec => []TokenTurnover
<1>1. WalletInv => TokenTurnover
  BY WalletAssumption DEF WalletInv, CommandInv, HeldGood, TokenTurnover
<1> QED
  BY <1>1, WalletInvariance, PTL

\* A withdrawal that was answered "nothing moved" never moves, and "sent" is mined.
THEOREM AssurancesHold == WalletSpec => []AssuranceIsTrue
<1>1. WalletInv => AssuranceIsTrue
  BY WalletAssumption DEF WalletInv, CommandInv, MoneyTold, AssuranceIsTrue
<1> QED
  BY <1>1, WalletInvariance, PTL
==============================================================================
