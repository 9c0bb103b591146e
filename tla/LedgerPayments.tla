--------------------------- MODULE LedgerPayments ---------------------------
(***************************************************************************)
(* The Ledger approval lane of /agent/buy-tool                             *)
(* (sign402_gateway/ledger_payments.py): LedgerOperationStore, one SQLite  *)
(* row per request id of the configured owner, and LedgerPayments, whose   *)
(* start, approve, cancel and status run in the threads of the HTTP        *)
(* server.  One store method is one BEGIN IMMEDIATE transaction, hence one *)
(* action; threads interleave between transactions and between the hooks   *)
(* build_ledger_payments (server.py) passes in.  A crash ends every thread *)
(* and keeps the rows, the holds and the claims.                           *)
(***************************************************************************)
EXTENDS Integers

CONSTANTS
  Requests,    \* request ids of the owner
  Threads,     \* HTTP handler threads
  NoRequest,
  TTL,         \* TTL_SECONDS
  HooksFail,   \* a release, a settlement or a write may raise
  MaxCrashes, MaxPauses, MaxTime   \* bounds

ASSUME LedgerAssumption ==
  /\ NoRequest \notin Requests
  /\ TTL \in Nat \ {0}
  /\ HooksFail \in BOOLEAN
  /\ MaxCrashes \in Nat /\ MaxPauses \in Nat /\ MaxTime \in Nat

VARIABLES
  now,
  paused,      \* _purchases_paused
  pauses,
  crashes,
  status,      \* the row: its state, "none" without a row
  expiresAt,
  needsSig,    \* "needsSignature"
  handles,     \* rows with reservationId and claimId saved
  pc, job,     \* each thread: the step it is at, the request it serves
  budget,      \* requests holding budget in UserSpendLimitStore
  claims,      \* requests holding a claim in spending_memory, settled or not
  consent,     \* requests whose approval carried a signature that verified
  sent,        \* how often each request was given to the payer
  moved        \* requests whose money left the wallet

rowVars == <<status, expiresAt, needsSig, handles>>
envVars == <<now, paused, pauses, crashes>>
moneyVars == <<budget, claims, consent, sent, moved>>
vars == <<envVars, rowVars, pc, job, moneyVars>>

Unresolved == {"executing", "uncertain"}
Dead == {"failed", "cancelled", "expired"}
Final == Dead \cup {"succeeded", "uncertain"}
Statuses == {"none", "preparing", "pending", "executing"} \cup Final

Waiting == {"idle", "inspecting", "aborting", "approving", "cancelling", "accepted"}
Before == {"checking", "reserving", "claiming", "persisting", "gate",
           "releasing", "unclaiming", "failing"}
After == {"paying", "saving", "settling", "finishing", "losing"}
Steps == Waiting \cup Before \cup After

Init ==
  /\ now = 0 /\ paused = FALSE /\ pauses = 0 /\ crashes = 0
  /\ status = [r \in Requests |-> "none"]
  /\ expiresAt = [r \in Requests |-> 0]
  /\ needsSig = [r \in Requests |-> TRUE]
  /\ handles = {}
  /\ pc = [t \in Threads |-> "idle"]
  /\ job = [t \in Threads |-> NoRequest]
  /\ budget = {} /\ claims = {} /\ consent = {} /\ moved = {}
  /\ sent = [r \in Requests |-> 0]

Goto(t, s) == pc' = [pc EXCEPT ![t] = s] /\ UNCHANGED job
Begin(t, r, s) ==
  pc[t] = "idle" /\ pc' = [pc EXCEPT ![t] = s] /\ job' = [job EXCEPT ![t] = r]
Leave(t) ==
  pc' = [pc EXCEPT ![t] = "idle"] /\ job' = [job EXCEPT ![t] = NoRequest]
SetStatus(r, s) ==
  status' = [status EXCEPT ![r] = s] /\ UNCHANGED <<expiresAt, needsSig, handles>>

\* LedgerOperationStore.get: a row past its time expires as it is read
Lapsed(r) == status[r] \in {"preparing", "pending"} /\ expiresAt[r] <= now
Read(r) == IF Lapsed(r) THEN SetStatus(r, "expired") ELSE UNCHANGED rowVars
StatusRead(r) == IF Lapsed(r) THEN "expired" ELSE status[r]

\* LedgerPayments.status
Status(r) ==
  /\ Lapsed(r)
  /\ Read(r)
  /\ UNCHANGED <<envVars, pc, job, moneyVars>>

\* LedgerOperationStore.create and the first half of start: a known request
\* only has its status read; no new one starts beside an unresolved one
OthersUnresolved_Uncertain(r) ==   \* a mutant: an execution under way is missed
  \E q \in Requests \ {r} : status[q] = "uncertain"
OthersUnresolved(r) == \E q \in Requests \ {r} : status[q] \in Unresolved
Create(t, r) ==
  /\ status[r] = "none"
  /\ ~OthersUnresolved(r)
  /\ Begin(t, r, "inspecting")
  /\ status' = [status EXCEPT ![r] = "preparing"]
  /\ expiresAt' = [expiresAt EXCEPT ![r] = now + TTL]
  /\ UNCHANGED <<envVars, needsSig, handles, moneyVars>>

\* start, after inspect and decide: BLOCK, or pending with or without the
\* need for a signature; PAY goes on to approve in the same thread
Decide(t) ==
  /\ pc[t] = "inspecting" /\ status[job[t]] = "preparing"
  /\ \/ SetStatus(job[t], "failed") /\ Leave(t)
     \/ \E sign \in BOOLEAN :
          /\ status' = [status EXCEPT ![job[t]] = "pending"]
          /\ needsSig' = [needsSig EXCEPT ![job[t]] = sign]
          /\ UNCHANGED <<expiresAt, handles>>
          /\ IF sign THEN Leave(t) ELSE Goto(t, "approving")
  /\ UNCHANGED <<envVars, moneyVars>>

\* start, except: the row is read, and failed if it is still preparing
InspectRaises(t) ==
  /\ pc[t] = "inspecting"
  /\ Read(job[t])
  /\ IF StatusRead(job[t]) = "preparing" THEN Goto(t, "aborting") ELSE Leave(t)
  /\ UNCHANGED <<envVars, moneyVars>>
Abort(t) ==
  /\ pc[t] = "aborting"
  /\ IF status[job[t]] = "preparing" THEN SetStatus(job[t], "failed")
                                     ELSE UNCHANGED rowVars
  /\ Leave(t)
  /\ UNCHANGED <<envVars, moneyVars>>

\* cancel: a read, then a transition that expects pending
CancelRead(t, r) ==
  /\ status[r] # "none"
  /\ Read(r)
  /\ StatusRead(r) = "pending"
  /\ Begin(t, r, "cancelling")
  /\ UNCHANGED <<envVars, moneyVars>>
Cancel_NoExpected(t) ==   \* a mutant: the transition does not expect pending
  /\ pc[t] = "cancelling"
  /\ SetStatus(job[t], "cancelled")
  /\ Leave(t)
  /\ UNCHANGED <<envVars, moneyVars>>
Cancel(t) ==
  /\ pc[t] = "cancelling"
  /\ IF status[job[t]] = "pending" THEN SetStatus(job[t], "cancelled")
                                   ELSE UNCHANGED rowVars
  /\ Leave(t)
  /\ UNCHANGED <<envVars, moneyVars>>

\* approve, up to the transition: only a pending row, not while paused, and
\* only with a signature of an approver over this row's approval when one is
\* needed (verify_approval)
MayApprove_Unsigned(r, signed) ==   \* a mutant: nothing verified
  StatusRead(r) = "pending" /\ ~paused
MayApprove(r, signed) ==
  StatusRead(r) = "pending" /\ ~paused /\ (needsSig[r] => signed)
Consent(r, signed) ==
  consent' = IF needsSig[r] /\ signed THEN consent \cup {r} ELSE consent
ApproveRead(t, r, signed) ==
  /\ status[r] # "none"
  /\ Read(r)
  /\ MayApprove(r, signed)
  /\ Begin(t, r, "accepted")
  /\ Consent(r, signed)
  /\ UNCHANGED <<envVars, budget, claims, sent, moved>>
AutoApprove(t) ==
  /\ pc[t] = "approving"
  /\ Read(job[t])
  /\ IF MayApprove(job[t], FALSE) THEN Goto(t, "accepted") ELSE Leave(t)
  /\ UNCHANGED <<envVars, moneyVars>>

\* transition pending -> executing: the winner, unexpired, alone (a loser
\* that came from start reads the row once more)
Execute_NotCompared(t) ==   \* a mutant: read, then written without comparing
  /\ pc[t] = "accepted"
  /\ IF now < expiresAt[job[t]] /\ ~OthersUnresolved(job[t])
     THEN SetStatus(job[t], "executing") /\ Goto(t, "checking")
     ELSE UNCHANGED rowVars /\ Leave(t)
  /\ UNCHANGED <<envVars, moneyVars>>
Execute(t) ==
  /\ pc[t] = "accepted"
  /\ IF /\ status[job[t]] = "pending"
        /\ now < expiresAt[job[t]]
        /\ ~OthersUnresolved(job[t])
     THEN SetStatus(job[t], "executing") /\ Goto(t, "checking")
     ELSE (UNCHANGED rowVars \/ Read(job[t])) /\ Leave(t)
  /\ UNCHANGED <<envVars, moneyVars>>

\* The quote and the decision are looked at again: gone on with, or refused
Recheck(t) ==
  /\ pc[t] = "checking"
  /\ Goto(t, "reserving") \/ Goto(t, "failing")
  /\ UNCHANGED <<envVars, rowVars, moneyVars>>
ReserveBudget(t) ==
  /\ pc[t] = "reserving"
  /\ \/ Goto(t, "claiming") /\ budget' = budget \cup {job[t]}
     \/ Goto(t, "failing") /\ UNCHANGED budget
  /\ UNCHANGED <<envVars, rowVars, claims, consent, sent, moved>>
ClaimPayment_KeepsHold(t) ==   \* a mutant: a refused claim keeps the hold
  /\ pc[t] = "claiming"
  /\ \/ Goto(t, "persisting") /\ claims' = claims \cup {job[t]}
     \/ Goto(t, "failing") /\ UNCHANGED claims
  /\ UNCHANGED <<envVars, rowVars, budget, consent, sent, moved>>
ClaimPayment(t) ==
  /\ pc[t] = "claiming"
  /\ \/ Goto(t, "persisting") /\ claims' = claims \cup {job[t]}
     \/ Goto(t, "releasing") /\ UNCHANGED claims
  /\ UNCHANGED <<envVars, rowVars, budget, consent, sent, moved>>
PersistHandles(t) ==
  /\ pc[t] = "persisting"
  /\ \/ Goto(t, "gate") /\ handles' = handles \cup {job[t]}
     \/ HooksFail /\ Goto(t, "releasing") /\ UNCHANGED handles
  /\ UNCHANGED <<envVars, status, expiresAt, needsSig, moneyVars>>

Gate_Unchecked(t) ==   \* a mutant: the checks before the signature were enough
  /\ pc[t] = "gate"
  /\ Goto(t, "paying") /\ sent' = [sent EXCEPT ![job[t]] = @ + 1]
  /\ UNCHANGED <<envVars, rowVars, budget, claims, consent, moved>>
\* The last check, payment_started, and the call of the payer
Gate(t) ==
  /\ pc[t] = "gate"
  /\ IF paused \/ expiresAt[job[t]] <= now
     THEN Goto(t, "releasing") /\ UNCHANGED sent
     ELSE Goto(t, "paying") /\ sent' = [sent EXCEPT ![job[t]] = @ + 1]
  /\ UNCHANGED <<envVars, rowVars, budget, claims, consent, moved>>

MoneyMoves(t) ==
  /\ pc[t] = "paying" /\ job[t] \notin moved
  /\ moved' = moved \cup {job[t]}
  /\ UNCHANGED <<envVars, rowVars, pc, job, budget, claims, consent, sent>>

\* The payer confirms, or raises whatever happened to the money
PayReturns(t) ==
  /\ pc[t] = "paying"
  /\ (job[t] \in moved /\ Goto(t, "saving")) \/ Goto(t, "losing")
  /\ UNCHANGED <<envVars, rowVars, moneyVars>>
SaveResult(t) ==
  /\ pc[t] = "saving"
  /\ Goto(t, "settling") \/ (HooksFail /\ Goto(t, "losing"))
  /\ UNCHANGED <<envVars, rowVars, moneyVars>>
\* settle: the hold becomes a record, the claim is settled; it may raise
\* before or after the first of the two
SettleAccounts(t) ==
  /\ pc[t] = "settling"
  /\ \/ Goto(t, "finishing") /\ budget' = budget \ {job[t]}
     \/ HooksFail /\ Goto(t, "losing") /\ budget' \in {budget, budget \ {job[t]}}
  /\ UNCHANGED <<envVars, rowVars, claims, consent, sent, moved>>
Finish_NewState(t) ==   \* a mutant: a state the row does not know
  /\ pc[t] = "finishing"
  /\ SetStatus(job[t], "settled") /\ Leave(t)
  /\ UNCHANGED <<envVars, moneyVars>>
Finish(t) ==
  /\ pc[t] = "finishing"
  /\ \/ SetStatus(job[t], "succeeded") /\ Leave(t)
     \/ HooksFail /\ UNCHANGED rowVars /\ Goto(t, "losing")
  /\ UNCHANGED <<envVars, moneyVars>>

\* except, payment started: uncertain, nothing given back
Lose_Failed(t) ==   \* mutants: reported failed; everything given back
  /\ pc[t] = "losing"
  /\ SetStatus(job[t], "failed")
  /\ Leave(t)
  /\ UNCHANGED <<envVars, moneyVars>>
Lose_GivesBack(t) ==
  /\ pc[t] = "losing"
  /\ Goto(t, "releasing")
  /\ UNCHANGED <<envVars, rowVars, moneyVars>>
Lose(t) ==
  /\ pc[t] = "losing"
  /\ SetStatus(job[t], "uncertain") \/ (HooksFail /\ UNCHANGED rowVars)
  /\ Leave(t)
  /\ UNCHANGED <<envVars, moneyVars>>

\* except, payment not started: the hold, the claim, then failed; an
\* exception in between leaves the row executing
ReleaseBudget(t) ==
  /\ pc[t] = "releasing"
  /\ \/ Goto(t, "unclaiming") /\ budget' = budget \ {job[t]}
     \/ HooksFail /\ Leave(t) /\ UNCHANGED budget
  /\ UNCHANGED <<envVars, rowVars, claims, consent, sent, moved>>
ReleaseClaim(t) ==
  /\ pc[t] = "unclaiming"
  /\ \/ Goto(t, "failing") /\ claims' = claims \ {job[t]}
     \/ HooksFail /\ Leave(t) /\ UNCHANGED claims
  /\ UNCHANGED <<envVars, rowVars, budget, consent, sent, moved>>
Fail_NotWritten(t) ==   \* a mutant: the row is left as it is
  /\ pc[t] = "failing"
  /\ Leave(t)
  /\ UNCHANGED <<envVars, rowVars, moneyVars>>
Fail(t) ==
  /\ pc[t] = "failing"
  /\ SetStatus(job[t], "failed") \/ (HooksFail /\ UNCHANGED rowVars)
  /\ Leave(t)
  /\ UNCHANGED <<envVars, moneyVars>>

Crash ==
  /\ crashes < MaxCrashes
  /\ crashes' = crashes + 1
  /\ pc' = [t \in Threads |-> "idle"]
  /\ job' = [t \in Threads |-> NoRequest]
  /\ UNCHANGED <<now, paused, pauses, rowVars, moneyVars>>
Tick ==
  /\ now < MaxTime
  /\ now' = now + 1
  /\ UNCHANGED <<paused, pauses, crashes, rowVars, pc, job, moneyVars>>
TogglePause ==
  /\ pauses < MaxPauses
  /\ pauses' = pauses + 1
  /\ paused' = ~paused
  /\ UNCHANGED <<now, crashes, rowVars, pc, job, moneyVars>>

\* A request the owner's client sends
Receive(t, r) ==
  \/ Create(t, r)
  \/ CancelRead(t, r)
  \/ \E signed \in BOOLEAN : ApproveRead(t, r, signed)

\* What a thread does on its own once it has begun
Proceed(t) ==
  \/ Decide(t) \/ InspectRaises(t) \/ Abort(t) \/ Cancel(t)
  \/ AutoApprove(t) \/ Execute(t) \/ Recheck(t)
  \/ ReserveBudget(t) \/ ClaimPayment(t) \/ PersistHandles(t) \/ Gate(t)
  \/ PayReturns(t) \/ SaveResult(t) \/ SettleAccounts(t) \/ Finish(t) \/ Lose(t)
  \/ ReleaseBudget(t) \/ ReleaseClaim(t) \/ Fail(t)

Next ==
  \/ \E t \in Threads : Proceed(t) \/ MoneyMoves(t) \/ \E r \in Requests : Receive(t, r)
  \/ \E r \in Requests : Status(r)
  \/ Crash \/ Tick \/ TogglePause

Spec == Init /\ [][Next]_vars

\* Every hook has a timeout, so a thread that began goes on to its end.
FairSpec == Spec /\ \A t \in Threads : WF_vars(Proceed(t))
-----------------------------------------------------------------------------
TypeOK ==
  /\ now \in Nat /\ pauses \in Nat /\ crashes \in Nat
  /\ paused \in BOOLEAN
  /\ status \in [Requests -> Statuses]
  /\ expiresAt \in [Requests -> Nat]
  /\ needsSig \in [Requests -> BOOLEAN]
  /\ handles \subseteq Requests
  /\ pc \in [Threads -> Steps]
  /\ job \in [Threads -> Requests \cup {NoRequest}]
  /\ budget \subseteq Requests /\ claims \subseteq Requests
  /\ consent \subseteq Requests /\ moved \subseteq Requests
  /\ sent \in [Requests -> Nat]

\* "A previous Ledger payment needs reconciliation before another can start":
\* never two rows of the owner executing or uncertain, whatever threads
\* approve at once and wherever the gateway crashes.
OneUnresolved ==
  \A q, r \in Requests :
    status[q] \in Unresolved /\ status[r] \in Unresolved => q = r

\* "At most one submission per request ID": the payer is called once at most
\* for a request, over all threads, retries and restarts.
SentAtMostOnce == \A r \in Requests : sent[r] <= 1

\* An escalated purchase is given to the payer only after a signature over
\* its own approval verified.
SentWithConsent ==
  \A r \in Requests : sent[r] > 0 /\ needsSig[r] => r \in consent

\* A row that says no payment was sent (failed, cancelled, expired) tells the
\* truth: its request was never given to the payer.
DeadNeverSent == \A r \in Requests : status[r] \in Dead => sent[r] = 0

\* A request that is over without payment, or still waits for the device,
\* holds no budget and no claim.
IdleHoldsNothing ==
  \A r \in Requests :
    status[r] \in Dead \cup {"none", "preparing", "pending"} =>
      r \notin budget /\ r \notin claims

\* Once given to the payer a request keeps its claim and the handles an
\* operator needs to reconcile it, through every failure and every crash.
SentKeepsEvidence ==
  \A r \in Requests : sent[r] > 0 => r \in claims /\ r \in handles

\* A final state is final: no thread that was late overwrites it.
FinalIsFinal ==
  [][\A r \in Requests : status[r] \in Final => status'[r] = status[r]]_vars

\* While the gateway stays up and its hooks do not fail, an execution reaches
\* succeeded, failed or uncertain.
ExecutionResolves ==
  \A r \in Requests : status[r] = "executing" ~> status[r] \in Final

\* The lane implements its promise: each call of the payer is one Send.
Abstract == INSTANCE AtMostOncePayment WITH
  open <- {r \in Requests : sent[r] > 0 /\ status[r] # "succeeded"},
  dead <- {r \in Requests : status[r] \in Dead},
  lapsed <- {r \in Requests : status[r] # "none" /\ expiresAt[r] <= now}
ImplementsAtMostOnce == Abstract!Spec
=============================================================================
