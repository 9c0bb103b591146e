--------------------------- MODULE BankrPurchases ---------------------------
(***************************************************************************)
(* Bankr LLM credits bought from a managed wallet (bankr_llm_purchase.py): *)
(* the rows of one buyer, the requests that work on them at the same time, *)
(* and the sweep that settles what its request could not wait for.         *)
(*                                                                         *)
(* A request reads a row, works, and moves the row on with transition, one *)
(* UPDATE ... WHERE state = expected.  Each read, each transition and each *)
(* wait for Bankr, the chain or the buyer is a step of its own.  A top-up  *)
(* whose answer is lost may still be credited later, or never.             *)
(***************************************************************************)
EXTENDS Integers, FiniteSets

CONSTANTS
  Purchases,       \* 1..n, in the order they are created
  Requests,        \* HTTP requests served at the same time
  Sweeper,         \* the settlement worker
  OtpTTL,          \* otp_ttl_seconds
  MaxOtpAttempts,
  SettleAge,       \* max_age_seconds of the sweep
  SettleLimit,     \* places on its list that older rows of other buyers leave
  Unknown,         \* no baseline could be read
  MaxEvents, MaxCrashes, MaxTime   \* bounds: calls and crashes, crashes, the clock

ASSUME BankrAssumption ==
  /\ Purchases \subseteq Nat \ {0} /\ Sweeper \notin Requests /\ Unknown \notin Nat
  /\ IsFiniteSet(Requests)
  /\ {OtpTTL, MaxOtpAttempts, SettleAge, SettleLimit} \subseteq Nat
  /\ {MaxEvents, MaxCrashes, MaxTime} \subseteq Nat

VARIABLES
  now, calls, crashes,
  terms,                        \* terms_accepted_at of the buyer
  state, updatedAt,             \* a row: its state, "none" before it is there
  expiresAt, attempts,
  key, baseline, hash,          \* identity saved, baselineCreditsUsd, transferHash
  delivered,                    \* apiKeyDeliveredAt
  pc, cur, was,                 \* a thread: its step, its row, the state it read
  consent,                      \* rows whose commitment the buyer approved
  transfers, moved,             \* transfers asked for, and the rows that were paid
  tried, open, balance,         \* top-ups not refused; those still open; credits
  reconciled,                   \* reconcile calls that went on with a row
  joined,                       \* resumes that found a row topping up
  recorded, revealed            \* spends recorded, answers that held the key

stateVars == <<state, updatedAt>>
rowVars == <<stateVars, expiresAt, attempts, key, baseline, hash, delivered>>
threadVars == <<pc, cur, was>>
moneyVars == <<transfers, moved, tried, open, balance>>
doneVars == <<recorded, revealed>>
askVars == <<reconciled, joined>>
envVars == <<now, crashes, terms, consent, askVars>>
vars == <<calls, envVars, rowVars, threadVars, moneyVars, doneVars>>

Threads == Requests \cup {Sweeper}
TERMINAL_STATES ==
  {"COMPLETE", "REJECTED", "EXPIRED", "FAILED_BEFORE_TRANSFER", "RECONCILIATION_REQUIRED"}
Open == {"AWAITING_TERMS", "AWAITING_OTP", "CREATING_BANKR_KEY",
         "BANKR_KEY_CREATION_UNCERTAIN", "BANKR_KEY_CREATED",
         "AWAITING_IMESSAGE_APPROVAL", "AWAITING_TRANSFER", "TRANSFERRING_SINGIT",
         "TOPPING_UP_BANKR"}
Active == {p \in Purchases : state[p] \in Open}
New == {p \in Purchases : state[p] = "none" /\ \A o \in Purchases : o < p => state[o] # "none"}
Expired(p) == expiresAt[p] <= now
Steps == {"idle", "expiring", "creating", "otp", "verifying", "keying", "keyed",
          "pricing", "approval", "resuming", "checking", "transfer", "topup",
          "polling", "crediting", "completing", "recording", "delivering"}

Init ==
  /\ now = 0 /\ calls = 0 /\ crashes = 0 /\ terms \in BOOLEAN
  /\ state = [p \in Purchases |-> "none"] /\ updatedAt = [p \in Purchases |-> 0]
  /\ expiresAt = [p \in Purchases |-> 0]
  /\ attempts = [p \in Purchases |-> 0]
  /\ key = {} /\ hash = {} /\ delivered = {}
  /\ baseline = [p \in Purchases |-> Unknown]
  /\ pc = [t \in Threads |-> "idle"]
  /\ cur = [t \in Threads |-> 0] /\ was = [t \in Threads |-> "none"]
  /\ consent = {} /\ moved = {} /\ balance = 0 /\ open = 0
  /\ transfers = [p \in Purchases |-> 0] /\ tried = [p \in Purchases |-> 0]
  /\ reconciled = [p \in Purchases |-> 0] /\ joined = [p \in Purchases |-> 0]
  /\ recorded = [p \in Purchases |-> 0] /\ revealed = [p \in Purchases |-> 0]

Plus(f, p) == [f EXCEPT ![p] = @ + 1]
Touch(p) == updatedAt' = [updatedAt EXCEPT ![p] = now]
Put(p, s) == state' = [state EXCEPT ![p] = s] /\ Touch(p)
\* transition: True when the row still was in the expected state
Transition_Unguarded(p, from, to) == Put(p, to)   \* a mutant: no WHERE state
Transition(p, from, to) ==
  IF state[p] = from THEN Put(p, to) ELSE UNCHANGED stateVars

\* A thread's next step; what a request starts with
At(t, s) == pc[t] = s
Goto(t, s) == pc' = [pc EXCEPT ![t] = s]
GotoAs(t, s, from) == Goto(t, s) /\ was' = [was EXCEPT ![t] = from]
Take(t, s, p) ==
  /\ Goto(t, s)
  /\ cur' = [cur EXCEPT ![t] = p] /\ was' = [was EXCEPT ![t] = state[p]]
Called(t) == t \in Requests /\ At(t, "idle") /\ calls + crashes < MaxEvents /\ calls' = calls + 1
\* _handle_agent_llm_purchase: an answer of verify that says AWAITING_TRANSFER
\* is resumed
Answer(t) ==
  Goto(t, IF state'[cur[t]] = "AWAITING_TRANSFER" THEN "resuming" ELSE "idle")

RowRest == UNCHANGED <<expiresAt, attempts, key, baseline, hash, delivered>>
Same == UNCHANGED <<calls, envVars>>
NoMoney == UNCHANGED <<moneyVars, doneVars>>
Kept == UNCHANGED <<cur, was>>

-----------------------------------------------------------------------------
(* start, accept_terms: from the first message to the verification code *)

\* what start, accept_terms and verify_otp do first: an active row that is over
\* its time is expired, whatever its state
ExpireFirst(t, p) == Expired(p) /\ Take(t, "expiring", p)
Start(t) ==
  /\ Called(t)
  /\ \/ Active = {} /\ Goto(t, "creating") /\ Kept
     \/ \E p \in Active : ExpireFirst(t, p)
  /\ UNCHANGED <<envVars, rowVars, moneyVars, doneVars>>
\* _expire_purchase
Expire(t) ==
  /\ At(t, "expiring")
  /\ Transition(cur[t], was[t], "EXPIRED")
  /\ Goto(t, "idle") /\ Kept /\ Same /\ RowRest /\ NoMoney
\* create_purchase: one row that is not terminal, by check and unique index; an
\* active one is returned instead, and gets a code as well
Create(t) ==
  LET code == IF terms THEN "otp" ELSE "idle" IN
  /\ At(t, "creating")
  /\ \/ \E p \in Active : Take(t, code, p) /\ UNCHANGED <<stateVars, expiresAt>>
     \/ /\ Active = {}
        /\ \/ \E p \in New :
                /\ Put(p, IF terms THEN "AWAITING_OTP" ELSE "AWAITING_TERMS")
                /\ expiresAt' = [expiresAt EXCEPT ![p] = now + OtpTTL]
                /\ Take(t, code, p)
           \/ New = {} /\ Goto(t, "idle") /\ Kept /\ UNCHANGED <<stateVars, expiresAt>>
  /\ Same /\ UNCHANGED <<attempts, key, baseline, hash, delivered>> /\ NoMoney
AcceptTerms(t) ==
  /\ Called(t)
  /\ \E p \in Active :
       \/ ExpireFirst(t, p) /\ UNCHANGED <<terms, stateVars>>
       \/ /\ ~Expired(p) /\ terms' = TRUE
          /\ Transition(p, "AWAITING_TERMS", "AWAITING_OTP")
          /\ IF state'[p] = "AWAITING_OTP" THEN Take(t, "otp", p) ELSE UNCHANGED threadVars
  /\ UNCHANGED <<now, crashes, consent, askVars>> /\ RowRest /\ NoMoney
\* _send_otp_or_fail
SendOtp(t) ==
  /\ At(t, "otp")
  /\ \/ UNCHANGED stateVars
     \/ Transition(cur[t], "AWAITING_OTP", "FAILED_BEFORE_TRANSFER")
  /\ Goto(t, "idle") /\ Kept /\ Same /\ RowRest /\ NoMoney

-----------------------------------------------------------------------------
(* verify_otp: the key, the price, the approval *)

Verify(t) ==
  /\ Called(t)
  /\ \E p \in Active :
       \/ ExpireFirst(t, p)
       \/ /\ ~Expired(p)
          /\ \/ state[p] \in {"AWAITING_OTP", "BANKR_KEY_CREATED"} /\ Take(t, "verifying", p)
             \/ state[p] = "AWAITING_TRANSFER" /\ Take(t, "resuming", p)
  /\ UNCHANGED <<envVars, rowVars, moneyVars, doneVars>>
\* No wallet; a row with its key goes on; or this request creates the key
Verifying(t) ==
  LET p == cur[t] IN
  /\ At(t, "verifying")
  /\ \/ /\ Transition(p, "AWAITING_OTP",
                      IF was[t] = "AWAITING_OTP" THEN "FAILED_BEFORE_TRANSFER" ELSE "AWAITING_OTP")
        /\ Answer(t)
     \/ was[t] = "BANKR_KEY_CREATED" /\ p \in key /\ Goto(t, "pricing") /\ UNCHANGED stateVars
     \/ /\ was[t] = "AWAITING_OTP" /\ p \notin key
        /\ Transition(p, "AWAITING_OTP", "CREATING_BANKR_KEY")
        /\ IF state[p] = "AWAITING_OTP" THEN Goto(t, "keying") ELSE Answer(t)
  /\ Kept /\ Same /\ RowRest /\ NoMoney
\* verify_and_create_key: a wrong code (_record_invalid_otp), a refusal or no
\* clear answer (_mark_key_creation_uncertain), or two keys (save_bankr_identity)
InvalidOtp(t, p) ==
  /\ attempts' = Plus(attempts, p) /\ Touch(p)
  /\ state' = IF state[p] # "CREATING_BANKR_KEY" THEN state
              ELSE [state EXCEPT ![p] =
                      IF attempts[p] + 1 >= MaxOtpAttempts THEN "EXPIRED" ELSE "AWAITING_OTP"]
  /\ Answer(t) /\ UNCHANGED key
KeyUncertain(t, p) ==
  /\ \E s \in {"FAILED_BEFORE_TRANSFER", "BANKR_KEY_CREATION_UNCERTAIN"} :
       Transition(p, "CREATING_BANKR_KEY", s)
  /\ Answer(t) /\ UNCHANGED <<attempts, key>>
SaveIdentity(t, p) ==
  key' = key \cup {p} /\ Touch(p) /\ Goto(t, "keyed") /\ UNCHANGED <<state, attempts>>
CreateKey(t) ==
  LET p == cur[t] IN
  /\ At(t, "keying")
  /\ InvalidOtp(t, p) \/ KeyUncertain(t, p) \/ SaveIdentity(t, p)
  /\ Kept /\ Same /\ UNCHANGED <<expiresAt, baseline, hash, delivered>> /\ NoMoney
\* save_bankr_identity was done; _baseline_credits_usd and the transition
KeyCreated(t) ==
  LET p == cur[t] IN
  /\ At(t, "keyed")
  /\ IF state[p] = "CREATING_BANKR_KEY"
     THEN /\ Put(p, "BANKR_KEY_CREATED") /\ Goto(t, "pricing")
          /\ \E b \in {balance, Unknown} : baseline' = [baseline EXCEPT ![p] = b]
     ELSE UNCHANGED <<stateVars, baseline>> /\ Answer(t)
  /\ Kept /\ Same /\ UNCHANGED <<expiresAt, attempts, key, hash, delivered>> /\ NoMoney
\* enforce_spend: per transaction and per day, over what is recorded; it raises
OverLimits(t) == Goto(t, "idle") /\ UNCHANGED stateVars
\* pricing and enforce_spend; then the approval is asked for
Price(t) ==
  LET p == cur[t] IN
  /\ At(t, "pricing")
  /\ \/ OverLimits(t)
     \/ /\ Transition(p, "BANKR_KEY_CREATED", "AWAITING_IMESSAGE_APPROVAL")
        /\ IF state[p] = "BANKR_KEY_CREATED" THEN Goto(t, "approval") ELSE Answer(t)
  /\ Kept /\ Same /\ RowRest /\ NoMoney
\* request_hash_approval and _apply_approval_result; or it raises
Approve(t) ==
  LET p == cur[t] IN
  /\ At(t, "approval")
  /\ \/ /\ consent' = consent \cup {p}
        /\ Transition(p, "AWAITING_IMESSAGE_APPROVAL", "AWAITING_TRANSFER") /\ Answer(t)
     \/ /\ \E s \in {"EXPIRED", "REJECTED"} : Transition(p, "AWAITING_IMESSAGE_APPROVAL", s)
        /\ Answer(t) /\ UNCHANGED consent
     \/ Goto(t, "idle") /\ UNCHANGED <<stateVars, consent>>
  /\ Kept /\ UNCHANGED <<calls, now, crashes, terms, askVars>> /\ RowRest /\ NoMoney

-----------------------------------------------------------------------------
(* resume: the transfer, the top-up, the key *)

\* One resume gets the transfer; another finds it under way and, unless it read
\* the row before, hands the purchase to reconciliation
Resume_Again(t) ==   \* a mutant: a transfer under way is done once more
  /\ At(t, "resuming") /\ state[cur[t]] \in {"AWAITING_TRANSFER", "TRANSFERRING_SINGIT"}
  /\ Put(cur[t], "TRANSFERRING_SINGIT") /\ Goto(t, "checking")
  /\ Kept /\ Same /\ RowRest /\ NoMoney
Resume(t) ==
  LET p == cur[t] IN
  /\ At(t, "resuming") /\ UNCHANGED <<calls, now, crashes, terms, consent, reconciled>>
  /\ \/ /\ state[p] = "AWAITING_TRANSFER" /\ Put(p, "TRANSFERRING_SINGIT")
        /\ Goto(t, "checking") /\ UNCHANGED joined /\ Kept
     \/ /\ state[p] = "TRANSFERRING_SINGIT" /\ Put(p, "RECONCILIATION_REQUIRED")
        /\ Goto(t, "idle") /\ UNCHANGED joined /\ Kept
     \/ /\ state[p] = "TOPPING_UP_BANKR" /\ joined' = Plus(joined, p)
        /\ GotoAs(t, "topup", "TOPPING_UP_BANKR") /\ UNCHANGED <<stateVars, cur>>
     \/ /\ state[p] # "AWAITING_TRANSFER"
        /\ Goto(t, "idle") /\ UNCHANGED <<stateVars, joined>> /\ Kept
  /\ RowRest /\ NoMoney
\* _fail_before_transfer: wallet, caps, balance or price are not as approved
NotAsApproved(t) ==
  /\ Transition(cur[t], "TRANSFERRING_SINGIT", "FAILED_BEFORE_TRANSFER")
  /\ Goto(t, "idle") /\ UNCHANGED transfers
\* _execute_transfer: fresh price, wallet, caps, balance; then transfer_token
CheckTransfer(t) ==
  LET p == cur[t] IN
  /\ At(t, "checking")
  /\ \/ NotAsApproved(t)
     \/ transfers' = Plus(transfers, p) /\ Goto(t, "transfer") /\ UNCHANGED stateVars
  /\ Kept /\ Same /\ RowRest /\ UNCHANGED <<moved, tried, open, balance, doneVars>>
TransferFails_AsBefore(t) ==   \* a mutant: an unclear transfer is a failed one
  /\ At(t, "transfer")
  /\ Transition(cur[t], "TRANSFERRING_SINGIT", "FAILED_BEFORE_TRANSFER")
  /\ Goto(t, "idle") /\ Kept /\ Same /\ RowRest /\ NoMoney
\* no hash: _hold_for_transfer_reconciliation
TransferFails(t) ==
  /\ At(t, "transfer")
  /\ Transition(cur[t], "TRANSFERRING_SINGIT", "RECONCILIATION_REQUIRED")
  /\ Goto(t, "idle") /\ Kept /\ Same /\ RowRest /\ NoMoney
Transferred_Unpaid(t) ==   \* a mutant: the answer is taken before the receipt
  LET p == cur[t] IN
  /\ At(t, "transfer")
  /\ Transition(p, "TRANSFERRING_SINGIT", "TOPPING_UP_BANKR")
  /\ hash' = hash \cup {p} /\ GotoAs(t, "topup", "TOPPING_UP_BANKR") /\ UNCHANGED cur
  /\ Same /\ UNCHANGED <<expiresAt, attempts, key, baseline, delivered>> /\ NoMoney
\* UserWalletTokenTransferClient.transfer_token answers with a receipt
Paid(p) == p \in moved
\* the hash goes with the transition, and is lost when the row was moved on
Transferred(t) ==
  LET p == cur[t] IN
  /\ At(t, "transfer") /\ Paid(p)
  /\ Transition(p, "TRANSFERRING_SINGIT", "TOPPING_UP_BANKR")
  /\ IF state[p] = "TRANSFERRING_SINGIT"
     THEN hash' = hash \cup {p} /\ GotoAs(t, "topup", "TOPPING_UP_BANKR")
     ELSE UNCHANGED hash /\ Goto(t, "idle") /\ UNCHANGED was
  /\ UNCHANGED cur /\ Same /\ UNCHANGED <<expiresAt, attempts, key, baseline, delivered>> /\ NoMoney

Hold(t) == Transition(cur[t], was[t], "RECONCILIATION_REQUIRED") /\ Goto(t, "idle")
Covered(p) == balance >= (IF baseline[p] = Unknown THEN 0 ELSE baseline[p]) + 1
\* _top_up_from_funded_wallet: credited; refused for good (a refusal before the
\* last attempt changes nothing); or unclear, which is never tried again
TopUp_Retried(t) ==   \* a mutant: an unclear top-up is tried again
  /\ At(t, "topup")
  /\ tried' = Plus(tried, cur[t]) /\ open' = open + 1
  /\ Kept /\ UNCHANGED <<pc, stateVars, transfers, moved, balance, doneVars>> /\ Same /\ RowRest
Credited(t) ==
  /\ tried' = Plus(tried, cur[t]) /\ balance' = balance + 1
  /\ Goto(t, "completing") /\ UNCHANGED <<stateVars, open>>
RefusedForGood(t) == Hold(t) /\ UNCHANGED <<tried, open, balance>>
AnswerLost(t) ==
  /\ tried' = Plus(tried, cur[t]) /\ open' = open + 1 /\ UNCHANGED balance
  /\ Hold(t) \/ (Goto(t, "polling") /\ UNCHANGED stateVars)
TopUp(t) ==
  /\ At(t, "topup")
  /\ Credited(t) \/ RefusedForGood(t) \/ AnswerLost(t)
  /\ Kept /\ Same /\ RowRest /\ UNCHANGED <<transfers, moved, doneVars>>
\* _await_topup_credit
Poll(t) ==
  /\ At(t, "polling")
  /\ \/ Covered(cur[t]) /\ Goto(t, "completing") /\ UNCHANGED stateVars
     \/ Hold(t)
  /\ Kept /\ Same /\ RowRest /\ NoMoney
\* _complete_purchase: whoever makes the transition shows the key and records
\* the spend; the sweep leaves the key for later
Complete(t) ==
  LET p == cur[t] IN
  /\ At(t, "completing")
  /\ Transition(p, was[t], "COMPLETE")
  /\ IF state[p] = was[t]
     THEN /\ Goto(t, "recording")
          /\ delivered' = IF t \in Requests THEN delivered \cup {p} ELSE delivered
     ELSE Goto(t, "idle") /\ UNCHANGED delivered
  /\ Kept /\ Same /\ UNCHANGED <<expiresAt, attempts, key, baseline, hash>> /\ NoMoney
Record(t) ==
  LET p == cur[t] IN
  /\ At(t, "recording") /\ Goto(t, "idle")
  /\ \/ /\ recorded' = Plus(recorded, p)
        /\ revealed' = IF t \in Requests THEN Plus(revealed, p) ELSE revealed
     \/ UNCHANGED doneVars
  /\ Kept /\ Same /\ UNCHANGED <<rowVars, moneyVars>>

-----------------------------------------------------------------------------
(* reconcile, credits, the sweep *)

Reconcile(t) ==
  /\ Called(t)
  /\ \E p \in Purchases :
       \/ /\ state[p] = "COMPLETE" /\ p \notin delivered
          /\ Take(t, "delivering", p) /\ UNCHANGED reconciled
       \/ /\ p \in hash
          /\ state[p] \in {"RECONCILIATION_REQUIRED", "TOPPING_UP_BANKR", "TRANSFERRING_SINGIT"}
          /\ reconciled' = Plus(reconciled, p) /\ Take(t, "crediting", p)
  /\ UNCHANGED <<now, crashes, terms, consent, joined, rowVars, moneyVars, doneVars>>
ReadCredits(t) ==
  LET p == cur[t] IN
  /\ At(t, "crediting")
  /\ \/ Hold(t)
     \/ Covered(p) /\ Goto(t, "completing") /\ UNCHANGED stateVars
     \/ ~Covered(p) /\ Goto(t, "topup") /\ UNCHANGED stateVars
  /\ Kept /\ Same /\ RowRest /\ NoMoney
\* credits: of the active row, or the latest
Credits(t) ==
  /\ Called(t) /\ Active = {}
  /\ \E p \in Purchases :
       /\ state[p] = "COMPLETE" /\ p \notin delivered
       /\ \A o \in Purchases : o > p => state[o] = "none"
       /\ Take(t, "delivering", p)
  /\ UNCHANGED <<envVars, rowVars, moneyVars, doneVars>>
\* _deliver_completed_key, mark_api_key_delivered
Deliver_Twice(t) ==   \* a mutant: the claim is not part of the UPDATE
  /\ At(t, "delivering") /\ Goto(t, "idle") /\ Touch(cur[t])
  /\ delivered' = delivered \cup {cur[t]} /\ revealed' = Plus(revealed, cur[t])
  /\ Kept /\ Same /\ UNCHANGED <<state, expiresAt, attempts, key, baseline, hash, moneyVars, recorded>>
Deliver(t) ==
  LET p == cur[t] IN
  /\ At(t, "delivering") /\ Goto(t, "idle")
  /\ IF p \in delivered
     THEN UNCHANGED <<updatedAt, delivered, revealed>>
     ELSE Touch(p) /\ delivered' = delivered \cup {p} /\ revealed' = Plus(revealed, p)
  /\ Kept /\ Same /\ UNCHANGED <<state, expiresAt, attempts, key, baseline, hash, moneyVars, recorded>>
\* purchases_awaiting_settlement: paid rows nobody has finished, the oldest
\* first (SQLite leaves ties in the order of the rows), as many as the list has
\* places, none that was not touched for longer than SettleAge
Held(p) ==
  /\ state[p] \in {"RECONCILIATION_REQUIRED", "TOPPING_UP_BANKR"}
  /\ p \in hash /\ p \notin delivered
InTime(p) == updatedAt[p] + SettleAge >= now
Before(p, o) == updatedAt[p] < updatedAt[o] \/ (updatedAt[p] = updatedAt[o] /\ p < o)
Listed(p) ==
  /\ InTime(p)
  /\ Cardinality({o \in Purchases : Held(o) /\ InTime(o) /\ Before(o, p)}) < SettleLimit
Awaits_ToppingOnly(p) ==   \* a mutant: only rows still topping up are swept
  state[p] = "TOPPING_UP_BANKR" /\ p \in hash /\ Listed(p)
Awaits(p) == Held(p) /\ Listed(p)
\* settle_if_credited: never spends
Sweep ==   \* settle_pending, every interval
  /\ At(Sweeper, "idle")
  /\ \E p \in Purchases : Awaits(p) /\ Covered(p) /\ Take(Sweeper, "completing", p)
  /\ UNCHANGED <<calls, envVars, rowVars, moneyVars, doneVars>>

-----------------------------------------------------------------------------
(* Chain, Bankr, the process, the clock *)

MoneyMoves(p) ==
  /\ transfers[p] > 0 /\ p \notin moved /\ moved' = moved \cup {p}
  /\ UNCHANGED <<calls, envVars, rowVars, threadVars, transfers, tried, open, balance, doneVars>>
CreditLands ==
  /\ open > 0 /\ open' = open - 1 /\ balance' = balance + 1
  /\ UNCHANGED <<calls, envVars, rowVars, threadVars, transfers, moved, tried, doneVars>>
Crash ==
  /\ crashes < MaxCrashes /\ calls + crashes < MaxEvents /\ crashes' = crashes + 1
  /\ pc' = [t \in Threads |-> "idle"]
  /\ UNCHANGED <<calls, now, terms, consent, askVars, rowVars, cur, was, moneyVars, doneVars>>
Tick ==
  /\ now < MaxTime /\ now' = now + 1
  /\ UNCHANGED <<calls, crashes, terms, consent, askVars, rowVars, threadVars, moneyVars, doneVars>>

Work(t) ==
  \/ Expire(t) \/ Create(t) \/ SendOtp(t) \/ Verifying(t) \/ CreateKey(t)
  \/ KeyCreated(t) \/ Price(t) \/ Approve(t) \/ Resume(t) \/ CheckTransfer(t)
  \/ TransferFails(t) \/ Transferred(t) \/ TopUp(t) \/ Poll(t) \/ ReadCredits(t)
  \/ Complete(t) \/ Record(t) \/ Deliver(t)
Next ==
  \/ \E t \in Requests : Start(t) \/ AcceptTerms(t) \/ Verify(t) \/ Reconcile(t) \/ Credits(t)
  \/ \E t \in Threads : Work(t)
  \/ Sweep \/ \E p \in Purchases : MoneyMoves(p)
  \/ CreditLands \/ Crash \/ Tick

\* every request in flight goes on, and the sweep comes round again and again
Spec == Init /\ [][Next]_vars /\ \A t \in Threads : WF_vars(Work(t)) /\ WF_vars(Sweep)

-----------------------------------------------------------------------------
(* Properties *)

States == Open \cup TERMINAL_STATES \cup {"none"}

TypeOK ==
  /\ state \in [Purchases -> States] /\ was \in [Threads -> States]
  /\ pc \in [Threads -> Steps] /\ cur \in [Threads -> Purchases \cup {0}]
  /\ baseline \in [Purchases -> Nat \cup {Unknown}] /\ {now, balance, open} \subseteq Nat
  /\ key \cup hash \cup delivered \cup consent \cup moved \subseteq Purchases
  /\ \A count \in {updatedAt, expiresAt, attempts, transfers, tried, reconciled, joined,
                 recorded, revealed} :
       count \in [Purchases -> Nat]

\* The wallet is charged once, for a purchase its owner approved, whatever is
\* resumed, verified again, reconciled or lost in a crash; a purchase that ends
\* as rejected or failed before the transfer charged nothing
TransferredOnce ==
  \A p \in Purchases :
    /\ transfers[p] <= 1 /\ (transfers[p] = 1 => p \in consent /\ p \in key)
    /\ state[p] \in {"REJECTED", "FAILED_BEFORE_TRANSFER"} => transfers[p] = 0

\* "spending the buyer's tokens a second time stays behind the explicit
\* reconcile call" (settle_if_credited).  A top-up whose answer was lost is not
\* tried again by the request that lost it, by the sweep or after a crash: each
\* one beyond the first has a reconcile call of its own, or a resume that found
\* the purchase topping up; and only a purchase whose payment is on file is
\* topped up
TopUpsAreAskedFor ==
  \A p \in Purchases :
    tried[p] <= 1 + reconciled[p] + joined[p] /\ (tried[p] > 0 => p \in hash)

\* The same sentence with no exception: false, since a second verify may resume
\* the purchase the first one is topping up
SecondTopUpIsReconciled == \A p \in Purchases : tried[p] <= 1 + reconciled[p]

\* A purchase is settled once: the key is handed out at most once and the spend
\* recorded at most once, both only for a purchase that is complete and paid
SettledOnce ==
  \A p \in Purchases :
    /\ revealed[p] <= 1 /\ recorded[p] <= 1
    /\ revealed[p] = 1 => p \in delivered
    /\ revealed[p] + recorded[p] > 0 => state[p] = "COMPLETE" /\ p \in moved

\* "This Bankr LLM purchase expired. No funds moved." (_telegram_text)
ExpiredMovedNothing ==
  \A p \in Purchases : state[p] = "EXPIRED" => p \notin moved

\* A paid purchase whose credit is there is settled without its request: the
\* sweep, or whoever comes first, completes it, unless the sweep stops looking
\* first, because the row is too old or its list is full
CreditIsFound ==
  \A p \in Purchases :
    (p \in hash /\ Covered(p)) ~> (state[p] \in {"COMPLETE", "EXPIRED"} \/ ~Listed(p))

\* The same with no exception: false, since credit may appear after SettleAge
LateCreditIsFound ==
  \A p \in Purchases :
    (p \in hash /\ Covered(p)) ~> state[p] \in {"COMPLETE", "EXPIRED"}

=============================================================================
