------------------------ MODULE BankrPurchasesProofs ------------------------
(***************************************************************************)
(* BankrPurchases for any number of purchases, requests and calls: the     *)
(* wallet is charged once for what its owner approved, and a purchase is   *)
(* settled once.  The transitions carry both arguments.  A row leaves the  *)
(* states before payment for good, with the one request that will ask for  *)
(* the transfer; it becomes COMPLETE once, with the one thread that        *)
(* records it, and stays so.                                               *)
(***************************************************************************)
EXTENDS BankrPurchases, FiniteSetTheorems, TLAPS

\* The states of a row nobody has been charged for, now or later.
Unpaid ==
  {"none", "AWAITING_TERMS", "AWAITING_OTP", "CREATING_BANKR_KEY",
   "BANKR_KEY_CREATION_UNCERTAIN", "BANKR_KEY_CREATED", "AWAITING_IMESSAGE_APPROVAL",
   "AWAITING_TRANSFER", "REJECTED", "FAILED_BEFORE_TRANSFER"}
Keyed == {"BANKR_KEY_CREATED", "AWAITING_IMESSAGE_APPROVAL", "AWAITING_TRANSFER"}
\* What is read of a row before its top-up.
Settleable == {"TRANSFERRING_SINGIT", "TOPPING_UP_BANKR", "RECONCILIATION_REQUIRED"}

RowTaken == \A t \in Threads : pc[t] \notin {"idle", "creating"} => cur[t] \in Purchases
KeyFirst ==
  /\ \A p \in Purchases : state[p] \in Keyed => p \in key
  /\ \A p \in Purchases : state[p] = "AWAITING_TRANSFER" => p \in consent
  /\ \A t \in Threads : pc[t] = "keyed" => cur[t] \in key
NotYetCharged ==
  \A p \in Purchases : state[p] \in Unpaid =>
    transfers[p] = 0 /\ \A t \in Threads : pc[t] = "checking" => cur[t] # p
\* The request about to ask for the transfer is the first and the only one.
OneTransfer ==
  /\ \A t \in Threads : pc[t] = "checking" =>
       /\ transfers[cur[t]] = 0 /\ cur[t] \in key /\ cur[t] \in consent
       /\ \A u \in Threads : pc[u] = "checking" /\ cur[u] = cur[t] => u = t
  /\ \A p \in Purchases :
       transfers[p] <= 1 /\ (transfers[p] = 1 => p \in consent /\ p \in key)

\* Only a paid row is topped up and completed, and from a state it is not
\* complete in.
PaidFirst ==
  /\ hash \subseteq moved
  /\ \A p \in Purchases : state[p] \in {"TOPPING_UP_BANKR", "COMPLETE"} => p \in hash
  /\ \A t \in Threads :
       /\ pc[t] \in {"topup", "polling", "crediting", "completing"} =>
            cur[t] \in hash /\ was[t] \in Settleable
       /\ pc[t] = "expiring" => was[t] \in Open
\* A row is recorded, and its key shown, when it is complete.
CompleteFirst ==
  /\ \A p \in Purchases : state[p] # "COMPLETE" => recorded[p] = 0 /\ revealed[p] = 0
  /\ \A t \in Threads : pc[t] \in {"recording", "delivering"} => state[cur[t]] = "COMPLETE"
\* The thread that records is the first and the only one; the key is its to
\* show when it is a request, and else that of whoever claims the delivery.
OneSettlement ==
  /\ \A t \in Threads : pc[t] = "recording" =>
       /\ recorded[cur[t]] = 0
       /\ t \in Requests => cur[t] \in delivered /\ revealed[cur[t]] = 0
       /\ \A u \in Threads : pc[u] = "recording" /\ cur[u] = cur[t] => u = t
  /\ \A p \in Purchases :
       /\ recorded[p] <= 1 /\ revealed[p] <= 1
       /\ p \notin delivered => revealed[p] = 0

Inv ==
  /\ TypeOK /\ RowTaken /\ KeyFirst /\ NotYetCharged /\ OneTransfer
  /\ PaidFirst /\ CompleteFirst /\ OneSettlement

USE DEF stateVars, rowVars, askVars, threadVars, moneyVars, doneVars, envVars,
        Kept, Same, RowRest, NoMoney, At, Goto, Plus, Touch, Put

LEMMA ThreadsAndRows == Requests \subseteq Threads /\ Sweeper \in Threads /\ 0 \notin Purchases
BY BankrAssumption DEF Threads

LEMMA StartStep ==
  ASSUME Inv, NEW t \in Requests, Start(t)
  PROVE  Inv'
<1> USE ThreadsAndRows DEF Inv, Start, Called, ExpireFirst, Take, Active
<1>1. TypeOK' /\ RowTaken'
  BY DEF TypeOK, RowTaken, States, Open, TERMINAL_STATES, Steps
<1>2. KeyFirst'
  BY <1>1 DEF KeyFirst, Keyed, RowTaken, TypeOK
<1>3. NotYetCharged' /\ OneTransfer'
  BY <1>1 DEF NotYetCharged, OneTransfer, KeyFirst, Keyed, Unpaid, RowTaken, TypeOK
<1>4. PaidFirst'
  BY <1>1 DEF PaidFirst, Settleable, Open, RowTaken, TypeOK
<1>5. CompleteFirst' /\ OneSettlement'
  BY <1>1 DEF CompleteFirst, OneSettlement, PaidFirst, Settleable, Open, RowTaken, TypeOK
<1> QED
  BY <1>1, <1>2, <1>3, <1>4, <1>5

LEMMA ExpireStep ==
  ASSUME Inv, NEW t \in Threads, Expire(t)
  PROVE  Inv'
<1> USE ThreadsAndRows DEF Inv, Expire, Transition
<1>1. TypeOK' /\ RowTaken'
  BY DEF TypeOK, RowTaken, States, Open, TERMINAL_STATES, Steps
<1>2. KeyFirst'
  BY <1>1 DEF KeyFirst, Keyed, RowTaken, TypeOK
<1>3. NotYetCharged' /\ OneTransfer'
  BY <1>1 DEF NotYetCharged, OneTransfer, KeyFirst, Keyed, Unpaid, RowTaken, TypeOK
<1>4. PaidFirst'
  BY <1>1 DEF PaidFirst, Settleable, Open, RowTaken, TypeOK
<1>5. CompleteFirst' /\ OneSettlement'
  BY <1>1 DEF CompleteFirst, OneSettlement, PaidFirst, Settleable, Open, RowTaken, TypeOK
<1> QED
  BY <1>1, <1>2, <1>3, <1>4, <1>5

LEMMA CreateStep ==
  ASSUME Inv, NEW t \in Threads, Create(t)
  PROVE  Inv'
<1> USE ThreadsAndRows DEF Inv
<1>1. /\ pc' \in [Threads -> {"otp", "idle"} \cup Steps]
      /\ pc'[t] \in {"otp", "idle"} /\ \A u \in Threads \ {t} : pc'[u] = pc[u]
      /\ \A u \in Threads \ {t} : cur'[u] = cur[u] /\ was'[u] = was[u]
      /\ cur'[t] \in Purchases \/ pc'[t] = "idle"
  BY DEF Create, Take, Active, New, TypeOK, Steps
<1>2. /\ cur' \in [Threads -> Purchases \cup {0}] /\ was' \in [Threads -> States]
  BY DEF Create, Take, Active, New, TypeOK
<1>3. /\ state' \in [Purchases -> States]
      /\ \A p \in Purchases :
           \/ state'[p] = state[p]
           \/ state[p] = "none" /\ state'[p] \in {"AWAITING_OTP", "AWAITING_TERMS"}
  BY DEF Create, New, TypeOK, States, Open
<1>4. expiresAt' \in [Purchases -> Nat] /\ updatedAt' \in [Purchases -> Nat]
  BY BankrAssumption DEF Create, New, TypeOK
<1>5. UNCHANGED <<attempts, key, baseline, hash, delivered, moneyVars, doneVars, calls, now,
                  crashes, terms, consent, reconciled, joined>>
  BY DEF Create
<1>6. TypeOK' /\ RowTaken'
  BY <1>1, <1>2, <1>3, <1>4, <1>5 DEF TypeOK, RowTaken, Steps
<1>7. KeyFirst' /\ PaidFirst'
  BY <1>1, <1>3, <1>5 DEF KeyFirst, PaidFirst, Keyed
<1>8. NotYetCharged' /\ OneTransfer'
  BY <1>1, <1>3, <1>5 DEF NotYetCharged, OneTransfer, Unpaid
<1>9. CompleteFirst' /\ OneSettlement'
  BY <1>1, <1>3, <1>5 DEF CompleteFirst, OneSettlement, RowTaken
<1> QED
  BY <1>6, <1>7, <1>8, <1>9

LEMMA AcceptTermsStep ==
  ASSUME Inv, NEW t \in Requests, AcceptTerms(t)
  PROVE  Inv'
<1> USE ThreadsAndRows DEF Inv, AcceptTerms, Called, ExpireFirst, Take, Active, Transition
<1>1. TypeOK' /\ RowTaken'
  BY DEF TypeOK, RowTaken, States, Open, TERMINAL_STATES, Steps
<1>2. KeyFirst'
  BY <1>1 DEF KeyFirst, Keyed, RowTaken, TypeOK
<1>3. NotYetCharged' /\ OneTransfer'
  BY <1>1 DEF NotYetCharged, OneTransfer, KeyFirst, Keyed, Unpaid, RowTaken, TypeOK
<1>4. PaidFirst'
  BY <1>1 DEF PaidFirst, Settleable, Open, RowTaken, TypeOK
<1>5. CompleteFirst' /\ OneSettlement'
  BY <1>1 DEF CompleteFirst, OneSettlement, PaidFirst, Settleable, Open, RowTaken, TypeOK
<1> QED
  BY <1>1, <1>2, <1>3, <1>4, <1>5

LEMMA SendOtpStep ==
  ASSUME Inv, NEW t \in Threads, SendOtp(t)
  PROVE  Inv'
<1> USE ThreadsAndRows DEF Inv, SendOtp, Transition
<1>1. TypeOK' /\ RowTaken'
  BY DEF TypeOK, RowTaken, States, Open, TERMINAL_STATES, Steps
<1>2. KeyFirst'
  BY <1>1 DEF KeyFirst, Keyed, RowTaken, TypeOK
<1>3. NotYetCharged' /\ OneTransfer'
  BY <1>1 DEF NotYetCharged, OneTransfer, KeyFirst, Keyed, Unpaid, RowTaken, TypeOK
<1>4. PaidFirst'
  BY <1>1 DEF PaidFirst, Settleable, Open, RowTaken, TypeOK
<1>5. CompleteFirst' /\ OneSettlement'
  BY <1>1 DEF CompleteFirst, OneSettlement, PaidFirst, Settleable, Open, RowTaken, TypeOK
<1> QED
  BY <1>1, <1>2, <1>3, <1>4, <1>5

LEMMA VerifyStep ==
  ASSUME Inv, NEW t \in Requests, Verify(t)
  PROVE  Inv'
<1> USE ThreadsAndRows DEF Inv, Verify, Called, ExpireFirst, Take, Active
<1>1. TypeOK' /\ RowTaken'
  BY DEF TypeOK, RowTaken, States, Open, TERMINAL_STATES, Steps
<1>2. KeyFirst'
  BY <1>1 DEF KeyFirst, Keyed, RowTaken, TypeOK
<1>3. NotYetCharged' /\ OneTransfer'
  BY <1>1 DEF NotYetCharged, OneTransfer, KeyFirst, Keyed, Unpaid, RowTaken, TypeOK
<1>4. PaidFirst'
  BY <1>1 DEF PaidFirst, Settleable, Open, RowTaken, TypeOK
<1>5. CompleteFirst' /\ OneSettlement'
  BY <1>1 DEF CompleteFirst, OneSettlement, PaidFirst, Settleable, Open, RowTaken, TypeOK
<1> QED
  BY <1>1, <1>2, <1>3, <1>4, <1>5

LEMMA VerifyingStep ==
  ASSUME Inv, NEW t \in Threads, Verifying(t)
  PROVE  Inv'
<1> USE ThreadsAndRows DEF Inv, Verifying, Transition, Answer
<1>1. TypeOK' /\ RowTaken'
  BY DEF TypeOK, RowTaken, States, Open, TERMINAL_STATES, Steps
<1>2. KeyFirst'
  BY <1>1 DEF KeyFirst, Keyed, RowTaken, TypeOK
<1>3. NotYetCharged' /\ OneTransfer'
  BY <1>1 DEF NotYetCharged, OneTransfer, KeyFirst, Keyed, Unpaid, RowTaken, TypeOK
<1>4. PaidFirst'
  BY <1>1 DEF PaidFirst, Settleable, Open, RowTaken, TypeOK
<1>5. CompleteFirst' /\ OneSettlement'
  BY <1>1 DEF CompleteFirst, OneSettlement, PaidFirst, Settleable, Open, RowTaken, TypeOK
<1> QED
  BY <1>1, <1>2, <1>3, <1>4, <1>5

LEMMA CreateKeyStep ==
  ASSUME Inv, NEW t \in Threads, CreateKey(t)
  PROVE  Inv'
<1> USE ThreadsAndRows DEF Inv, CreateKey, InvalidOtp, KeyUncertain, SaveIdentity, Transition, Answer
<1>1. TypeOK' /\ RowTaken'
  BY DEF TypeOK, RowTaken, States, Open, TERMINAL_STATES, Steps
<1>2. KeyFirst'
  BY <1>1 DEF KeyFirst, Keyed, RowTaken, TypeOK
<1>3. NotYetCharged' /\ OneTransfer'
  BY <1>1 DEF NotYetCharged, OneTransfer, KeyFirst, Keyed, Unpaid, RowTaken, TypeOK
<1>4. PaidFirst'
  BY <1>1 DEF PaidFirst, Settleable, Open, RowTaken, TypeOK
<1>5. CompleteFirst' /\ OneSettlement'
  BY <1>1 DEF CompleteFirst, OneSettlement, PaidFirst, Settleable, Open, RowTaken, TypeOK
<1> QED
  BY <1>1, <1>2, <1>3, <1>4, <1>5

LEMMA KeyCreatedStep ==
  ASSUME Inv, NEW t \in Threads, KeyCreated(t)
  PROVE  Inv'
<1> USE ThreadsAndRows DEF Inv, KeyCreated, Answer
<1>1. TypeOK' /\ RowTaken'
  BY DEF TypeOK, RowTaken, States, Open, TERMINAL_STATES, Steps
<1>2. KeyFirst'
  BY <1>1 DEF KeyFirst, Keyed, RowTaken, TypeOK
<1>3. NotYetCharged' /\ OneTransfer'
  BY <1>1 DEF NotYetCharged, OneTransfer, KeyFirst, Keyed, Unpaid, RowTaken, TypeOK
<1>4. PaidFirst'
  BY <1>1 DEF PaidFirst, Settleable, Open, RowTaken, TypeOK
<1>5. CompleteFirst' /\ OneSettlement'
  BY <1>1 DEF CompleteFirst, OneSettlement, PaidFirst, Settleable, Open, RowTaken, TypeOK
<1> QED
  BY <1>1, <1>2, <1>3, <1>4, <1>5

LEMMA PriceStep ==
  ASSUME Inv, NEW t \in Threads, Price(t)
  PROVE  Inv'
<1> USE ThreadsAndRows DEF Inv, Price, OverLimits, Transition, Answer
<1>1. TypeOK' /\ RowTaken'
  BY DEF TypeOK, RowTaken, States, Open, TERMINAL_STATES, Steps
<1>2. KeyFirst'
  BY <1>1 DEF KeyFirst, Keyed, RowTaken, TypeOK
<1>3. NotYetCharged' /\ OneTransfer'
  BY <1>1 DEF NotYetCharged, OneTransfer, KeyFirst, Keyed, Unpaid, RowTaken, TypeOK
<1>4. PaidFirst'
  BY <1>1 DEF PaidFirst, Settleable, Open, RowTaken, TypeOK
<1>5. CompleteFirst' /\ OneSettlement'
  BY <1>1 DEF CompleteFirst, OneSettlement, PaidFirst, Settleable, Open, RowTaken, TypeOK
<1> QED
  BY <1>1, <1>2, <1>3, <1>4, <1>5

LEMMA ApproveStep ==
  ASSUME Inv, NEW t \in Threads, Approve(t)
  PROVE  Inv'
<1> USE ThreadsAndRows DEF Inv, Approve, Transition, Answer
<1>1. TypeOK' /\ RowTaken'
  BY DEF TypeOK, RowTaken, States, Open, TERMINAL_STATES, Steps
<1>2. KeyFirst'
  BY <1>1 DEF KeyFirst, Keyed, RowTaken, TypeOK
<1>3. NotYetCharged' /\ OneTransfer'
  BY <1>1 DEF NotYetCharged, OneTransfer, KeyFirst, Keyed, Unpaid, RowTaken, TypeOK
<1>4. PaidFirst'
  BY <1>1 DEF PaidFirst, Settleable, Open, RowTaken, TypeOK
<1>5. CompleteFirst' /\ OneSettlement'
  BY <1>1 DEF CompleteFirst, OneSettlement, PaidFirst, Settleable, Open, RowTaken, TypeOK
<1> QED
  BY <1>1, <1>2, <1>3, <1>4, <1>5

LEMMA ResumeStep ==
  ASSUME Inv, NEW t \in Threads, Resume(t)
  PROVE  Inv'
<1> USE ThreadsAndRows DEF Inv, Resume, GotoAs
<1>1. TypeOK' /\ RowTaken'
  BY DEF TypeOK, RowTaken, States, Open, TERMINAL_STATES, Steps
<1>2. KeyFirst'
  BY <1>1 DEF KeyFirst, Keyed, RowTaken, TypeOK
<1>3. NotYetCharged' /\ OneTransfer'
  BY <1>1 DEF NotYetCharged, OneTransfer, KeyFirst, Keyed, Unpaid, RowTaken, TypeOK
<1>4. PaidFirst'
  BY <1>1 DEF PaidFirst, Settleable, Open, RowTaken, TypeOK
<1>5. CompleteFirst' /\ OneSettlement'
  BY <1>1 DEF CompleteFirst, OneSettlement, PaidFirst, Settleable, Open, RowTaken, TypeOK
<1> QED
  BY <1>1, <1>2, <1>3, <1>4, <1>5

LEMMA CheckTransferStep ==
  ASSUME Inv, NEW t \in Threads, CheckTransfer(t)
  PROVE  Inv'
<1> USE ThreadsAndRows DEF Inv, CheckTransfer, NotAsApproved, Transition
<1>1. TypeOK' /\ RowTaken'
  BY DEF TypeOK, RowTaken, States, Open, TERMINAL_STATES, Steps
<1>2. KeyFirst'
  BY <1>1 DEF KeyFirst, Keyed, RowTaken, TypeOK
<1>3. NotYetCharged' /\ OneTransfer'
  BY <1>1 DEF NotYetCharged, OneTransfer, KeyFirst, Keyed, Unpaid, RowTaken, TypeOK
<1>4. PaidFirst'
  BY <1>1 DEF PaidFirst, Settleable, Open, RowTaken, TypeOK
<1>5. CompleteFirst' /\ OneSettlement'
  BY <1>1 DEF CompleteFirst, OneSettlement, PaidFirst, Settleable, Open, RowTaken, TypeOK
<1> QED
  BY <1>1, <1>2, <1>3, <1>4, <1>5

LEMMA TransferFailsStep ==
  ASSUME Inv, NEW t \in Threads, TransferFails(t)
  PROVE  Inv'
<1> USE ThreadsAndRows DEF Inv, TransferFails, Transition
<1>1. TypeOK' /\ RowTaken'
  BY DEF TypeOK, RowTaken, States, Open, TERMINAL_STATES, Steps
<1>2. KeyFirst'
  BY <1>1 DEF KeyFirst, Keyed, RowTaken, TypeOK
<1>3. NotYetCharged' /\ OneTransfer'
  BY <1>1 DEF NotYetCharged, OneTransfer, KeyFirst, Keyed, Unpaid, RowTaken, TypeOK
<1>4. PaidFirst'
  BY <1>1 DEF PaidFirst, Settleable, Open, RowTaken, TypeOK
<1>5. CompleteFirst' /\ OneSettlement'
  BY <1>1 DEF CompleteFirst, OneSettlement, PaidFirst, Settleable, Open, RowTaken, TypeOK
<1> QED
  BY <1>1, <1>2, <1>3, <1>4, <1>5

LEMMA TransferredStep ==
  ASSUME Inv, NEW t \in Threads, Transferred(t)
  PROVE  Inv'
<1> USE ThreadsAndRows DEF Inv, Transferred, Transition, Paid, GotoAs
<1>1. TypeOK' /\ RowTaken'
  BY DEF TypeOK, RowTaken, States, Open, TERMINAL_STATES, Steps
<1>2. KeyFirst'
  BY <1>1 DEF KeyFirst, Keyed, RowTaken, TypeOK
<1>3. NotYetCharged' /\ OneTransfer'
  BY <1>1 DEF NotYetCharged, OneTransfer, KeyFirst, Keyed, Unpaid, RowTaken, TypeOK
<1>4. PaidFirst'
  BY <1>1 DEF PaidFirst, Settleable, Open, RowTaken, TypeOK
<1>5. CompleteFirst' /\ OneSettlement'
  BY <1>1 DEF CompleteFirst, OneSettlement, PaidFirst, Settleable, Open, RowTaken, TypeOK
<1> QED
  BY <1>1, <1>2, <1>3, <1>4, <1>5

LEMMA TopUpStep ==
  ASSUME Inv, NEW t \in Threads, TopUp(t)
  PROVE  Inv'
<1> USE ThreadsAndRows DEF Inv, TopUp, Credited, RefusedForGood, AnswerLost, Hold, Transition
<1>1. TypeOK' /\ RowTaken'
  BY DEF TypeOK, RowTaken, States, Open, TERMINAL_STATES, Steps
<1>2. KeyFirst'
  BY <1>1 DEF KeyFirst, Keyed, RowTaken, TypeOK
<1>3. NotYetCharged' /\ OneTransfer'
  BY <1>1 DEF NotYetCharged, OneTransfer, KeyFirst, Keyed, Unpaid, RowTaken, TypeOK
<1>4. PaidFirst'
  BY <1>1 DEF PaidFirst, Settleable, Open, RowTaken, TypeOK
<1>5. CompleteFirst' /\ OneSettlement'
  BY <1>1 DEF CompleteFirst, OneSettlement, PaidFirst, Settleable, Open, RowTaken, TypeOK
<1> QED
  BY <1>1, <1>2, <1>3, <1>4, <1>5

LEMMA PollStep ==
  ASSUME Inv, NEW t \in Threads, Poll(t)
  PROVE  Inv'
<1> USE ThreadsAndRows DEF Inv, Poll, Hold, Transition
<1>1. TypeOK' /\ RowTaken'
  BY DEF TypeOK, RowTaken, States, Open, TERMINAL_STATES, Steps
<1>2. KeyFirst'
  BY <1>1 DEF KeyFirst, Keyed, RowTaken, TypeOK
<1>3. NotYetCharged' /\ OneTransfer'
  BY <1>1 DEF NotYetCharged, OneTransfer, KeyFirst, Keyed, Unpaid, RowTaken, TypeOK
<1>4. PaidFirst'
  BY <1>1 DEF PaidFirst, Settleable, Open, RowTaken, TypeOK
<1>5. CompleteFirst' /\ OneSettlement'
  BY <1>1 DEF CompleteFirst, OneSettlement, PaidFirst, Settleable, Open, RowTaken, TypeOK
<1> QED
  BY <1>1, <1>2, <1>3, <1>4, <1>5

LEMMA CompleteStep ==
  ASSUME Inv, NEW t \in Threads, Complete(t)
  PROVE  Inv'
<1> USE ThreadsAndRows DEF Inv, Complete, Transition
<1>1. TypeOK' /\ RowTaken'
  BY DEF TypeOK, RowTaken, States, Open, TERMINAL_STATES, Steps
<1>2. KeyFirst'
  BY <1>1 DEF KeyFirst, Keyed, RowTaken, TypeOK
<1>3. NotYetCharged' /\ OneTransfer'
  BY <1>1 DEF NotYetCharged, OneTransfer, KeyFirst, Keyed, Unpaid, RowTaken, TypeOK
<1>4. PaidFirst'
  BY <1>1 DEF PaidFirst, Settleable, Open, RowTaken, TypeOK
<1>5. CompleteFirst' /\ OneSettlement'
  BY <1>1 DEF CompleteFirst, OneSettlement, PaidFirst, Settleable, Open, RowTaken, TypeOK
<1> QED
  BY <1>1, <1>2, <1>3, <1>4, <1>5

LEMMA RecordStep ==
  ASSUME Inv, NEW t \in Threads, Record(t)
  PROVE  Inv'
<1> USE ThreadsAndRows DEF Inv, Record
<1>1. TypeOK' /\ RowTaken'
  BY DEF TypeOK, RowTaken, States, Open, TERMINAL_STATES, Steps
<1>2. KeyFirst'
  BY <1>1 DEF KeyFirst, Keyed, RowTaken, TypeOK
<1>3. NotYetCharged' /\ OneTransfer'
  BY <1>1 DEF NotYetCharged, OneTransfer, KeyFirst, Keyed, Unpaid, RowTaken, TypeOK
<1>4. PaidFirst'
  BY <1>1 DEF PaidFirst, Settleable, Open, RowTaken, TypeOK
<1>5. CompleteFirst' /\ OneSettlement'
  BY <1>1 DEF CompleteFirst, OneSettlement, PaidFirst, Settleable, Open, RowTaken, TypeOK
<1> QED
  BY <1>1, <1>2, <1>3, <1>4, <1>5

LEMMA ReconcileStep ==
  ASSUME Inv, NEW t \in Requests, Reconcile(t)
  PROVE  Inv'
<1> USE ThreadsAndRows DEF Inv, Reconcile, Called, Take
<1>1. TypeOK' /\ RowTaken'
  BY DEF TypeOK, RowTaken, States, Open, TERMINAL_STATES, Steps
<1>2. KeyFirst'
  BY <1>1 DEF KeyFirst, Keyed, RowTaken, TypeOK
<1>3. NotYetCharged' /\ OneTransfer'
  BY <1>1 DEF NotYetCharged, OneTransfer, KeyFirst, Keyed, Unpaid, RowTaken, TypeOK
<1>4. PaidFirst'
  BY <1>1 DEF PaidFirst, Settleable, Open, RowTaken, TypeOK
<1>5. CompleteFirst' /\ OneSettlement'
  BY <1>1 DEF CompleteFirst, OneSettlement, PaidFirst, Settleable, Open, RowTaken, TypeOK
<1> QED
  BY <1>1, <1>2, <1>3, <1>4, <1>5

LEMMA ReadCreditsStep ==
  ASSUME Inv, NEW t \in Threads, ReadCredits(t)
  PROVE  Inv'
<1> USE ThreadsAndRows DEF Inv, ReadCredits, Hold, Transition
<1>1. TypeOK' /\ RowTaken'
  BY DEF TypeOK, RowTaken, States, Open, TERMINAL_STATES, Steps
<1>2. KeyFirst'
  BY <1>1 DEF KeyFirst, Keyed, RowTaken, TypeOK
<1>3. NotYetCharged' /\ OneTransfer'
  BY <1>1 DEF NotYetCharged, OneTransfer, KeyFirst, Keyed, Unpaid, RowTaken, TypeOK
<1>4. PaidFirst'
  BY <1>1 DEF PaidFirst, Settleable, Open, RowTaken, TypeOK
<1>5. CompleteFirst' /\ OneSettlement'
  BY <1>1 DEF CompleteFirst, OneSettlement, PaidFirst, Settleable, Open, RowTaken, TypeOK
<1> QED
  BY <1>1, <1>2, <1>3, <1>4, <1>5

LEMMA CreditsStep ==
  ASSUME Inv, NEW t \in Requests, Credits(t)
  PROVE  Inv'
<1> USE ThreadsAndRows DEF Inv, Credits, Called, Take
<1>1. TypeOK' /\ RowTaken'
  BY DEF TypeOK, RowTaken, States, Open, TERMINAL_STATES, Steps
<1>2. KeyFirst'
  BY <1>1 DEF KeyFirst, Keyed, RowTaken, TypeOK
<1>3. NotYetCharged' /\ OneTransfer'
  BY <1>1 DEF NotYetCharged, OneTransfer, KeyFirst, Keyed, Unpaid, RowTaken, TypeOK
<1>4. PaidFirst'
  BY <1>1 DEF PaidFirst, Settleable, Open, RowTaken, TypeOK
<1>5. CompleteFirst' /\ OneSettlement'
  BY <1>1 DEF CompleteFirst, OneSettlement, PaidFirst, Settleable, Open, RowTaken, TypeOK
<1> QED
  BY <1>1, <1>2, <1>3, <1>4, <1>5

LEMMA DeliverStep ==
  ASSUME Inv, NEW t \in Threads, Deliver(t)
  PROVE  Inv'
<1> USE ThreadsAndRows DEF Inv, Deliver
<1>1. TypeOK' /\ RowTaken'
  BY DEF TypeOK, RowTaken, States, Open, TERMINAL_STATES, Steps
<1>2. KeyFirst'
  BY <1>1 DEF KeyFirst, Keyed, RowTaken, TypeOK
<1>3. NotYetCharged' /\ OneTransfer'
  BY <1>1 DEF NotYetCharged, OneTransfer, KeyFirst, Keyed, Unpaid, RowTaken, TypeOK
<1>4. PaidFirst'
  BY <1>1 DEF PaidFirst, Settleable, Open, RowTaken, TypeOK
<1>5. CompleteFirst' /\ OneSettlement'
  BY <1>1 DEF CompleteFirst, OneSettlement, PaidFirst, Settleable, Open, RowTaken, TypeOK
<1> QED
  BY <1>1, <1>2, <1>3, <1>4, <1>5

LEMMA SweepStep ==
  ASSUME Inv, Sweep
  PROVE  Inv'
<1> USE ThreadsAndRows DEF Inv, Sweep, Take, Awaits, Held
<1>1. TypeOK' /\ RowTaken'
  BY DEF TypeOK, RowTaken, Steps
<1>2. KeyFirst' /\ PaidFirst'
  BY DEF KeyFirst, PaidFirst, Settleable, TypeOK
<1>3. NotYetCharged' /\ OneTransfer'
  BY DEF NotYetCharged, OneTransfer, TypeOK
<1>4. CompleteFirst' /\ OneSettlement'
  BY DEF CompleteFirst, OneSettlement, TypeOK
<1> QED
  BY <1>1, <1>2, <1>3, <1>4

\* A crash takes the threads, and the rows are as they were.
LEMMA CrashStep ==
  ASSUME Inv, Crash
  PROVE  Inv'
<1> USE DEF Inv, Crash
<1>1. TypeOK' /\ RowTaken'
  BY DEF TypeOK, RowTaken, Steps
<1>2. KeyFirst' /\ PaidFirst'
  BY DEF KeyFirst, PaidFirst
<1>3. NotYetCharged' /\ OneTransfer'
  BY DEF NotYetCharged, OneTransfer
<1>4. CompleteFirst' /\ OneSettlement'
  BY DEF CompleteFirst, OneSettlement
<1> QED
  BY <1>1, <1>2, <1>3, <1>4

\* Money, credits and time move nothing the invariant is about.
LEMMA WorldSteps ==
  ASSUME Inv, (\E p \in Purchases : MoneyMoves(p)) \/ CreditLands \/ Tick \/ UNCHANGED vars
  PROVE  Inv'
<1>1. /\ UNCHANGED <<rowVars, threadVars, transfers, doneVars, consent, reconciled, joined>>
      /\ moved \subseteq moved' /\ moved' \subseteq Purchases \cup moved
      /\ tried' = tried /\ {now', balance', open'} \subseteq Nat
  BY DEF MoneyMoves, CreditLands, Tick, vars, Inv, TypeOK
<1>2. TypeOK' /\ RowTaken'
  BY <1>1 DEF Inv, TypeOK, RowTaken
<1>3. KeyFirst' /\ PaidFirst' /\ NotYetCharged'
  BY <1>1 DEF Inv, KeyFirst, PaidFirst, NotYetCharged
<1>4. OneTransfer' /\ CompleteFirst' /\ OneSettlement'
  BY <1>1 DEF Inv, OneTransfer, CompleteFirst, OneSettlement
<1> QED
  BY <1>2, <1>3, <1>4 DEF Inv

LEMMA Initially == Init => Inv
<1> SUFFICES ASSUME Init PROVE Inv
  OBVIOUS
<1>1. TypeOK /\ RowTaken
  BY DEF Init, TypeOK, RowTaken, States, Steps
<1>2. KeyFirst /\ NotYetCharged /\ OneTransfer
  BY DEF Init, KeyFirst, Keyed, NotYetCharged, OneTransfer
<1>3. PaidFirst /\ CompleteFirst /\ OneSettlement
  BY DEF Init, PaidFirst, CompleteFirst, OneSettlement
<1> QED
  BY <1>1, <1>2, <1>3 DEF Inv

LEMMA WorkStep ==
  ASSUME Inv, NEW t \in Threads, Work(t)
  PROVE  Inv'
BY ExpireStep, CreateStep, SendOtpStep, VerifyingStep, CreateKeyStep, KeyCreatedStep, PriceStep,
   ApproveStep, ResumeStep, CheckTransferStep, TransferFailsStep, TransferredStep, TopUpStep,
   PollStep, ReadCreditsStep, CompleteStep, RecordStep, DeliverStep
   DEF Work

LEMMA Inductive == Inv /\ [Next]_vars => Inv'
BY StartStep, AcceptTermsStep, VerifyStep, ReconcileStep, CreditsStep, WorkStep, SweepStep,
   CrashStep, WorldSteps
   DEF Next

-----------------------------------------------------------------------------
LEMMA Invariance == Spec => []Inv
BY Initially, Inductive, PTL DEF Spec

\* The variables keep their types.
THEOREM TypeCorrect == Spec => []TypeOK
<1>1. Inv => TypeOK
  BY DEF Inv
<1> QED
  BY <1>1, Invariance, PTL

\* The wallet is charged once, with consent, and never for a purchase that ended
\* before its transfer.
THEOREM ChargedOnce == Spec => []TransferredOnce
<1>1. Inv => TransferredOnce
  <2> SUFFICES ASSUME Inv, NEW p \in Purchases
               PROVE  /\ transfers[p] <= 1 /\ (transfers[p] = 1 => p \in consent /\ p \in key)
                      /\ state[p] \in {"REJECTED", "FAILED_BEFORE_TRANSFER"} => transfers[p] = 0
    BY DEF TransferredOnce
  <2> QED
    BY DEF Inv, OneTransfer, NotYetCharged, Unpaid
<1> QED
  BY <1>1, Invariance, PTL

\* The key is handed out and the spend recorded at most once, and only of a
\* purchase that is complete and paid.
THEOREM DeliveredAndRecordedOnce == Spec => []SettledOnce
<1>1. Inv => SettledOnce
  <2> SUFFICES ASSUME Inv, NEW p \in Purchases
               PROVE  /\ revealed[p] <= 1 /\ recorded[p] <= 1
                      /\ revealed[p] = 1 => p \in delivered
                      /\ revealed[p] + recorded[p] > 0 => state[p] = "COMPLETE" /\ p \in moved
    BY DEF SettledOnce
  <2>1. state[p] # "COMPLETE" => revealed[p] + recorded[p] = 0
    BY DEF Inv, CompleteFirst
  <2>2. state[p] = "COMPLETE" => p \in moved
    BY DEF Inv, PaidFirst
  <2> QED
    BY <2>1, <2>2 DEF Inv, OneSettlement
<1> QED
  BY <1>1, Invariance, PTL

-----------------------------------------------------------------------------
(* Every top-up has its leave: the payment gives one, a reconcile call and *)
(* a resume that finds the row topping up give one each.  A thread on its  *)
(* way to a top-up holds one, and the top-up uses it up.                   *)

OnTheWay == {"checking", "transfer", "topup", "crediting"}
Pending(p) == {t \in Threads : pc[t] \in OnTheWay /\ cur[t] = p}
\* A row nobody has resumed: it leaves these states for good.
NotResumed == Unpaid \ {"REJECTED", "FAILED_BEFORE_TRANSFER"}
Leave(p) == (IF state[p] \in NotResumed THEN 0 ELSE 1) + reconciled[p] + joined[p]
AskedFirst(p) ==
  tried[p] + Cardinality(Pending(p)) <= Leave(p) /\ (tried[p] > 0 => p \in hash)
AskedInv == \A p \in Purchases : AskedFirst(p)

LEMMA PendingIsFinite ==
  ASSUME NEW p
  PROVE  /\ IsFiniteSet(Pending(p)) /\ Cardinality(Pending(p)) \in Nat
<1>1. IsFiniteSet(Threads)
  BY BankrAssumption, FS_AddElement DEF Threads
<1>2. Pending(p) \in SUBSET Threads
  BY DEF Pending
<1> QED
  BY <1>1, <1>2, FS_Subset, FS_CardinalityType

\* What a step may do to the threads on their way to the top-up of p.
LEMMA NobodySetsOut ==
  ASSUME NEW p, Pending(p)' \subseteq Pending(p)
  PROVE  Cardinality(Pending(p))' \in Nat /\ Cardinality(Pending(p))' <= Cardinality(Pending(p))
<1>1. Pending(p)' \in SUBSET Pending(p)
  OBVIOUS
<1> QED
  BY <1>1, PendingIsFinite, FS_Subset, FS_CardinalityType

LEMMA OneSetsOut ==
  ASSUME NEW p, NEW t, Pending(p)' \subseteq Pending(p) \cup {t}
  PROVE  /\ Cardinality(Pending(p))' \in Nat
         /\ Cardinality(Pending(p))' <= Cardinality(Pending(p)) + 1
<1>1. /\ IsFiniteSet(Pending(p) \cup {t})
      /\ Cardinality(Pending(p) \cup {t}) <= Cardinality(Pending(p)) + 1
  BY PendingIsFinite, FS_AddElement
<1>2. Pending(p)' \in SUBSET (Pending(p) \cup {t})
  OBVIOUS
<1>3. /\ IsFiniteSet(Pending(p)') /\ Cardinality(Pending(p)') \in Nat
      /\ Cardinality(Pending(p)') <= Cardinality(Pending(p) \cup {t})
  BY <1>1, <1>2, FS_Subset, FS_CardinalityType
<1>4. Cardinality(Pending(p) \cup {t}) \in Nat /\ Cardinality(Pending(p)) \in Nat
  BY <1>1, FS_CardinalityType, PendingIsFinite
<1> QED
  BY <1>1, <1>3, <1>4

LEMMA OneArrives ==
  ASSUME NEW p, NEW t \in Pending(p), Pending(p)' \subseteq Pending(p) \ {t}
  PROVE  /\ Cardinality(Pending(p))' \in Nat
         /\ Cardinality(Pending(p))' + 1 <= Cardinality(Pending(p))
<1>1. /\ IsFiniteSet(Pending(p) \ {t})
      /\ Cardinality(Pending(p) \ {t}) = Cardinality(Pending(p)) - 1
  BY PendingIsFinite, FS_RemoveElement
<1>2. Pending(p)' \in SUBSET (Pending(p) \ {t})
  OBVIOUS
<1>3. /\ IsFiniteSet(Pending(p)') /\ Cardinality(Pending(p)') \in Nat
      /\ Cardinality(Pending(p)') <= Cardinality(Pending(p) \ {t})
  BY <1>1, <1>2, FS_Subset, FS_CardinalityType
<1> QED
  BY <1>1, <1>3, PendingIsFinite

\* Most steps neither ask for a top-up nor try one, and nobody sets out in them.
Quiet ==
  /\ tried' = tried /\ reconciled' = reconciled /\ joined' = joined /\ hash \subseteq hash'
  /\ \A p \in Purchases : state'[p] \in NotResumed => state[p] \in NotResumed
  /\ \A u \in Threads : pc'[u] \in OnTheWay => pc[u] \in OnTheWay /\ cur'[u] = cur[u]

LEMMA LeaveType ==
  ASSUME Inv, NEW p \in Purchases
  PROVE  Leave(p) \in Nat /\ tried[p] \in Nat /\ reconciled[p] \in Nat /\ joined[p] \in Nat
BY DEF Inv, TypeOK, Leave

LEMMA QuietStep ==
  ASSUME Inv, AskedInv, Quiet
  PROVE  AskedInv'
<1> SUFFICES ASSUME NEW p \in Purchases
             PROVE  AskedFirst(p)'
  BY DEF AskedInv
<1>1. Cardinality(Pending(p))' \in Nat /\ Cardinality(Pending(p))' <= Cardinality(Pending(p))
  BY NobodySetsOut DEF Quiet, Pending
<1>2. tried'[p] = tried[p] /\ Leave(p)' \in Nat /\ Leave(p) <= Leave(p)'
  BY LeaveType DEF Quiet, Leave
<1> QED
  BY <1>1, <1>2, LeaveType, PendingIsFinite DEF AskedInv, AskedFirst, Quiet

LEMMA AskStep ==
  ASSUME Inv, AskedInv, NEW t \in Threads, NEW q \in Purchases,
         tried' = tried, hash' = hash, cur'[t] = q,
         Leave(q)' = Leave(q) + 1,
         \A p \in Purchases \ {q} : Leave(p)' = Leave(p),
         \A u \in Threads \ {t} : pc'[u] = pc[u] /\ cur'[u] = cur[u]
  PROVE  AskedInv'
<1> SUFFICES ASSUME NEW p \in Purchases
             PROVE  AskedFirst(p)'
  BY DEF AskedInv
<1>1. CASE p = q
  <2>1. /\ Cardinality(Pending(p))' \in Nat
        /\ Cardinality(Pending(p))' <= Cardinality(Pending(p)) + 1
    BY OneSetsOut DEF Pending
  <2> QED
    BY <1>1, <2>1, LeaveType, PendingIsFinite DEF AskedInv, AskedFirst
<1>2. CASE p # q
  <2>1. Cardinality(Pending(p))' \in Nat /\ Cardinality(Pending(p))' <= Cardinality(Pending(p))
    BY <1>2, NobodySetsOut DEF Pending
  <2> QED
    BY <1>2, <2>1, LeaveType, PendingIsFinite DEF AskedInv, AskedFirst
<1> QED
  BY <1>1, <1>2

LEMMA ResumeAsks ==
  ASSUME Inv, AskedInv, NEW t \in Threads, Resume(t)
  PROVE  AskedInv'
<1> DEFINE q == cur[t]
<1>1. /\ cur' = cur /\ tried' = tried /\ hash' = hash /\ q \in Purchases
      /\ reconciled' = reconciled /\ \A u \in Threads \ {t} : pc'[u] = pc[u]
  BY DEF Resume, GotoAs, Inv, RowTaken, TypeOK
<1>2. CASE /\ state[q] = "AWAITING_TRANSFER" /\ joined' = joined
           /\ state' = [state EXCEPT ![q] = "TRANSFERRING_SINGIT"]
  <2>1. Leave(q)' = Leave(q) + 1
    BY <1>1, <1>2, LeaveType DEF Leave, NotResumed, Unpaid, Inv, TypeOK
  <2>2. \A p \in Purchases \ {q} : Leave(p)' = Leave(p)
    BY <1>1, <1>2 DEF Leave, Inv, TypeOK
  <2> QED
    BY <1>1, <2>1, <2>2, AskStep
<1>3. CASE state' = state /\ joined' = Plus(joined, q)
  <2>1. Leave(q)' = Leave(q) + 1
    <3>1. joined \in [Purchases -> Nat]
      BY DEF Inv, TypeOK
    <3>2. joined'[q] = joined[q] + 1 /\ reconciled'[q] = reconciled[q] /\ state'[q] = state[q]
      BY <1>1, <1>3, <3>1
    <3> QED
      BY <1>1, <3>2, LeaveType DEF Leave
  <2>2. \A p \in Purchases \ {q} : Leave(p)' = Leave(p)
    BY <1>1, <1>3 DEF Leave, Inv, TypeOK
  <2> QED
    BY <1>1, <2>1, <2>2, AskStep
<1>4. CASE /\ joined' = joined /\ pc'[t] = "idle"
           /\ state' = state \/ state' = [state EXCEPT ![q] = "RECONCILIATION_REQUIRED"]
  BY <1>1, <1>4, QuietStep DEF Quiet, OnTheWay, NotResumed, Unpaid, Inv, TypeOK
<1>5. \/ /\ state[q] = "AWAITING_TRANSFER" /\ joined' = joined
         /\ state' = [state EXCEPT ![q] = "TRANSFERRING_SINGIT"]
      \/ state' = state /\ joined' = Plus(joined, q)
      \/ /\ joined' = joined /\ pc'[t] = "idle"
         /\ state' = state \/ state' = [state EXCEPT ![q] = "RECONCILIATION_REQUIRED"]
  BY DEF Resume, Inv, TypeOK
<1> QED
  BY <1>2, <1>3, <1>4, <1>5

LEMMA ReconcileAsks ==
  ASSUME Inv, AskedInv, NEW t \in Requests, Reconcile(t)
  PROVE  AskedInv'
<1>1. t \in Threads /\ tried' = tried /\ hash' = hash /\ joined' = joined /\ state' = state
  BY ThreadsAndRows DEF Reconcile
<1>2. PICK q \in Purchases :
        \/ Take(t, "delivering", q) /\ UNCHANGED reconciled
        \/ reconciled' = Plus(reconciled, q) /\ Take(t, "crediting", q)
  BY DEF Reconcile
<1>3. cur'[t] = q /\ \A u \in Threads \ {t} : pc'[u] = pc[u] /\ cur'[u] = cur[u]
  BY <1>1, <1>2 DEF Take, Inv, TypeOK
<1>4. CASE reconciled' = Plus(reconciled, q)
  <2>1. Leave(q)' = Leave(q) + 1
    BY <1>1, <1>4, LeaveType DEF Leave, Inv, TypeOK
  <2>2. \A p \in Purchases \ {q} : Leave(p)' = Leave(p)
    BY <1>1, <1>4 DEF Leave, Inv, TypeOK
  <2> QED
    BY <1>1, <1>3, <2>1, <2>2, AskStep
<1>5. CASE pc'[t] = "delivering" /\ reconciled' = reconciled
  BY <1>1, <1>3, <1>5, QuietStep DEF Quiet, OnTheWay
<1> QED
  BY <1>1, <1>2, <1>4, <1>5 DEF Take, Inv, TypeOK

\* A top-up that is not refused uses up its thread's leave, and its row is paid.
LEMMA TopUpUsesItsLeave ==
  ASSUME Inv, AskedInv, NEW t \in Threads, TopUp(t)
  PROVE  AskedInv'
<1> DEFINE q == cur[t]
<1>1. /\ pc[t] = "topup" /\ cur' = cur /\ hash' = hash
      /\ reconciled' = reconciled /\ joined' = joined
      /\ q \in Purchases /\ q \in hash
      /\ pc'[t] \in {"idle", "completing", "polling"}
      /\ \A u \in Threads \ {t} : pc'[u] = pc[u]
      /\ \A p \in Purchases : state'[p] \in NotResumed => state[p] \in NotResumed
  BY DEF NotResumed, Unpaid, TopUp, Transition, Credited, RefusedForGood, AnswerLost, Hold, Inv, RowTaken, PaidFirst, TypeOK
<1>2. tried' = tried \/ tried' = Plus(tried, q)
  BY DEF TopUp, Credited, RefusedForGood, AnswerLost
<1>3. CASE tried' = tried
  BY <1>1, <1>3, QuietStep DEF Quiet, OnTheWay
<1>4. CASE tried' = Plus(tried, q)
  <2> SUFFICES ASSUME NEW p \in Purchases
               PROVE  AskedFirst(p)'
    BY DEF AskedInv
  <2>1. /\ tried[p] \in Nat /\ tried \in [Purchases -> Nat] /\ Leave(p) \in Nat
        /\ Leave(p)' \in Nat /\ Leave(p) <= Leave(p)'
    BY <1>1, LeaveType DEF Leave, Inv, TypeOK
  <2>2. CASE p = q
    <3>1. tried'[p] = tried[p] + 1
      BY <1>4, <2>1, <2>2
    <3>2. t \in Pending(p) /\ Pending(p)' \subseteq Pending(p) \ {t}
      BY <1>1, <2>2 DEF Pending, OnTheWay
    <3>3. /\ Cardinality(Pending(p))' \in Nat
          /\ Cardinality(Pending(p))' + 1 <= Cardinality(Pending(p))
      BY <3>2, OneArrives
    <3> QED
      BY <1>1, <2>1, <2>2, <3>1, <3>3, PendingIsFinite DEF AskedInv, AskedFirst
  <2>3. CASE p # q
    <3>1. tried'[p] = tried[p]
      BY <1>4, <2>1, <2>3
    <3>2. Pending(p)' \subseteq Pending(p)
      BY <1>1 DEF Pending, OnTheWay
    <3>3. Cardinality(Pending(p))' \in Nat /\ Cardinality(Pending(p))' <= Cardinality(Pending(p))
      BY <3>2, NobodySetsOut
    <3> QED
      BY <1>1, <2>1, <3>1, <3>3, PendingIsFinite DEF AskedInv, AskedFirst
  <2> QED
    BY <2>2, <2>3
<1> QED
  BY <1>2, <1>3, <1>4

LEMMA CallsAreQuiet ==
  ASSUME Inv, NEW t \in Requests, Start(t) \/ AcceptTerms(t) \/ Verify(t) \/ Credits(t)
  PROVE  Quiet
<1> USE ThreadsAndRows DEF Inv, TypeOK, Quiet, OnTheWay, NotResumed, Unpaid, Called, ExpireFirst, Take
<1>1. CASE Start(t)
  BY <1>1 DEF Start
<1>2. CASE AcceptTerms(t)
  BY <1>2 DEF AcceptTerms, Transition
<1>3. CASE Verify(t)
  BY <1>3 DEF Verify
<1>4. CASE Credits(t)
  BY <1>4 DEF Credits
<1> QED
  BY <1>1, <1>2, <1>3, <1>4

LEMMA WorkIsQuiet ==
  ASSUME Inv, NEW t \in Threads, Work(t), ~Resume(t), ~TopUp(t)
  PROVE  Quiet
<1> USE DEF Inv, TypeOK, Quiet, OnTheWay, NotResumed, Unpaid, Transition, Answer, GotoAs, Hold
<1>1. CASE Expire(t) \/ SendOtp(t) \/ Verifying(t)
  BY <1>1 DEF Expire, SendOtp, Verifying
<1>2. CASE Create(t)
  BY <1>2 DEF Create, Take, New
<1>3. CASE CreateKey(t)
  BY <1>3 DEF CreateKey, InvalidOtp, KeyUncertain, SaveIdentity
<1>4. CASE KeyCreated(t) \/ Price(t) \/ Approve(t)
  BY <1>4 DEF KeyCreated, Price, Approve, OverLimits
<1>5. CASE CheckTransfer(t) \/ TransferFails(t) \/ Transferred(t)
  BY <1>5 DEF CheckTransfer, NotAsApproved, TransferFails, Transferred
<1>6. CASE Poll(t) \/ ReadCredits(t)
  BY <1>6 DEF Poll, ReadCredits
<1>7. CASE Complete(t) \/ Record(t) \/ Deliver(t)
  BY <1>7 DEF Complete, Record, Deliver
<1> QED
  BY <1>1, <1>2, <1>3, <1>4, <1>5, <1>6, <1>7 DEF Work

LEMMA WorldIsQuiet ==
  ASSUME Inv, \/ Sweep \/ (\E p \in Purchases : MoneyMoves(p))
              \/ CreditLands \/ Crash \/ Tick \/ UNCHANGED vars
  PROVE  Quiet
<1> USE DEF Inv, TypeOK, Quiet, OnTheWay
<1>1. CASE Sweep
  BY <1>1, ThreadsAndRows DEF Sweep, Take
<1>2. CASE Crash
  BY <1>2 DEF Crash
<1>3. CASE (\E p \in Purchases : MoneyMoves(p)) \/ CreditLands \/ Tick \/ UNCHANGED vars
  BY <1>3 DEF MoneyMoves, CreditLands, Tick, vars
<1> QED
  BY <1>1, <1>2, <1>3

LEMMA NobodyAskedYet == Init => AskedInv
<1> SUFFICES ASSUME Init, NEW p \in Purchases
             PROVE  AskedFirst(p)
  BY DEF AskedInv
<1>1. Pending(p) = {}
  BY DEF Init, Pending, OnTheWay
<1> QED
  BY <1>1, FS_EmptySet DEF Init, AskedFirst, Leave, NotResumed, Unpaid

LEMMA AskedStep == Inv /\ AskedInv /\ [Next]_vars => AskedInv'
<1> SUFFICES ASSUME Inv, AskedInv, [Next]_vars PROVE AskedInv'
  OBVIOUS
<1>1. CASE \E t \in Requests : Start(t) \/ AcceptTerms(t) \/ Verify(t) \/ Credits(t)
  BY <1>1, CallsAreQuiet, QuietStep
<1>2. CASE \E t \in Requests : Reconcile(t)
  BY <1>2, ReconcileAsks
<1>3. CASE \E t \in Threads : Work(t)
  BY <1>3, ResumeAsks, TopUpUsesItsLeave, WorkIsQuiet, QuietStep
<1>4. CASE \/ Sweep \/ (\E p \in Purchases : MoneyMoves(p))
           \/ CreditLands \/ Crash \/ Tick \/ UNCHANGED vars
  BY <1>4, WorldIsQuiet, QuietStep
<1> QED
  BY <1>1, <1>2, <1>3, <1>4 DEF Next

\* No top-up beyond the first is tried without a reconcile call, or a resume that
\* found the row topping up, of its own; and only a purchase whose payment is on
\* file is topped up.
THEOREM TopUpsHaveLeave == Spec => []TopUpsAreAskedFor
<1>1. Inv /\ AskedInv => TopUpsAreAskedFor
  <2> SUFFICES ASSUME Inv, AskedInv, NEW p \in Purchases
               PROVE  /\ tried[p] <= 1 + reconciled[p] + joined[p]
                      /\ tried[p] > 0 => p \in hash
    BY DEF TopUpsAreAskedFor
  <2>1. Leave(p) <= 1 + reconciled[p] + joined[p]
    BY LeaveType DEF Leave
  <2> QED
    BY <2>1, LeaveType, PendingIsFinite DEF AskedInv, AskedFirst
<1> QED
  BY <1>1, Invariance, NobodyAskedYet, AskedStep, PTL DEF Spec

=============================================================================
