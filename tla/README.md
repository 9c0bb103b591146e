# A TLA+ model of the sign402 gateway

The repository is a wallet that agents may spend from: a gateway
(`sign402-gateway`, a threaded HTTP server) that holds users' wallets, asks their
owners and pays x402 resources; chat plugins and sidecars (`hermes-plugins`) that carry
the owners' words to it; a lane whose consent is a Ledger signature; and a set of
clients and payers (Bitrefill, Bankr, Venice, Algorand, Base, Solana). What makes it
hard is the time a purchase takes - a person is asked for minutes, a payer runs for
minutes - while other threads spend from the same budget, messages come late or twice,
and the process may die with money under way. The modules here model the protocols that
decide whether money moves, and how it is accounted for.

Contents: [components](#components) · [modules](#modules) · [runs](#runs) ·
[proofs](#proofs) · [findings](#findings) · [not modelled](#not-modelled) ·
[plan](#plan)

## Components

| Part | State it keeps | Operations | Hard behaviour |
|---|---|---|---|
| `UserSpendLimitStore` (server.py 5272-5649) | records, reservations and limits in one encrypted file | reserve, release, settle, record, set limits | holds that lapse, midnight, limits changed in between |
| tool purchases (server.py 1646-1862, 7003-7549) | the handler's locals, claims in `spending_memory` | scope, reserve, authorise, ask, pay, settle, release | redelivery, slow payer, exception or crash after payment |
| Ledger lane (`ledger_payments.py`, `ledger_approval.py`) | one SQLite row per request | start, status, approve, cancel | two approvals, failing hooks, crash at the payer |
| approval links (`imessage_approvals.py`) | pairing codes, links, preferences, old link table | pair, link, select, unlink, start-up copy | phone moved between users, codes that lapse, restart |
| approvals (`imessage_approvals.py`, plugin) | one row per approval | request, send, poll, decide, release | late YES, lost message, decision racing the timeout |
| Solana client (`solana-x402-service`) | quotes and attempts in SQLite | quote, pay, reconcile | parallel processes, lost response, stale proof |
| Bitrefill orders (`bitrefill_runner.py`, `bitrefill_mcp.py`, `commerce_store.py`) | orders with a state, checkpoints, verdicts in memory | buy, prepare, fulfil, return, look up | retry of a paid order, fulfilments beside each other, funding that fails halfway |
| Bankr LLM orders (`bankr_llm_purchase.py`) | orders with a state | start, terms, OTP, transfer, top-up, reconcile, sweep | resume beside reconcile, a credit that comes late |
| Venice chat and search (`venice_chat.py`, `chat_store.py`, `web_search.py`) | one row per user: window, credit, pause, claim, policy | send, prefund, debit, reconcile, search, approve a policy, watch the merchant | payment without credit, two messages at once, midnight |
| Telegram wizards (`sign402-wallet/__init__.py`) | session dictionaries, one reserved operation | messages, background reads, purchases, withdrawals | threads that write a session the user has left |
| wallets and withdrawals (`user_wallets.py`, `client.py`, server.py 1201-1337) | encrypted wallets, tokens, the plugin's cache | create, mint, resolve, withdraw | two creations, an evicted token, an answer that is lost |
| operator lane (server.py 1646-1800, 3540-4660, `executor.py`, `firefly.py`) | policies with their spend, a device lock, receipts | approve a policy, approve a payment, buy | answers to an earlier prompt, a payer that raises after paying |
| purchase slot, duplicate cache, rate limits (server.py 2285-2374, 5851-5880) | in memory | acquire, release, look up | waiting for a person with a lock held |
| WhatsApp webhook, keyring, remote reads, scripts, website | none of their own | one request each | - |

How they interact. A handler thread of the gateway calls the spend store and
`spending_memory` (an external package: claims over purchases, held, settled or aged
out), then the approval service, which inserts a row, has a sidecar deliver a message
and polls the row; the sidecar turns replies into calls of `record_decision` on other
threads. Then the payer runs as a subprocess and the handler settles. The stores
serialise each single call (a lock, or `BEGIN IMMEDIATE`); nothing spans two calls.
The Ledger lane replaces the person's reply by a signature and keeps its own row,
and uses the same spend store and claims. Bitrefill and Bankr purchases put an order row
of their own between the approval and the payer, so that a process that dies leaves a
state to go on from. The operator's purchases have no user: their consent is a
policy and a press on the Firefly device, one at a time under a lock. The Solana client
is a command line tool with its own wallet and journal; each command is a process.

What makes each part correct is listed as properties below, and what could go wrong
as `hazards` in PROJECT.json, each at its line.

## Modules

One module per component; a comment above each definition names the function it stands
for, and `map` in PROJECT.json its lines. One action is what the code does under one
lock or in one transaction, or between two waits. Definitions whose name ends in an
underscore and a word (`Claimable_Twice`) are mutants: a definition with a plausible bug,
kept to show that a run would notice it.

- **SpendLimits** - `UserSpendLimitStore`. `records` and `holds` are the file's two
  lists; an entry carries its purchase's id and day, and amount, user and asset are
  constants of the id. Every method drops expired holds as it reads (`LiveHolds`), and a
  settled record takes the day of its hold. `limit_settings` clamps the user's limit,
  or the operator's default, to the ceiling (`LimitSettings`). `Next` lets any handler
  call in any order, with the limits read in the same step.
- **ToolPurchase** extends SpendLimits: the handler of `/agent/buy-tool`, one thread per
  delivery of a request, `step` naming the place between two calls. The limits are read
  in one step and used in the next, as `_user_wallet_spend_scope` and
  `reserve_within_limits` do. BLOCK, ESCALATE and PAY are a choice, except that PAY needs
  a claim that is free (`Claimable`, external). `finally` is two steps, budget then
  claim. `misled` is a ghost: the attempts to which a call reported a failure although
  it had succeeded, or failed although it should not (`AmbiguousPay`, `StoreFaults`).
- **AtMostOncePayment** - what the Ledger lane promises: the payer is called once for a
  request (`sent` counts the calls), with none open beside it, not while paused and not
  after the approval lapsed; what is dead was never sent.
- **LedgerPayments** - the lane. A thread's `pc` walks through `start`, `approve` and
  `cancel`; a transition is a compare-and-set on the row, which is why `Execute` and
  `Cancel` test the state again that was read before. Rows expire as they are read. The
  hooks (`reserve`, `pay`, `settle`, `release`, the memory) may raise at every call.
- **ChannelLinks** - pairing codes, links, the preferred channel, and the table of an
  earlier version that is still written and is copied back at start-up (`OpenStore`).
- **HumanConsent** - what the approval service promises: a question is answered or void
  for ever, a caller hears yes only when the person said yes, and hears nothing while the
  question is open - except that asking may fail with an exception (`Fail`), which closes
  nothing.
- **ApprovalService** extends ChannelLinks: the requesting thread (`waiter`), the row
  (`status`), the messages that arrived (`shown`), and decision calls on their way
  (`decisions`). `EchoId` and `RequireId` are the deployment's choices for iMessage. The
  notifier succeeds, fails or raises (`SendRaises`: only a timeout is caught in
  imessage_approvals.py 223-238, and whatsapp_cloud.py 125-130 reads the response outside its
  `try`); then the caller has an exception and the row stays pending for its life.
- **SolanaPayments** - `pay` and `reconcile` of payments.mjs as the steps between their
  awaits, by several processes over one journal, each of which can be killed. A
  transaction is named by the quote it pays; `Other` is anybody else's.
- **BitrefillOrders** - `state`, `expiresAt`, `token` and `invoice` are the order row;
  `CanAdvance` is `advance_state`, which raises when a row would go back. A buy (`pc`) is
  the handler with the runner it calls: slot, hold, approval, fresh price, invoice,
  funding, fulfilment, event, settlement. A fulfilment (`fc`) is a thread of its own,
  because Bankr's endpoint may start one for an order a buy is fulfilling too;
  `FulfilClaim` is `try_mark_fulfilling`. Transfers are `asked` for and `moved` later or
  never, whatever their caller was told, and `stage: pre_swap` is the one failure after
  which tokens are sent back. `verdicts` is the dictionary `spending_memory_holds`, read
  by buyer and not by order, as the code does. Both runners (managed wallet and Firefly),
  the preparation for Bankr's settlement and the order lookup are actions.
- **BankrPurchases** - the rows of one buyer; `Transition` is `UPDATE ... WHERE state =`
  and each thread keeps the row and the state it read (`cur`, `was`). Any command first
  expires a row that is over its time (`ExpireFirst`). `balance` is the credit at Bankr,
  `open` the top-ups whose answer was lost and that may still be credited. The settlement
  worker is the thread `Sweeper`; it completes rows and never spends, and looks only at the
  rows `Listed`: changed within `SettleAge` (seven days in the code) and among the
  `SettleLimit` oldest of those. A model with one row has `SettleLimit` = 1; in the code the
  twenty are shared by all buyers.
- **ChatCredit** - `row` is the user's row of chat_sessions, each call of the store one
  step under its lock, with `_rolled_over` applied as it reads. A message (`msg`) keeps
  what its request read of the row, so that what is checked can be stale: the cap is
  checked with `remaining` as it was, again under the claim. A top-up is `sent` and
  `landed` apart. Search, policy approval, the payTo watcher and a merchant that moves
  run beside the messages.
- **TelegramSessions** - the hook handles a user's messages one at a time, each branch of
  the dispatcher an action with the priority its place gives it; `tasks` are the daemon
  threads, `active` the reserved operation. A thread looks whether it is current
  (`ReadReturns`) and writes the session (`ReadWrites`) in two steps, without a lock.
  `left` and `offered` are ghosts for the properties. An operation may be reserved and never
  get a thread (`InVain`, pc "never"): `_run_in_background` raised, or the text that announces
  it could not be sent.
- **UserWallets** - a command is a thread of the plugin (`user`) and a thread of the
  gateway (`gw`) that goes on when the plugin stops listening. `tokens` gives the age of
  each token on file, of which a mint keeps the `MaxActive` newest; `cache` is the plugin's
  copy with its age. The chain (`tx`, `balance`) is asked in one step and answers in another.
- **OperatorLane** - the purchases from the operator's accounts: `policies` in the order
  they were first stored (the oldest match wins), `book` their spend and intents, `lock`
  the Firefly lock, `cache` the receipts of `/buy-tool`. A prompt stays on the device when
  its request gives up, and `_read_until_ok` returns the answer to any prompt
  (`Approved`, `Declined` choose one); `IsFor` is the comparison that protects from it.
  All eight purchase handlers are the same steps; `PaysAsSeen` tells those that pay from
  the terms they showed from those whose client reads the price again.

Each module states one type invariant (`TypeOK`, `ToolTypeOK`, `ClientTypeOK`,
`WalletTypeOK`, `SessionTypeOK`), part of the inductive invariant of its proof; no run
repeats it. Of BitrefillOrders it is proved without `letBy`, the buys that a verdict
was taken for, which only `OwnVerdict` is about.

## Runs

Every bound is a constant with a name. They are small because the hazards need few
actors: two purchases to race, one more to stand by, one crash, one midnight.

| Run | Instance | What it shows |
|---|---|---|
| `spend_limits` | 3 reserved purchases (2, 1, 1) and a direct one, days of 3 ticks, holds of 2, 7 ticks, daily default 2, ceiling 3 | counted once, and what is reserved for a day is never above the ceiling |
| `tool_purchase` | one request delivered twice, one crash, one tick = 120 s, hold 3 ticks, ask and payer 1 tick each, claim 1 tick | moved money is counted, an ended request holds nothing, two automatic payments only by an aged claim, every request ends |
| `ledger` | 2 requests, 2 threads, 1 crash, 2 pause toggles, TTL 1 of 2 ticks, failing hooks | refinement of AtMostOncePayment; a payment that was sent keeps its evidence |
| `approvals` | 1 user, 1 phone, both channels, a purchase and a test, 1 restart | refinement of HumanConsent; buttons and links stay bound; a reply decides another approval only when it is late |
| `solana` | 2 quotes, 3 processes | one submission per quote, none beside an open one, a resolved row is true |
| `bitrefill` | two buys of one quote by one buyer, or a Firefly buy with Bankr's own fulfilment beside an operator's wallet buy; 1 crash, 1 tick; 84 000 states | an order is paid once; its state is true of the money; refunds are whole; funded tokens are spent, returned or on record; the slot comes free |
| `bankr` | 1 purchase, 2 handlers and the worker, 4 commands or crashes of which 1 crash, code of 1 tick; 299 000 states | one transfer; a second top-up only after a reconcile or by a verify that joined another; one delivery and one record; a late credit is found while its row is listed |
| `chat` | 2 messages of which one searches, 2 addresses, top-ups of 2, cap 2, days of 2 ticks, 1 fault, 1 change of policy or merchant; 821 000 states | paid is booked in its window; one prefund at a time, to an approved address; bought credit survives |
| `telegram` | 4 messages, 3 threads, opening at the start, at a product and at the token list; 1 077 000 states | no wizard waits for a thread that is gone, but for those that never were or broke off; a double tap buys once; a reservation is given back |
| `wallets` | two withdrawals of ETH that together break the reserve and a `/wallet`, 2 live tokens of 2 ticks; 1 320 000 states | one address, no token refused before its time, no false assurance about funds |
| `operator` | a policy approved twice, two equal `/buy-tool`, a buy paid as seen, a payment handed in; prices 2, 2, 1 under budget 3; 1 restart; 487 000 states | the budget holds, each press of yes pays once and for its own payment, an intent on record is not paid again, the lock comes free |

`bankr_expired` expects a violation, see [findings](#findings).

Why the bounds are enough: in `tool_purchase` the ratios are those of the code (a hold
lives 900 s; the person has 120 s; the payer's subprocess is stopped after 120 s; a
claim ages after 120 s), with the smallest numbers for which the wait for a person plus
the wait for the payer is shorter than the hold. In `spend_limits` a hold may be made on
each side of a midnight and settled on either. In `ledger` a third request or thread
adds nothing to a race of two over one row, and the proofs below cover any number. Time
in `approvals` is one tick, so that an approval, and a code, is alive or lapsed; the
proofs cover longer lives. In `bitrefill` the races are over one row, so two fulfilments
and a lookup are what can meet there; one tick is enough for a quote to expire between
any two steps. `bankr` has one row because the store's unique index gives a buyer one
active row at a time. In `chat` a cap of one top-up makes the second message's prefund
the one that must not happen, and a fault is any one of: a lost answer, a failed call, a
crash. In `telegram` four messages are: begin, leave, begin something else, tap again. In
`wallets` a claim of the code that is about a ratio is kept as one: a mint takes less time
than the refresh skew, and both less than a token's life. In `operator` the budget has room
for one tool purchase and the other buy, not for two.

Deadlock is not checked in `ledger`, `solana`, `bitrefill`, `bankr`, `chat`, `telegram` and
`operator`: when every request is final, every quote has expired or the bound on calls
and messages is used up, the instance really has nothing left to do.

**Fairness.** `FairToolSpec`, and `FairSpec` of LedgerPayments, ask for
weak fairness of each thread's own steps: the server gives every
request a thread, and every wait in it (the person, the notifier, the payer, the HTTP
calls) has a timeout, so a thread that has begun is never held up for ever. The same
reason stands behind `BuyStep` and `CallStep` of BitrefillOrders (beginning a buy, money
that moves and a provider that delivers are not fair), `Work` of BankrPurchases and
`Threads` of TelegramSessions; `Sweep` is fair because the worker's loop comes round at
every interval; `Step` of OperatorLane because the device is read for 35 seconds and
every seller or command has a timeout. Nothing is
assumed of people, messages, clients, chains or the clock.
ApprovalService, ChatCredit and UserWallets are checked for safety alone.

**Further configurations.** These are not part of the runs; each is run with
`tlc -config <file>.cfg <module>`. The first two hold, the others end in a counterexample
that is described under findings or in the observations. A file named `Doubts` holds
several properties, all of them violated; `-continue` shows each one.

| Configuration | Module | Property |
|---|---|---|
| MCLedgerLive.cfg | MCLedgerPayments | `ExecutionResolves`: without crashes and failing hooks an execution ends. With them it does not, by design: the row stays `executing` for an operator, and the lane closed |
| MCApprovalMoves.cfg | MCApprovalService | `OneLinkEachWay`, `ApprovedByAReply`, `OneActivePairing` with two users and one phone |
| MCToolSlow.cfg, MCToolReplay.cfg | MCToolPurchase | `SlowPaymentCounted`, `PaidOncePerRequest` |
| MCCeilingOnly.cfg | MCSpendLimits | a configured ceiling bounds everybody |
| MCApprovalDoubts.cfg | MCApprovalService | `ReplyDecidesItsOwn`: a YES decides the approval it was given to; `NobodyAsksInVain`: no approval is open behind a caller that left |
| MCSolanaDowngrade.cfg | MCSolanaPayments | a confirmed row stays confirmed |
| MCVerdictReuse.cfg | MCBitrefillOrders | `OwnVerdict` |
| MCChatCap.cfg | MCChatCredit | `DayWithinCap` |
| MCBankrDoubts.cfg | MCBankrPurchases | `SecondTopUpIsReconciled`, `LateCreditIsFound` |
| MCTelegramDoubts.cfg | MCTelegramSessions | `TokenButtonFirst`, `EveryLoadingEnds`, `StaleResultDiscarded` |
| MCWithdrawRetry.cfg | MCUserWallets | `NoInvitationToRepeat` |
| MCOperatorDoubts.cfg | MCOperatorLane | `PolicyApprovedOnDevice`, `PaidAsApproved` |

## Proofs

| Module | Theorems | The inductive invariant |
|---|---|---|
| ToolPurchaseProofs (with SpendLimits) | NoDoubleCount, TodayStaysOnFile, CeilingHolds; NothingLeftHeld, AutoPaymentsApart, HeldUntilSettled, MoneyStaysCounted | of the store: an id on file was issued, so a new hold cannot repeat one; `CeilingInv`: the sum of what is reserved; of the handler, `ClaimKept`, `ClaimStands`, `ClaimsApart`: who has a claim and since when; `TimedInv`: how old a hold may be at the steps that use it |
| WalletProofs (LedgerPayments) | TypeCorrect, LaneExclusive, PayerCalledAtMostOnce, NothingSentUnsigned, DeadRowsTellTheTruth, WaitingHoldsNothing, EvidenceKept, FinalStatesStay, LaneImplementsPromise | `Ownership`: a thread past the transition owns its executing row alone; `Submission`: before and after the gate; `Signature`; `Holdings`: what each step holds |
| WalletProofs (UserWallets) | AddressIsOnFile, TokensLast, AssurancesHold | `CommandInv`, for each command: `MoneyTold`, what was sent against what its caller was told; `AddressFiled`; `HeldGood`, the token it has is on file and no older than it counts, or newer ones replaced it |
| ConversationProofs (ChannelLinks) | LinksAreOneToOne, LegacyAgrees, OneCodeAtATime, RestartLinksNobody | uniqueness of links and agreement of the two tables, each needing the other |
| ConversationProofs (ApprovalService) | TypeCorrect, OneOpenApproval, NothingOpenBehindAnAnswer, ApprovalHadAYes, ButtonsStayBound, OnlyLateRepliesStray, DecisionsAreFinal, ServiceImplementsConsent | `Stages`: thread against row; `Evidence`: where each decision and each call came from |
| ConversationProofs (TelegramSessions) | LoadingIsServed, OnePurchaseWanted | `LoadingAwaited`: the thread a wizard waits for is reserved until it looks, or turned away from; `PurchaseShown`: the same of a purchase; `PurchaseWanted`: a purchase under way is the reserved one or turned away from |
| VeniceProofs (SolanaPayments) | ClientTypeCorrect, PaidAtMostOnce, EvidenceFirst, JournalTellsTheTruth, SettledBeforeNext | one unresolved row; a process about to submit holds it; a proof about to be written agrees with the chain |
| VeniceProofs (ChatCredit) | TypeCorrect, OnePrefund, BookedWithinCap, PaidToApproved, CreditKept | `OneClaim`: one message between claim and release; `RoomLeft`: the room it read under its claim is still there when it books; `Booked`: the row's total is what was booked in its window |
| BitrefillOrdersProofs | PaidOnce, RowsTellTheTruth, RefundsAreWhole, FundsAreAccountedFor | `QuoteWell`, for each order: `OneClaim`, `RowWell` and `MoneyWell` set the row against what was asked of the wallet; `BuyWell` and `CallWell` say what a buy and a fulfilment may still ask for at their step |
| OperatorLaneProofs | TypeCorrect, ConsentForEveryPayment, RecordedPaidOnce, OneAtTheDevice, TotalWithinBudget, BudgetHolds | `LockOwner`; `Pending`: what a purchase relies on while it waits; `LastPaid`: the payment about to be recorded is the newest; `Booked`: what is recorded is in the book; `StillFits`: the amount checked still fits |
| BankrPurchasesProofs | TypeCorrect, ChargedOnce, DeliveredAndRecordedOnce, TopUpsHaveLeave | `NotYetCharged` and `OneTransfer`: a row leaves the states before payment with one request; `PaidFirst`, `CompleteFirst` and `OneSettlement`: it becomes COMPLETE with one recorder, and stays so; `AskedFirst`: the threads that may still top up are no more than the requests not yet used |
| FiniteSums | SumAdd, SumOfPart, SumOfUnion and others | - |

They hold for all values of the constants that satisfy the named assumptions of the modules
(`PurchasesAssumption`, `LimitsAssumption`, `TimeAssumption`, `ToolAssumption`,
`LedgerAssumption`, `LinksAssumption`, `ApprovalAssumption`, `DecisionAssumption`,
`SolanaAssumption`, `ChatAssumption`, `KindsAssumption`, `DataAssumption`,
`BankrAssumption`, `BitrefillAssumption`, `OneBuyerPerQuote`, `OpeningAssumption`,
`BoundsAssumption`, `WalletAssumption`). They say that limits are positive, times natural and the placeholders
none of the values, and three things more:

- the messages of a chat (`ChatAssumption`) and the requests to Bankr (`BankrAssumption`)
  are finitely many. The properties count them; the number is any.
- `WalletAssumption` has the refresh skew of the plugin shorter than a token's life, as in
  the code.
- `OneBuyerPerQuote`: who buys a quote is one buyer. The code does not compare the two, but
  a quote's id is a `token_urlsafe(18)` that is shown to the one who asked for it.

Three theorems have a hypothesis of their own, in the statement. `CeilingHolds` asks for
`OperatorDaily # NoLimit`: with the default off a configured ceiling bounds nobody
([findings](#findings), `MCCeilingOnly`). `BudgetHolds` asks for budgets that are amounts;
the code reads any integer. `HeldUntilSettled` and `MoneyStaysCounted` ask for `InTime`, that
the person's wait and the payer's together are shorter than a hold's life: 120 s and 180 s
against 900 s. `MCToolSlow` shows that without it they are false.

The safety properties are not inductive themselves. That the payer is called
once, for example, needs that whoever is about to call it owns the row, which needs that a
row is `executing` exactly while one thread works on it or after a crash; that is
`Ownership`. A crash fits because the row stays `executing` and nobody can leave that
state without owning it. The two refinements map every step to a step of the abstract
specification or to a stutter: `Execute` is silent, `Gate` is `Send`, `RecordDecision` is
`Answer`, `SendRaises` is `Fail`, and the passing of time voids what lapses.

The operator's lane is the same shape with a lock in the place of the row: between the
check of an intent and its record only the holder of the lock is inside, so no other record
can come between. That is what makes `PaidAgainOnlyUnrecorded` hold although the device may
answer a prompt of an earlier request. It is also why a check of the budget made before the
device is asked is still good after the payment (`StillFits`).

The Bitrefill order, the chat and the wallets are proved actor by actor: one predicate says
of a single buy, message or command what it may rely on at each of its steps, and a lemma
says which changes of the shared state leave that predicate true for everybody else. For
an order the shared fact is that its state is never one the row has left
(`CanAdvance`), so the one transition into FULFILLING admits one fulfilment. In the chat the
stale reads are the difficulty: a message that holds the claim has read the row again under
it, and nobody else books while it does.

**Sums and counts.** `ReservedWithinCeiling` and `BudgetKept` are about sums over a set of
entries, and induction over sets, which the library offers with an operator as parameter,
cannot be used. FiniteSums proves what is needed of `SumFunctionOnSet` by a least
counterexample instead: were the statement false, there would be a smallest number of
elements for which it is false, and taking one element away gives a smaller one.

Several theorems have no run beside them, because the proof covers more: LaneExclusive,
PayerCalledAtMostOnce, OneOpenApproval and others.

A proof also corrected the model or a property in two places. `MovedIsCounted` is
now stated for as long as the file keeps the day of the reservation (`KeptOnFile`), since
old records are dropped; no state of the run is that old. And the table of tokens in
UserWallets is a function from tokens to ages, since a sequence that is filtered can only be
reasoned about by induction.

Only model-checked: liveness (`EveryAttemptEnds`, `EveryBuyEnds`,
`CreditIsFound`, `OperationReleased`, `LockFreed`), which is out of the prover's reach, and
the properties of the further configurations. Every safety invariant and every
action property of a passing run is a theorem.

## Findings

`bankr_expired` is a run. "This Bankr LLM purchase expired. No funds moved." is what the
buyer reads of an expired row (`_telegram_text`), but start, terms and verify expire
whatever active row is over its time, also one whose transfer is under way or done. The
row then is terminal, its key is not delivered and its spend not recorded.

The further configurations show, most of them against a sentence of the repository:

- `MCToolSlow` - a hold that lapsed is settled without a record, although the comment in
  `settle_reservation` says the spend is still recorded. The instance lets the payer
  outlive the hold. The tool lane's own timeouts are shorter; lanes that fund, swap and
  fulfil between reservation and settlement have no such margin.
- `MCToolReplay` - a request id gives "exact semantics" only to purchases that memory
  lets through. One that a person approves takes no claim, so its redelivery, approved
  again, is paid again.
- `MCCeilingOnly` - a configured ceiling bounds nobody when the default is off and the
  user set no limit.
- `MCApprovalDoubts` - the id a sidecar can echo is that of the approval open when the reply
  arrives. A late YES therefore decides the next approval even with the id required.
  `StrayReplyIsLate`, which holds, says that lateness is the only way. And a notifier that
  raises leaves the row pending behind a caller that has failed, although "nobody is waiting
  for this answer any more" is what `_release_pending_approval` sees to after a timeout:
  the person may still say yes, and until the row lapses his next request is refused.
- `MCBankrDoubts` - "spending the buyer's tokens a second time stays behind the explicit
  reconcile call" (bankr_llm_purchase.py 1608-1611): a second verify that finds the purchase
  in TOPPING_UP_BANKR resumes it (1524-1525) and tops up beside the first.
  And a credit that comes after seven days, or while twenty older rows wait, is not found
  by the sweep; only the buyer's reconcile finds it.
- `MCSolanaDowngrade` - `update` does not look at the row, so an earlier question answered
  later turns `confirmed` back into `uncertain`, and the wallet is blocked until it is
  reconciled again. `ResolvedIsTrue` still holds: a resolved row never lies.
- `MCVerdictReuse` - `spending_memory_holds` is searched by buyer. When the private event
  of a purchase cannot be written (server.py 7431-7460), its verdict stays, and the next
  purchase of that buyer within 900 s is approved by it.
- `MCChatCap` - "Up to ... per day" (venice_chat.py:462): a settle that raises after the
  signed payment left is taken for nothing, the next message pays again, and what left the
  wallet in the day is above the cap. What is booked is not (`SpentIsBooked`).
- `MCTelegramDoubts` - the session is set to the token list before the list is sent, so
  a second tap on the amount button is read as token 1 and buys (against
  tests/test_plugin.py:2289). A read whose thread could not be had is finished, and the
  loading stage its `prepare` wrote stays, ignoring every text but the navigation
  (`__init__.py` 1874-1876, 1908-1917); so does "purchasing" after an exception nobody
  expects (3848). A read that was current when it looked writes its result over the stage the
  user has moved on to (2642).
- `MCWithdrawRetry` - the gateway words an unclear transfer with care (server.py
  1318-1321), and the plugin's `_safe_http_error_message` (client.py 653-661) replaces it by
  "Please try again", as it does on its own timeout.
- `MCOperatorDoubts` - `_handle_approve_policy` (server.py 725-757) compares the hash the
  device reports and not its answer, and a refusal carries the hash too (firefly.py
  50-83): a policy the person declined is stored as approved. And the Bankr and CDP clients
  get the URL alone and pay the price they read again; only the buys that pass `approved
  terms` are protected from a change.

Observations without a configuration, from reading and modelling:

- *Approvals.* When a YES lands between the last poll and `_release_pending_approval`, the
  person reads "Payment approved. Your purchase is being processed." while the caller
  returns `timeout`; no money moves. Unlinking by phone keeps the preference; a request is
  then refused, not misdirected.
- *Bitrefill.* A late or second prepare sets QUOTE_EXPIRED on an order that is being
  fulfilled or paid (bitrefill_runner.py 1295-1305), as does a Firefly fulfilment after
  the expiry. A lookup that delivers while the buyer still polls makes
  BITREFILL_PURCHASED raise: DELIVERED becomes RECONCILIATION_REQUIRED and the budget is
  released for an order that was paid. A fulfilment that fails after the funding
  gives back hold and claim although the tokens left. A verdict older than 900 s is
  dropped, and its claim never settled.
- *Bankr.* Two verifies that both resume end in RECONCILIATION_REQUIRED with the first
  hash lost. A
  late credit of one purchase may complete the next. A crash between COMPLETE and
  `record_spend` loses the record; `record_spend` raising loses the key, which is marked
  delivered. A row held for reconciliation is terminal and not in the daily total.
- *Chat.* A message already under way still charges after a pause. A transport exception
  after a prefund does not pause. Parallel searches can pass `max_per_day`, which is
  counted after the payment. Approving a policy clears a RECONCILIATION_REQUIRED pause.
- *Telegram.* Purchase threads never ask whether they are current. When the text that
  announces an operation cannot be sent, the operation stays reserved until another one
  supersedes it (1872-1876). The plugin waits 180 s for a purchase that
  may take an approval of 120 s and a transfer of 240 s.
- *Wallets.* Two withdrawals of ETH that overlap both pass the reserve check. Eight lost
  mints evict the cached token, and the 401 is not retried.
- *Operator.* A refusal, also of an earlier prompt, is kept as the receipt for 120 s. The
  duplicate check is before the lock, so a repeat that came before the first result may pay
  again under a new intent. A payment whose call raised or answered another status than
  200 is not recorded, so its amount is not in the budget. The oldest policy that matches
  is used, so a newer, larger one for the same asset and purpose has no effect.

## Not modelled

- Data: quotes, prices, message texts, hashes, signatures and encryption. A signature is
  a choice of good or bad, a quote that changed is a choice to refuse.
- Within a call: SpendLimits reads the clock once per call, the code twice in
  `reserve_within_limits` (hazard at 5279). File errors are in `StoreFaults` of
  ToolPurchase, not in SpendLimits itself.
- Who may call: the owner check of the Ledger lane, operator tokens, the counting of the
  sliding windows (a rate limit is a refusal that may come), the limiter of failed pairing
  attempts (imessage_approvals.py 1490-1507), the tables' eviction at their size limits.
- Kept outside on purpose: the event file of a user, which is only shown; the journal of
  `spending_memory` beyond its claims; migrations and layouts of older deployments, except
  the link table that is still written.
- One quote bought by two buyers; more than one asset in `BankrPurchases`; several users
  in ChatCredit, TelegramSessions and UserWallets, whose state is all keyed by user.
- `/execute-payment` of the operator, which has no lock, policy or record; the seller
  demo; the server of the Firefly bridge, whose protocol is the device of OperatorLane.
- The WhatsApp webhook, the keyring, remote reads, scripts and the website have no
  protocol of their own. The catalogue, the product pages, and the read-only commands
  of the plugin keep no state that a property is about.

## Plan

Done: a module for every part with a protocol of its own, each with proofs, two with a
refinement.

Next, in this order:

1. A joint instance of ToolPurchase with ApprovalService, to replace the free choice of
   Approve and Decline by the approvals' protocol, and the theorem that HumanConsent is all
   ToolPurchase needs of it.
2. Theorems for the properties that need a qualification today: what a verdict that is used
   by another purchase of the buyer can do (`OwnVerdict`), and by how much a day may exceed
   its cap (`DayWithinCap`).
3. The counting of the sliding windows, and the eviction of the plugin's tables.
