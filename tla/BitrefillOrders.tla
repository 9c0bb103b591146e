--------------------------- MODULE BitrefillOrders ---------------------------
(***************************************************************************)
(* Bitrefill purchases: the order rows of commerce_store.py, the buys of a *)
(* managed wallet and of the operator's Firefly device and the fulfilment  *)
(* both call (bitrefill_runner.py, bitrefill_mcp.py), and the handlers     *)
(* around them (server.py): the purchase slot, the budget hold, and the    *)
(* memory's verdict that waits in spending_memory_holds for the approval.  *)
(*                                                                         *)
(* One transaction of the store, or one wait for somebody outside, is one  *)
(* action.  A fulfilment is a call of its own, since Bankr's endpoint may  *)
(* make one as well; a call that comes from a buy has the buy's name, and  *)
(* an invoice has the name of the call or buy that created it.  A transfer *)
(* is asked for first and moves money later, or never, whatever its caller *)
(* was told meanwhile.                                                     *)
(***************************************************************************)
EXTENDS Integers, Sequences, FiniteSets

CONSTANTS
  Quotes,
  Buys,           \* purchase requests
  Requests,       \* the sets of them a behaviour may be asked for
  BankrCalls,     \* fulfilments Bankr's endpoint asks for (legacy, by flag)
  QuoteOf,        \* the quote of each buy
  BuyOf,          \* the buy whose token a Bankr call carries
  BuyerOf,        \* whose purchase slot a buy takes
  UserBuys,       \* buys paid from a managed wallet
  FireflyBuys,    \* buys of BitrefillPurchaseRunner, paid through Bankr
  Nobody,
  QuoteTTL,       \* ttl_seconds of BitrefillQuoteService
  VerdictTTL,     \* SPENDING_MEMORY_HOLD_TTL_SECONDS
  EventFails,     \* buys whose event may fail to be written
  MaxCrashes, MaxTime   \* bounds

ASSUME BitrefillAssumption ==
  /\ BankrCalls \cap Buys = {} /\ Nobody \notin Buys \cup BankrCalls
  /\ QuoteOf \in [Buys -> Quotes]
  /\ BuyOf \in [BankrCalls -> FireflyBuys]
  /\ UserBuys \subseteq Buys /\ FireflyBuys \subseteq Buys \ UserBuys
  /\ Requests \subseteq SUBSET Buys /\ EventFails \subseteq Buys
  /\ {QuoteTTL, VerdictTTL, MaxCrashes, MaxTime} \subseteq Nat

\* A quote id is drawn anew for whoever asked for the quote, and shown to
\* nobody else (BitrefillQuoteService.quote)
ASSUME OneBuyerPerQuote ==
  \A a, b \in Buys : QuoteOf[a] = QuoteOf[b] => BuyerOf[a] = BuyerOf[b]

VARIABLES
  now, crashes,
  state, expiresAt,   \* the order row; "none" before the quote is saved
  token,              \* the buy whose fulfilment token the row knows
  invoice,            \* bitrefillCheckpoint: the invoice the row names
  pc,                 \* each buy: the step it is at
  fc, prepared, inv,  \* each fulfil call: its step, the flow, its invoice
  seen,               \* quotes a lookup found delivered and has yet to advance
  verdicts,           \* spending_memory_holds, oldest first
  held, settled,      \* budget and claim of a buy: held, or settled
  letBy,              \* the buy whose verdict, or whose owner, let it pass
  ready,              \* buys Bankr was told to settle
  asked, moved,       \* transfers: requested, and done; <<kind, buy or invoice>>
  delivered           \* invoices the provider delivered

orderVars == <<state, expiresAt, token, invoice>>
callVars == <<fc, prepared, inv>>
spendVars == <<verdicts, held, settled, letBy>>
moneyVars == <<ready, asked, moved, delivered>>
vars == <<now, crashes, orderVars, pc, callVars, seen, spendVars, moneyVars>>

STATE_ORDER ==
  [none |-> 0, QUOTED |-> 10, FIREFLY_APPROVED |-> 20, USER_APPROVED |-> 20,
   INVOICE_CREATED |-> 25, SINGIT_SETTLED |-> 35, FULFILLING |-> 40,
   BITREFILL_PURCHASED |-> 50, DELIVERED |-> 70, QUOTE_EXPIRED |-> 900,
   FIREFLY_REJECTED |-> 901, USER_REJECTED |-> 901, FULFILLMENT_FAILED |-> 902,
   RECONCILIATION_REQUIRED |-> 903, REFUNDED |-> 904]
RECOVERABLE_TO_DELIVERED == {"FULFILLMENT_FAILED", "RECONCILIATION_REQUIRED"}

Calls == Buys \cup BankrCalls
Buy(c) == IF c \in Buys THEN c ELSE BuyOf[c]
Quote(c) == QuoteOf[Buy(c)]
Over == {"idle", "done"}
Running(b) == pc[b] \notin Over
Expired(q) == now >= expiresAt[q]

Init ==
  /\ now = 0 /\ crashes = 0
  /\ state = [q \in Quotes |-> "none"] /\ expiresAt = [q \in Quotes |-> 0]
  /\ token = [q \in Quotes |-> Nobody] /\ invoice = [q \in Quotes |-> Nobody]
  /\ pc \in {[b \in Buys |-> IF b \in R THEN "idle" ELSE "done"] : R \in Requests}
  /\ fc = [c \in Calls |-> "idle"] /\ inv = [c \in Calls |-> Nobody]
  /\ prepared = {} /\ seen = {}
  /\ verdicts = <<>> /\ held = {} /\ settled = {}
  /\ letBy = [b \in Buys |-> Nobody]
  /\ ready = {} /\ asked = {} /\ moved = {} /\ delivered = {}

\* advance_state: only forward, except that delivery is recovered; otherwise
\* it raises, and the row stays
CanAdvance_NoRecovery(q, s) == STATE_ORDER[s] >= STATE_ORDER[state[q]]   \* a mutant
CanAdvance(q, s) ==
  \/ STATE_ORDER[s] >= STATE_ORDER[state[q]]
  \/ s = "DELIVERED" /\ state[q] \in RECOVERABLE_TO_DELIVERED
AdvanceState(q, s) ==
  state' = IF CanAdvance(q, s) THEN [state EXCEPT ![q] = s] ELSE state

Goto(b, s) == pc' = [pc EXCEPT ![b] = s]
Step(c, s) == fc' = [fc EXCEPT ![c] = s]

\* BitrefillQuoteService.quote and save_quote
QuoteSaved(q) ==
  /\ state[q] = "none"
  /\ state' = [state EXCEPT ![q] = "QUOTED"]
  /\ expiresAt' = [expiresAt EXCEPT ![q] = now + QuoteTTL]
  /\ UNCHANGED <<now, crashes, token, invoice, pc, callVars, seen, spendVars, moneyVars>>

\* _forget_stale_spending_memory_holds
Fresh == SelectSeq(verdicts, LAMBDA v : v.at >= now - VerdictTTL)
Without(b) == SelectSeq(verdicts, LAMBDA v : v.buy # b)
\* _memory_hold_for_owner: the first that is found for this buyer
OfBuyer(b) == SelectSeq(Fresh, LAMBDA v : BuyerOf[v.buy] = BuyerOf[b])
AutoApproved(b) == OfBuyer(b) # <<>> /\ OfBuyer(b)[1].pay

\* buy, except / not ok: bitrefill_release_spend; the handler ends, and with
\* it the slot
GiveBack_KeepsVerdict(b) ==   \* a mutant: the verdict stays behind
  /\ held' = held \ {b}
  /\ UNCHANGED <<verdicts, settled, letBy>>
GiveBack(b) ==
  /\ held' = held \ {b}
  /\ verdicts' = Without(b)
  /\ UNCHANGED <<settled, letBy>>
Refuse(b) == Goto(b, "done") /\ GiveBack(b)

\* Take the slot of the buyer (_acquire_purchase_slot), read the order; only a
\* quote that is QUOTED and has time left is bought.  A Firefly buy may be
\* stopped by pre_payment_guard, BankrUsdcReserveGuard
ReserveGuard(b) == b \in FireflyBuys /\ Goto(b, "done")
SlotFree_Ignored(b) == b = b   \* a mutant: no slot
SlotFree(b) == \A o \in Buys : BuyerOf[o] = BuyerOf[b] => ~Running(o)
Begin(b) ==
  LET q == QuoteOf[b] IN
  /\ pc[b] = "idle" /\ SlotFree(b)
  /\ state[q] = "QUOTED"
  /\ IF Expired(q)
     THEN AdvanceState(q, "QUOTE_EXPIRED") /\ Goto(b, "done")
     ELSE /\ UNCHANGED state
          /\ \/ Goto(b, IF b \in UserBuys THEN "reserving" ELSE "asking")
             \/ ReserveGuard(b)
  /\ UNCHANGED <<now, crashes, expiresAt, token, invoice, callVars, seen, spendVars,
                 moneyVars>>

\* bitrefill_enforce_spend: a hold, a claim and a verdict, or a refusal
Reserve(b) ==
  /\ pc[b] = "reserving"
  /\ \/ Goto(b, "done") /\ UNCHANGED spendVars
     \/ \E pay \in BOOLEAN :
          /\ Goto(b, "asking")
          /\ held' = held \cup {b}
          /\ verdicts' = Append(Fresh, [buy |-> b, at |-> now, pay |-> pay])
          /\ UNCHANGED <<settled, letBy>>
  /\ UNCHANGED <<now, crashes, orderVars, callVars, seen, moneyVars>>

\* source_wallet_provider may raise between the hold and the approval
NoSourceWallet(b) ==
  /\ pc[b] = "asking" /\ b \in UserBuys
  /\ Refuse(b)
  /\ UNCHANGED <<now, crashes, orderVars, callVars, seen, moneyVars>>

\* bitrefill_wallet_approval_client: no person is asked when the verdict found
\* for the buyer says PAY
ApprovedByMemory(b) ==
  /\ pc[b] = "asking" /\ b \in UserBuys /\ AutoApproved(b)
  /\ letBy' = [letBy EXCEPT ![b] = OfBuyer(b)[1].buy]
  /\ verdicts' = Fresh
  /\ Goto(b, "pricing")
  /\ UNCHANGED <<now, crashes, orderVars, callVars, seen, held, settled, moneyVars>>
ApprovedByPerson(b) ==
  /\ pc[b] = "asking" /\ (b \in UserBuys => ~AutoApproved(b))
  /\ letBy' = [letBy EXCEPT ![b] = b]
  /\ IF b \in FireflyBuys
     THEN \* FIREFLY_APPROVED, with the token of this buy
          /\ CanAdvance(QuoteOf[b], "FIREFLY_APPROVED")
          /\ AdvanceState(QuoteOf[b], "FIREFLY_APPROVED")
          /\ token' = [token EXCEPT ![QuoteOf[b]] = b]
          /\ Goto(b, "bankr")
          /\ asked' = asked \cup {<<"fund", b>>}
     ELSE UNCHANGED <<state, token, asked>> /\ Goto(b, "pricing")
  /\ verdicts' = IF b \in UserBuys THEN Fresh ELSE verdicts
  /\ UNCHANGED <<now, crashes, expiresAt, invoice, callVars, seen, held, settled,
                 ready, moved, delivered>>
\* rejected, or the approval raises, or it approves another hash
NotApproved(b) ==
  /\ pc[b] = "asking" /\ (b \in UserBuys => ~AutoApproved(b))
  /\ \/ AdvanceState(QuoteOf[b],
          IF b \in FireflyBuys THEN "FIREFLY_REJECTED" ELSE "USER_REJECTED")
     \/ UNCHANGED state
  /\ Refuse(b)
  /\ UNCHANGED <<now, crashes, expiresAt, token, invoice, callVars, seen, moneyVars>>

\* WalletBitrefillExecutionPricer finds no price within the approved maximum:
\* QUOTE_EXPIRED, "No funds were moved"
NoFreshPrice(b) ==
  b \in UserBuys /\ AdvanceState(QuoteOf[b], "QUOTE_EXPIRED") /\ Refuse(b)
\* the fresh price, then USER_APPROVED with the buy's token
Reprice(b) ==
  LET q == QuoteOf[b] IN
  /\ pc[b] = "pricing"
  /\ \/ NoFreshPrice(b) /\ UNCHANGED token
     \/ /\ AdvanceState(q, "USER_APPROVED")
        /\ IF CanAdvance(q, "USER_APPROVED")
           THEN /\ token' = [token EXCEPT ![q] = b]
                /\ Goto(b, "preparing") /\ UNCHANGED spendVars
           ELSE UNCHANGED token /\ Refuse(b)
  /\ UNCHANGED <<now, crashes, expiresAt, invoice, callVars, seen, moneyVars>>

\* prepare: _authorized_context, then the state
Prepare(b) ==
  LET q == QuoteOf[b] IN
  /\ pc[b] = "preparing"
  /\ IF Expired(q)
     THEN AdvanceState(q, "QUOTE_EXPIRED") /\ Refuse(b)
     ELSE /\ UNCHANGED state
          /\ IF token[q] = b /\ state[q] \in {"USER_APPROVED", "FIREFLY_APPROVED"}
             THEN Goto(b, "invoicing") /\ UNCHANGED spendVars
             ELSE Refuse(b)
  /\ UNCHANGED <<now, crashes, expiresAt, token, invoice, callVars, seen, moneyVars>>

\* prepare_purchase and INVOICE_CREATED; then the user's wallet is asked for
\* its tokens (UserWalletTransferToCdpFundingRunner)
InvoiceRefused(b) == AdvanceState(QuoteOf[b], "FULFILLMENT_FAILED") /\ Refuse(b)
CreateInvoice_Unsaved(b) ==   \* a mutant: funded before the invoice is on file
  /\ pc[b] = "invoicing"
  /\ Goto(b, "funding")
  /\ asked' = asked \cup {<<"fund", b>>}
  /\ UNCHANGED <<now, crashes, orderVars, callVars, seen, spendVars, ready, moved, delivered>>
CreateInvoice(b) ==
  LET q == QuoteOf[b] IN
  /\ pc[b] = "invoicing"
  /\ \/ InvoiceRefused(b) /\ UNCHANGED <<invoice, fc, asked>>
     \/ /\ CanAdvance(q, "INVOICE_CREATED")
        /\ AdvanceState(q, "INVOICE_CREATED")
        /\ invoice' = [invoice EXCEPT ![q] = b]
        /\ IF b \in UserBuys
           THEN /\ Goto(b, "funding") /\ UNCHANGED fc
                /\ asked' = asked \cup {<<"fund", b>>}
           ELSE Goto(b, "fulfilling") /\ Step(b, "called") /\ UNCHANGED asked
        /\ UNCHANGED spendVars
  /\ UNCHANGED <<now, crashes, expiresAt, token, prepared, inv, seen, ready, moved, delivered>>
Funded_Silent(b) ==   \* a mutant: a failed funding leaves the row as it is
  /\ pc[b] = "funding"
  /\ IF <<"fund", b>> \in moved
     THEN Goto(b, "fulfilling") /\ Step(b, "called") /\ UNCHANGED spendVars
     ELSE Refuse(b) /\ UNCHANGED fc
  /\ UNCHANGED <<now, crashes, orderVars, prepared, inv, seen, moneyVars>>
Funded(b) ==
  /\ pc[b] = "funding"
  /\ \/ /\ <<"fund", b>> \in moved
        /\ Goto(b, "fulfilling") /\ Step(b, "called")
        /\ UNCHANGED <<state, spendVars>>
     \/ /\ AdvanceState(QuoteOf[b], "RECONCILIATION_REQUIRED") /\ Refuse(b)
        /\ UNCHANGED fc
  /\ UNCHANGED <<now, crashes, expiresAt, token, invoice, prepared, inv, seen, moneyVars>>

\* BitrefillSettlementPreparationRunner.prepare, for Bankr's endpoint, before
\* Bankr settles the SINGIT payment
SettlementPrepare(b) ==
  LET q == QuoteOf[b] IN
  /\ b \in FireflyBuys /\ <<"fund", b>> \in asked
  /\ IF Expired(q)
     THEN AdvanceState(q, "QUOTE_EXPIRED") /\ UNCHANGED ready
     ELSE /\ state[q] = "FIREFLY_APPROVED" /\ token[q] = b
          /\ ready' = ready \cup {b} /\ UNCHANGED state
  /\ UNCHANGED <<now, crashes, expiresAt, token, invoice, pc, callVars, seen, spendVars,
                 asked, moved, delivered>>
\* SingitSettlementVerifier: the transfer's receipt on chain
SettlementProven(b) == <<"fund", b>> \in moved
\* BitrefillPurchaseRunner.buy: Bankr's answer, the settlement verified,
\* SINGIT_SETTLED, fulfil; anything else is reconciled by hand
BankrPaid(b) ==
  LET q == QuoteOf[b] IN
  /\ pc[b] = "bankr"
  /\ \/ /\ SettlementProven(b) /\ CanAdvance(q, "SINGIT_SETTLED")
        /\ AdvanceState(q, "SINGIT_SETTLED")
        /\ Goto(b, "fulfilling") /\ Step(b, "called")
        /\ UNCHANGED spendVars
     \/ /\ AdvanceState(q, "RECONCILIATION_REQUIRED") /\ Refuse(b)
        /\ UNCHANGED fc
  /\ UNCHANGED <<now, crashes, expiresAt, token, invoice, prepared, inv, seen, moneyVars>>

-----------------------------------------------------------------------------
(* A fulfilment, BitrefillFulfillmentRunner.fulfill *)

\* /internal/fulfill-bitrefill, with the token Bankr was sent
BankrCalls_Fulfil(c) ==
  /\ fc[c] = "idle" /\ <<"fund", BuyOf[c]>> \in asked
  /\ Step(c, "called")
  /\ UNCHANGED <<now, crashes, orderVars, pc, prepared, inv, seen, spendVars, moneyVars>>

\* _authorized_context(allow_prepared_after_expiry), and the state it read: an
\* order whose invoice is there goes the prepared way
FulfilRead(c) ==
  LET q == Quote(c) IN
  /\ fc[c] = "called"
  /\ IF Expired(q) /\ state[q] # "INVOICE_CREATED"
     THEN AdvanceState(q, "QUOTE_EXPIRED") /\ Step(c, "failed") /\ UNCHANGED <<prepared, inv>>
     ELSE /\ UNCHANGED state
          /\ IF token[q] = Buy(c) /\ state[q] # "USER_APPROVED"
             THEN /\ Step(c, "claiming")
                  /\ IF state[q] = "INVOICE_CREATED"
                     THEN /\ prepared' = prepared \cup {c}
                          /\ inv' = [inv EXCEPT ![c] = invoice[q]]
                     ELSE UNCHANGED <<prepared, inv>>
             ELSE Step(c, "failed") /\ UNCHANGED <<prepared, inv>>
  /\ UNCHANGED <<now, crashes, expiresAt, token, invoice, pc, seen, spendVars, moneyVars>>

\* try_mark_fulfilling, one UPDATE ... WHERE
Claimable_Twice(q) == STATE_ORDER[state[q]] < STATE_ORDER["BITREFILL_PURCHASED"]   \* a mutant
Claimable(q) ==
  /\ STATE_ORDER[state[q]] < STATE_ORDER["BITREFILL_PURCHASED"]
  /\ state[q] # "FULFILLING"
FulfilClaim(c) ==
  LET q == Quote(c) IN
  /\ fc[c] = "claiming"
  /\ IF Claimable(q)
     THEN state' = [state EXCEPT ![q] = "FULFILLING"] /\ Step(c, "pricing")
     ELSE UNCHANGED state /\ Step(c, "failed")
  /\ UNCHANGED <<now, crashes, expiresAt, token, invoice, pc, prepared, inv, seen,
                 spendVars, moneyVars>>

\* What follows the funding, and how a fulfilment fails
AfterFunding(c) == Step(c, IF c \in prepared THEN "reading" ELSE "buying")
FailTo(c, s, end) == AdvanceState(Quote(c), s) /\ Step(c, end)

\* The funding runner: USDC needs no swap; executeStagedSwap checks the price
\* before it swaps, and only that failure carries stage "pre_swap"
NoSwapNeeded(c) == AfterFunding(c) /\ UNCHANGED <<state, asked>>
FundingPrice(c) ==
  /\ fc[c] = "pricing"
  /\ \/ NoSwapNeeded(c)
     \/ \E end \in {"preswap", "failed"} :
          FailTo(c, "RECONCILIATION_REQUIRED", end) /\ UNCHANGED asked
     \/ /\ asked' = asked \cup {<<"swap", c>>}
        /\ Step(c, "swapping") /\ UNCHANGED state
  /\ UNCHANGED <<now, crashes, expiresAt, token, invoice, pc, prepared, inv, seen,
                 spendVars, ready, moved, delivered>>
\* the swap is confirmed, or its outcome is not known
FundingSwap_AsPreSwap(c) ==   \* a mutant: an ambiguous swap is called pre_swap
  /\ fc[c] = "swapping"
  /\ FailTo(c, "RECONCILIATION_REQUIRED", "preswap")
  /\ UNCHANGED <<now, crashes, expiresAt, token, invoice, pc, prepared, inv, seen,
                 spendVars, moneyVars>>
FundingSwap(c) ==
  /\ fc[c] = "swapping"
  /\ \/ /\ <<"swap", c>> \in moved /\ CanAdvance(Quote(c), "FULFILLING")
        /\ AdvanceState(Quote(c), "FULFILLING")
        /\ AfterFunding(c)
     \/ FailTo(c, "RECONCILIATION_REQUIRED", "failed")
  /\ UNCHANGED <<now, crashes, expiresAt, token, invoice, pc, prepared, inv, seen,
                 spendVars, moneyVars>>

\* except, around complete_purchase and buy_product
ProviderFailed(c) ==
  FailTo(c, IF c \in prepared THEN "RECONCILIATION_REQUIRED" ELSE "FULFILLMENT_FAILED", "failed")
\* buy_product: an invoice, and its checkpoint
BuyProduct(c) ==
  /\ fc[c] = "buying"
  /\ \/ ProviderFailed(c) /\ UNCHANGED <<invoice, inv>>
     \/ /\ invoice' = [invoice EXCEPT ![Quote(c)] = c]
        /\ inv' = [inv EXCEPT ![c] = c]
        /\ Step(c, "reading") /\ UNCHANGED state
  /\ UNCHANGED <<now, crashes, expiresAt, token, pc, prepared, seen, spendVars, moneyVars>>
\* the invoice still asks for a payment (_validated_invoice_snapshot)
Unpaid(c) == <<"pay", inv[c]>> \notin moved
\* complete_purchase: read the invoice; pay it, unless it was paid or is late
ReadInvoice(c) ==
  /\ fc[c] = "reading"
  /\ \/ ProviderFailed(c) /\ UNCHANGED asked
     \/ /\ Unpaid(c)
        /\ asked' = asked \cup {<<"pay", inv[c]>>}
        /\ Step(c, "paying") /\ UNCHANGED state
  /\ UNCHANGED <<now, crashes, expiresAt, token, invoice, pc, prepared, inv, seen,
                 spendVars, ready, moved, delivered>>
PayInvoice(c) ==
  /\ fc[c] = "paying"
  /\ \/ <<"pay", inv[c]>> \in moved /\ Step(c, "polling") /\ UNCHANGED state
     \/ ProviderFailed(c)
  /\ UNCHANGED <<now, crashes, expiresAt, token, invoice, pc, prepared, inv, seen,
                 spendVars, moneyVars>>
PollInvoice_Forever(c) ==   \* a mutant: no end of attempts
  /\ fc[c] = "polling" /\ inv[c] \in delivered /\ Step(c, "purchased")
  /\ UNCHANGED <<now, crashes, orderVars, pc, prepared, inv, seen, spendVars, moneyVars>>
PollInvoice(c) ==
  /\ fc[c] = "polling"
  /\ \/ inv[c] \in delivered /\ Step(c, "purchased") /\ UNCHANGED state
     \/ ProviderFailed(c)
  /\ UNCHANGED <<now, crashes, expiresAt, token, invoice, pc, prepared, inv, seen,
                 spendVars, moneyVars>>
\* BITREFILL_PURCHASED, and DELIVERED when the redemption is there; advance_state
\* raises outside of the try when the row was moved on meanwhile
Purchased(c) ==
  LET q == Quote(c) IN
  /\ fc[c] = "purchased"
  /\ AdvanceState(q, "BITREFILL_PURCHASED")
  /\ IF CanAdvance(q, "BITREFILL_PURCHASED")
     THEN Step(c, "redeeming") \/ Step(c, "ok")
     ELSE Step(c, "failed")
  /\ UNCHANGED <<now, crashes, expiresAt, token, invoice, pc, prepared, inv, seen,
                 spendVars, moneyVars>>
Redeemed(c) ==
  LET q == Quote(c) IN
  /\ fc[c] = "redeeming"
  /\ AdvanceState(q, "DELIVERED")
  /\ Step(c, IF CanAdvance(q, "DELIVERED") THEN "ok" ELSE "failed")
  /\ UNCHANGED <<now, crashes, expiresAt, token, invoice, pc, prepared, inv, seen,
                 spendVars, moneyVars>>

-----------------------------------------------------------------------------
(* The buy goes on with what its fulfilment said *)

CanReturn(b) == b \in UserBuys   \* not native, return_runner set: by choice
AfterFulfil(b) ==
  /\ pc[b] = "fulfilling"
  /\ \/ fc[b] = "ok" /\ Goto(b, "writing") /\ UNCHANGED <<state, spendVars, asked>>
     \/ /\ fc[b] = "preswap" /\ CanReturn(b)
        /\ asked' = asked \cup {<<"return", b>>}
        /\ Goto(b, "returning") /\ UNCHANGED <<state, spendVars>>
     \/ /\ fc[b] \in {"failed", "preswap"}
        /\ AdvanceState(QuoteOf[b], "RECONCILIATION_REQUIRED") /\ Refuse(b)
        /\ UNCHANGED asked
  /\ UNCHANGED <<now, crashes, expiresAt, token, invoice, callVars, seen, ready,
                 moved, delivered>>
Returned_Unseen(b) ==   \* a mutant: REFUNDED when the return was asked for
  /\ pc[b] = "returning"
  /\ AdvanceState(QuoteOf[b], "REFUNDED") /\ Refuse(b)
  /\ UNCHANGED <<now, crashes, expiresAt, token, invoice, callVars, seen, moneyVars>>
Returned(b) ==
  /\ pc[b] = "returning"
  /\ \/ <<"return", b>> \in moved /\ AdvanceState(QuoteOf[b], "REFUNDED")
     \/ AdvanceState(QuoteOf[b], "RECONCILIATION_REQUIRED")
  /\ Refuse(b)
  /\ UNCHANGED <<now, crashes, expiresAt, token, invoice, callVars, seen, moneyVars>>

\* _handle_agent_buy_wallet_bitrefill: the private event, then the verdict is
\* taken out and hold and claim are settled.  A write that raises skips both
WriteEvent_KeepsHold(b) ==   \* a mutant: the claim is settled, the hold is not
  /\ pc[b] = "writing" /\ Goto(b, "done")
  /\ settled' = settled \cup {b} /\ verdicts' = Without(b)
  /\ UNCHANGED <<now, crashes, orderVars, callVars, seen, held, letBy, moneyVars>>
WriteEvent(b) ==
  /\ pc[b] = "writing" /\ Goto(b, "done")
  /\ \/ /\ held' = held \ {b}
        /\ settled' = IF b \in held THEN settled \cup {b} ELSE settled
        /\ verdicts' = Without(b)
     \/ b \in EventFails /\ UNCHANGED <<held, settled, verdicts>>
  /\ UNCHANGED <<now, crashes, orderVars, callVars, seen, letBy, moneyVars>>

-----------------------------------------------------------------------------
(* Chain, provider, lookups, the process, the clock *)

MoneyMoves ==
  /\ \E m \in asked \ moved :
       /\ m[1] = "fund" /\ m[2] \in FireflyBuys => m[2] \in ready
       /\ moved' = moved \cup {m}
  /\ UNCHANGED <<now, crashes, orderVars, pc, callVars, seen, spendVars, ready, asked, delivered>>
ProviderDelivers(i) ==
  /\ <<"pay", i>> \in moved /\ i \notin delivered /\ delivered' = delivered \cup {i}
  /\ UNCHANGED <<now, crashes, orderVars, pc, callVars, seen, spendVars, ready, asked, moved>>

\* lookup_bitrefill_order: the invoice read and checkpointed, then DELIVERED
Lookup(q) ==
  /\ invoice[q] \in delivered /\ state[q] # "DELIVERED" /\ q \notin seen
  /\ seen' = seen \cup {q}
  /\ UNCHANGED <<now, crashes, orderVars, pc, callVars, spendVars, moneyVars>>
LookupAdvance(q) ==
  /\ q \in seen /\ seen' = seen \ {q}
  /\ AdvanceState(q, "DELIVERED")
  /\ UNCHANGED <<now, crashes, expiresAt, token, invoice, pc, callVars, spendVars, moneyVars>>

\* The gateway dies: rows, holds and claims are on file, verdicts are not
Crash ==
  /\ crashes < MaxCrashes /\ crashes' = crashes + 1
  /\ pc' = [b \in Buys |-> IF Running(b) THEN "done" ELSE pc[b]]
  /\ fc' = [c \in Calls |-> IF fc[c] = "idle" THEN "idle" ELSE "done"]
  /\ seen' = {} /\ verdicts' = <<>>
  /\ UNCHANGED <<now, orderVars, prepared, inv, held, settled, letBy, moneyVars>>
Tick ==
  /\ now < MaxTime /\ now' = now + 1
  /\ UNCHANGED <<crashes, orderVars, pc, callVars, seen, spendVars, moneyVars>>

BuyStep(b) ==
  \/ Reserve(b) \/ NoSourceWallet(b) \/ ApprovedByMemory(b) \/ ApprovedByPerson(b)
  \/ NotApproved(b) \/ Reprice(b) \/ Prepare(b) \/ CreateInvoice(b) \/ Funded(b) \/ BankrPaid(b)
  \/ AfterFulfil(b) \/ Returned(b) \/ WriteEvent(b)
CallStep(c) ==
  \/ FulfilRead(c) \/ FulfilClaim(c) \/ FundingPrice(c) \/ FundingSwap(c)
  \/ BuyProduct(c) \/ ReadInvoice(c) \/ PayInvoice(c) \/ PollInvoice(c)
  \/ Purchased(c) \/ Redeemed(c)
Next ==
  \/ \E q \in Quotes : QuoteSaved(q) \/ Lookup(q) \/ LookupAdvance(q)
  \/ \E b \in Buys : Begin(b) \/ SettlementPrepare(b) \/ BuyStep(b)
  \/ \E c \in BankrCalls : BankrCalls_Fulfil(c)
  \/ \E c \in Calls : CallStep(c) \/ ProviderDelivers(c)
  \/ MoneyMoves \/ Crash \/ Tick

Spec == Init /\ [][Next]_vars
             /\ \A b \in Buys : WF_vars(BuyStep(b))
             /\ \A c \in Calls : WF_vars(CallStep(c))

-----------------------------------------------------------------------------
(* Properties *)

Of(q) == {c \in Calls : Quote(c) = q}
Asked(q) == {m \in asked : m[2] \in Of(q)}
ByWallet(q) == {b \in Buys : QuoteOf[b] = q} \subseteq UserBuys

TypeOK ==
  /\ state \in [Quotes -> DOMAIN STATE_ORDER]
  /\ token \in [Quotes -> Buys \cup {Nobody}] /\ invoice \in [Quotes -> Calls \cup {Nobody}]
  /\ inv \in [Calls -> Calls \cup {Nobody}] /\ letBy \in [Buys -> Buys \cup {Nobody}]
  /\ moved \subseteq asked /\ asked \subseteq {"fund", "swap", "pay", "return"} \X Calls
  /\ held \subseteq UserBuys /\ held \cap settled = {}

\* One order is paid once: whatever fulfil calls, retries, crashes and answers
\* that come late, at most one invoice of a quote is paid, and at most once the
\* buyer's wallet is asked for its tokens (try_mark_fulfilling, the slot)
OnePaymentPerOrder ==
  \A q \in Quotes : \A kind \in {"pay", "swap", "fund"} :
    Cardinality({m \in Asked(q) : m[1] = kind}) <= 1

\* The row says what became of the buyer's money: a quote that is open, expired
\* or rejected has asked nothing of the wallet, an invoice that was paid is the
\* one the row names, a wallet's can still be brought to DELIVERED (a late
\* prepare of Bankr's endpoint makes even a paid order QUOTE_EXPIRED), and
\* DELIVERED was delivered
StatesTellTheTruth ==
  \A q \in Quotes :
    /\ ByWallet(q) /\ state[q] \in {"QUOTED", "USER_APPROVED", "QUOTE_EXPIRED", "USER_REJECTED"}
         => Asked(q) = {}
    /\ \A i \in Of(q) : <<"pay", i>> \in asked =>
         invoice[q] = i /\ (ByWallet(q) => CanAdvance(q, "DELIVERED"))
    /\ state[q] = "DELIVERED" => invoice[q] \in delivered

\* A refund gives the whole back: the tokens are asked to return only when the
\* swap was not tried and no invoice paid, and REFUNDED means they came back
RefundIsWhole ==
  \A q \in Quotes :
    /\ state[q] = "REFUNDED" => \E b \in Buys : QuoteOf[b] = q /\ <<"return", b>> \in moved
    /\ \A b \in Buys : QuoteOf[b] = q /\ <<"return", b>> \in asked =>
         <<"fund", b>> \in moved /\ \A m \in Asked(q) : m[1] \notin {"swap", "pay"}

\* A buyer whose tokens left the wallet is not forgotten: when the purchase is
\* over, and the process did not die, the order was purchased or refunded, or it
\* waits for reconciliation
FundedIsAccountedFor ==
  \A b \in UserBuys :
    pc[b] = "done" /\ <<"fund", b>> \in asked /\ crashes = 0 =>
      state[QuoteOf[b]] \in
        {"BITREFILL_PURCHASED", "DELIVERED", "REFUNDED", "RECONCILIATION_REQUIRED"}

\* The verdict that lets a purchase pass without a person was taken for that
\* purchase (the docstrings of _memory_hold_for_owner, _forget_stale_...)
OwnVerdict == \A b \in Buys : letBy[b] \in {Nobody, b}

\* No purchase keeps the slot of its buyer for ever: whatever the approval, the
\* chain, Bankr and the provider do or leave undone, the slots get free again
EveryBuyEnds == []<>(\A b \in Buys : ~Running(b))

=============================================================================
