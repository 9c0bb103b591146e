------------------------ MODULE BitrefillOrdersProofs ------------------------
(***************************************************************************)
(* Proofs about BitrefillOrders: an order is paid once, its row tells what *)
(* became of the money, a refund is whole, and funds that left a wallet    *)
(* are accounted for.                                                      *)
(*                                                                         *)
(* Everything hangs on two exclusions: the slot of the buyer (OneAtATime)  *)
(* and the claim of the row (OneClaim).  The first keeps the token of a    *)
(* row the token of the buy whose wallet was asked, the second lets only   *)
(* one fulfilment of a quote swap, pay or report that it did not.  The     *)
(* invariant is stated quote by quote, for a step touches one quote.       *)
(***************************************************************************)
EXTENDS BitrefillOrders, FiniteSetTheorems, TLAPS

Kinds == {"fund", "swap", "pay", "return"}
States == DOMAIN STATE_ORDER
Before == {"reserving", "asking", "pricing", "preparing", "invoicing"}
Tokened == {"preparing", "invoicing", "funding", "bankr", "fulfilling", "returning", "writing"}
BuySteps == {"idle", "done"} \cup Before \cup Tokened
Paying == {"reading", "paying", "polling", "purchased", "redeeming"}
Spending == {"pricing", "swapping", "buying"} \cup Paying
PastClaim == Spending \cup {"ok", "preswap"}
Active == {"called", "claiming"} \cup Spending
CallSteps == {"idle", "failed", "done"} \cup Active \cup PastClaim
Settled == {"BITREFILL_PURCHASED", "DELIVERED", "REFUNDED", "RECONCILIATION_REQUIRED"}

\* Transfers asked for, of one call or of the whole quote
Was(k, c) == <<k, c>> \in asked
Untouched(q) == \A c \in Of(q) : \A k \in Kinds : ~Was(k, c)
Unspent(q) == \A c \in Of(q) : ~Was("swap", c) /\ ~Was("pay", c) /\ ~Was("return", c)
Kept(q) == \A c \in Of(q) : ~Was("swap", c) /\ ~Was("pay", c)
NoReturn(q) == \A c \in Of(q) : ~Was("return", c)
NoPay(q) == \A c \in Of(q) : ~Was("pay", c)

Types ==
  /\ state \in [Quotes -> States]
  /\ token \in [Quotes -> Buys \cup {Nobody}]
  /\ invoice \in [Quotes -> Calls \cup {Nobody}]
  /\ pc \in [Buys -> BuySteps]
  /\ fc \in [Calls -> CallSteps]
  /\ inv \in [Calls -> Calls \cup {Nobody}]
  /\ prepared \subseteq Buys \ FireflyBuys
  /\ asked \subseteq Kinds \X Calls /\ moved \subseteq asked
  /\ \A i \in delivered : <<"pay", i>> \in moved
  /\ crashes \in Nat

\* The purchase slot: one buy of a quote is under way.  The claim: one
\* fulfilment of a quote is past it, and the row shows the claim
OneAtATime(q) ==
  \A a, b \in Buys : QuoteOf[a] = q /\ QuoteOf[b] = q /\ Running(a) /\ Running(b) => a = b
OneClaim(q) ==
  \A c, d \in Of(q) : fc[c] \in PastClaim /\ fc[d] \in PastClaim => c = d

\* A buy: who may be at which step, whose token the row has, and what has
\* happened to the funds by then
Roles(b) ==
  /\ pc[b] \in {"reserving", "funding", "returning"} => b \in UserBuys
  /\ pc[b] \in {"pricing", "preparing", "invoicing"} => b \notin FireflyBuys
  /\ pc[b] = "bankr" => b \in FireflyBuys
TokenIsOurs(b) == Was("fund", b) \/ pc[b] \in Tokened => token[QuoteOf[b]] = b
\* Until its fulfilment has the claim, a funded invoice is on file and open
OnFile(b) ==
  b \notin FireflyBuys /\ (pc[b] = "funding" \/ fc[b] \in {"called", "claiming"}) =>
    state[QuoteOf[b]] = "INVOICE_CREATED" /\ invoice[QuoteOf[b]] = b /\ Unspent(QuoteOf[b])
FundsArrived(b) ==
  b \in UserBuys /\ pc[b] \in {"fulfilling", "returning", "writing"} => <<"fund", b>> \in moved
ReturnsWhole(b) == Was("return", b) => <<"fund", b>> \in moved /\ Kept(QuoteOf[b])
Accounted(b) ==
  b \in UserBuys /\ Was("fund", b)
  /\ \/ pc[b] = "done" /\ crashes = 0
     \/ pc[b] = "writing"
     \/ pc[b] = "fulfilling" /\ fc[b] = "ok"
  => state[QuoteOf[b]] \in Settled
BuyWell(b) ==
  /\ Roles(b) /\ (pc[b] \in Before => Untouched(QuoteOf[b])) /\ TokenIsOurs(b)
  /\ OnFile(b) /\ FundsArrived(b) /\ ReturnsWhole(b) /\ Accounted(b)

\* A fulfilment: why it runs, what it may still ask for, whose invoice it pays
Caused(c) ==
  /\ c \in BankrCalls /\ fc[c] # "idle" => Was("fund", BuyOf[c])
  /\ c \in Buys /\ fc[c] \in Active => pc[c] = "fulfilling"
Spends(c) ==
  /\ fc[c] \in PastClaim => ~Claimable(Quote(c))
  /\ fc[c] = "pricing" => Unspent(Quote(c))
  /\ fc[c] \in {"swapping", "buying", "reading"} => NoPay(Quote(c))
  /\ fc[c] \in Spending => NoReturn(Quote(c))
  /\ fc[c] = "preswap" => Kept(Quote(c))
Invoiced(c) ==
  /\ c \in prepared => inv[c] = c
  /\ c \in prepared /\ fc[c] \in {"claiming", "pricing", "swapping"} => invoice[Quote(c)] = c
  /\ fc[c] \in Paying => inv[c] = c /\ invoice[Quote(c)] = c
  /\ fc[c] \in {"purchased", "redeeming"} => c \in delivered
CallWell(c) == Caused(c) /\ Spends(c) /\ Invoiced(c)

\* The row, and what was asked for in its quote
RowWell(q) ==
  /\ invoice[q] # Nobody => Quote(invoice[q]) = q
  /\ ~Untouched(q) => STATE_ORDER[state[q]] >= 20
  /\ ~Unspent(q) => ~Claimable(q)
  /\ state[q] = "INVOICE_CREATED" => invoice[q] = token[q] /\ invoice[q] \in Buys \ FireflyBuys
  /\ state[q] = "DELIVERED" \/ q \in seen => invoice[q] \in delivered
  /\ state[q] = "REFUNDED" => \E b \in Buys : QuoteOf[b] = q /\ <<"return", b>> \in moved
MoneyWell(q) ==
  /\ \A c \in Of(q) : Was("fund", c) => c \in Buys
  /\ \A c \in Of(q) : Was("pay", c) => invoice[q] = c
  /\ \A c, d \in Of(q) : Was("swap", c) /\ Was("swap", d) => c = d
WalletWell(q) ==
  ByWallet(q) =>
    /\ state[q] \in {"QUOTED", "USER_APPROVED", "QUOTE_EXPIRED", "USER_REJECTED"} => Untouched(q)
    /\ state[q] # "FIREFLY_REJECTED"
QuoteWell(q) ==
  /\ OneAtATime(q) /\ OneClaim(q)
  /\ \A b \in Buys : QuoteOf[b] = q => BuyWell(b)
  /\ \A c \in Of(q) : CallWell(c)
  /\ RowWell(q) /\ MoneyWell(q) /\ WalletWell(q)
OrderInv == Types /\ \A q \in Quotes : QuoteWell(q)

-----------------------------------------------------------------------------
(* What the operators do *)

LEMMA QuotesOfCalls ==
  /\ \A b \in Buys : QuoteOf[b] \in Quotes /\ Quote(b) = QuoteOf[b] /\ Buy(b) = b
  /\ \A c \in BankrCalls : /\ c \notin Buys /\ BuyOf[c] \in FireflyBuys /\ BuyOf[c] \in Buys
                           /\ Buy(c) = BuyOf[c] /\ Quote(c) = QuoteOf[BuyOf[c]]
  /\ \A c \in Calls : Buy(c) \in Buys /\ Quote(c) \in Quotes /\ Quote(c) = QuoteOf[Buy(c)]
  /\ \A b \in UserBuys : b \in Buys /\ b \notin FireflyBuys
  /\ Nobody \notin Calls
BY BitrefillAssumption DEF Quote, Buy, Calls

\* The ranks the guards compare
LEMMA Ranks ==
  /\ \A s \in States : STATE_ORDER[s] \in Int /\ STATE_ORDER[s] >= 0
  /\ STATE_ORDER["none"] = 0 /\ STATE_ORDER["QUOTED"] = 10
  /\ STATE_ORDER["USER_APPROVED"] = 20 /\ STATE_ORDER["FIREFLY_APPROVED"] = 20
  /\ STATE_ORDER["INVOICE_CREATED"] = 25 /\ STATE_ORDER["SINGIT_SETTLED"] = 35
  /\ STATE_ORDER["FULFILLING"] = 40 /\ STATE_ORDER["BITREFILL_PURCHASED"] = 50
  /\ STATE_ORDER["DELIVERED"] = 70 /\ STATE_ORDER["REFUNDED"] = 904
  /\ STATE_ORDER["RECONCILIATION_REQUIRED"] = 903
  /\ \A s \in States : STATE_ORDER[s] > 903 => s = "REFUNDED"
  /\ \A s \in States : STATE_ORDER[s] >= 40 => s = "FULFILLING" \/ STATE_ORDER[s] >= 50
BY DEF States, STATE_ORDER

\* A row step of quote q: whatever was claimed stays claimed, and what was
\* approved stays approved
Onward(q) ==
  /\ state' \in [Quotes -> States]
  /\ \A p \in Quotes \ {q} : state'[p] = state[p]
  /\ ~Claimable(q) => ~Claimable(q)'
  /\ STATE_ORDER[state[q]] >= 20 => STATE_ORDER[state'[q]] >= 20

LEMMA AdvanceOnward ==
  ASSUME Types, NEW q \in Quotes, NEW s \in States, AdvanceState(q, s)
  PROVE  /\ Onward(q)
         /\ CanAdvance(q, s) => state'[q] = s
         /\ ~CanAdvance(q, s) => state'[q] = state[q]
<1>1. state \in [Quotes -> States] /\ state[q] \in States
  BY DEF Types
<1>2. CASE CanAdvance(q, s)
  <2>1. state' = [state EXCEPT ![q] = s]
    BY <1>2 DEF AdvanceState
  <2>2. /\ state' \in [Quotes -> States] /\ state'[q] = s
        /\ \A p \in Quotes \ {q} : state'[p] = state[p]
    BY <1>1, <2>1
  <2>3. \/ STATE_ORDER[s] >= STATE_ORDER[state[q]]
        \/ s = "DELIVERED"
    BY <1>2 DEF CanAdvance
  <2>4. STATE_ORDER[s] \in Int /\ STATE_ORDER[state[q]] \in Int
    BY <1>1, Ranks
  <2>5. STATE_ORDER[state[q]] >= 20 => STATE_ORDER[s] >= 20
    BY <2>3, <2>4, Ranks
  <2>6. ~Claimable(q) => ~Claimable(q)'
    <3> SUFFICES ASSUME ~Claimable(q) PROVE ~Claimable(q)'
      OBVIOUS
    <3>1. STATE_ORDER[state[q]] >= 40
      BY <2>4, Ranks DEF Claimable
    <3>2. STATE_ORDER[s] >= 40
      BY <2>3, <2>4, <3>1, Ranks
    <3>3. s = "FULFILLING" \/ STATE_ORDER[s] >= 50
      BY <3>2, Ranks
    <3> QED
      BY <2>2, <2>4, <3>3, Ranks DEF Claimable
  <2> QED
    BY <1>2, <2>2, <2>5, <2>6 DEF Onward
<1>3. CASE ~CanAdvance(q, s)
  <2>1. state' = state
    BY <1>3 DEF AdvanceState
  <2> QED
    BY <1>1, <1>3, <2>1 DEF Onward, Claimable
<1> QED
  BY <1>2, <1>3

LEMMA RowKept ==
  ASSUME Types, UNCHANGED state, NEW q \in Quotes
  PROVE  Onward(q) /\ state'[q] = state[q]
BY DEF Types, Onward, Claimable

LEMMA ClaimedStates ==
  ASSUME NEW q \in Quotes
  PROVE  /\ state[q] \in {"none", "QUOTED", "USER_APPROVED", "FIREFLY_APPROVED",
                          "INVOICE_CREATED", "SINGIT_SETTLED"} => Claimable(q)
         /\ state[q] = "FULFILLING" => ~Claimable(q)
         /\ state[q] \in States /\ ~Claimable(q) => STATE_ORDER[state[q]] >= 20
<1>1. state[q] \in {"none", "QUOTED", "USER_APPROVED", "FIREFLY_APPROVED",
                    "INVOICE_CREATED", "SINGIT_SETTLED"} => Claimable(q)
  BY DEF Claimable, STATE_ORDER
<1>2. state[q] = "FULFILLING" => ~Claimable(q)
  BY DEF Claimable
<1>3. ASSUME state[q] \in States, ~Claimable(q)
      PROVE  STATE_ORDER[state[q]] >= 20
  <2>1. STATE_ORDER[state[q]] \in Int
    BY <1>3, Ranks
  <2> QED
    BY <1>3, <2>1, Ranks DEF Claimable
<1> QED
  BY <1>1, <1>2, <1>3

-----------------------------------------------------------------------------
(* A step touches one quote *)

Elsewhere(q) ==
  /\ \A p \in Quotes \ {q} :
       state'[p] = state[p] /\ token'[p] = token[p] /\ invoice'[p] = invoice[p]
       /\ (p \in seen' => p \in seen)
  /\ \A b \in Buys : QuoteOf[b] # q => pc'[b] = pc[b]
  /\ \A c \in Calls : Quote(c) # q =>
       /\ fc'[c] = fc[c] /\ inv'[c] = inv[c] /\ (c \in prepared' => c \in prepared)
       /\ \A k \in Kinds : <<k, c>> \in asked' <=> <<k, c>> \in asked
  /\ delivered \subseteq delivered' /\ moved \subseteq moved' /\ crashes' = crashes

LEMMA OtherQuotes ==
  ASSUME OrderInv, NEW q, Elsewhere(q), NEW p \in Quotes \ {q}
  PROVE  QuoteWell(p)'
<1>1. QuoteWell(p) /\ Types
  BY DEF OrderInv
<1>2. /\ state'[p] = state[p] /\ token'[p] = token[p] /\ invoice'[p] = invoice[p]
      /\ p \in seen' => p \in seen
      /\ Claimable(p)' = Claimable(p)
  BY DEF Elsewhere, Claimable
<1>3. \A c \in Of(p) :
        /\ c \in Calls /\ Quote(c) = p
        /\ fc'[c] = fc[c] /\ inv'[c] = inv[c] /\ (c \in prepared' => c \in prepared)
        /\ \A k \in Kinds : Was(k, c)' = Was(k, c)
        /\ c \in Buys => pc'[c] = pc[c]
  BY QuotesOfCalls DEF Elsewhere, Of, Was
<1>4. \A b \in Buys : QuoteOf[b] = p => b \in Of(p) /\ Quote(b) = p
  BY QuotesOfCalls DEF Of, Calls
<1>5. /\ Untouched(p)' = Untouched(p) /\ Unspent(p)' = Unspent(p) /\ Kept(p)' = Kept(p)
      /\ NoReturn(p)' = NoReturn(p) /\ NoPay(p)' = NoPay(p)
  BY <1>3 DEF Untouched, Unspent, Kept, NoReturn, NoPay, Kinds
<1>6. delivered \subseteq delivered' /\ moved \subseteq moved' /\ crashes' = crashes
  BY DEF Elsewhere
<1>7. ASSUME NEW b \in Buys, QuoteOf[b] = p
      PROVE  BuyWell(b)'
  <2>1. /\ BuyWell(b) /\ pc'[b] = pc[b] /\ fc'[b] = fc[b]
        /\ \A k \in Kinds : Was(k, b)' = Was(k, b)
    BY <1>1, <1>3, <1>4, <1>7 DEF QuoteWell
  <2>2. Was("fund", b)' = Was("fund", b) /\ Was("return", b)' = Was("return", b)
    BY <2>1 DEF Kinds
  <2> QED
    BY <1>2, <1>5, <1>6, <1>7, <2>1, <2>2
       DEF BuyWell, Roles, TokenIsOurs, OnFile, FundsArrived, ReturnsWhole, Accounted
<1>8. ASSUME NEW c \in Of(p)
      PROVE  CallWell(c)'
  <2>1. /\ CallWell(c) /\ fc'[c] = fc[c] /\ inv'[c] = inv[c] /\ Quote(c) = p
        /\ c \in Buys => pc'[c] = pc[c]
    BY <1>1, <1>3 DEF QuoteWell
  <2>2. c \in BankrCalls => BuyOf[c] \in Of(p)
    BY <1>3, <1>4, QuotesOfCalls
  <2>3. c \in BankrCalls => Was("fund", BuyOf[c])' = Was("fund", BuyOf[c])
    BY <1>3, <2>2 DEF Kinds
  <2> QED
    BY <1>2, <1>3, <1>5, <1>6, <2>1, <2>3 DEF CallWell, Caused, Spends, Invoiced
<1>9. RowWell(p)' /\ MoneyWell(p)' /\ WalletWell(p)'
  <2>1. RowWell(p)'
    BY <1>1, <1>2, <1>5, <1>6 DEF QuoteWell, RowWell
  <2>2. MoneyWell(p)'
    BY <1>1, <1>2, <1>3 DEF QuoteWell, MoneyWell, Kinds
  <2>3. WalletWell(p)'
    BY <1>1, <1>2, <1>5 DEF QuoteWell, WalletWell
  <2> QED
    BY <2>1, <2>2, <2>3
<1>10. OneAtATime(p)' /\ OneClaim(p)'
  BY <1>1, <1>3, <1>4 DEF QuoteWell, OneAtATime, OneClaim, Running
<1> QED
  BY <1>7, <1>8, <1>9, <1>10 DEF QuoteWell

LEMMA OneQuote ==
  ASSUME OrderInv, NEW q \in Quotes, Elsewhere(q), Types', QuoteWell(q)'
  PROVE  OrderInv'
BY OtherQuotes DEF OrderInv

\* A step that touches none: transfers are done, invoices delivered
LEMMA NoQuote ==
  ASSUME OrderInv, Types', moved \subseteq moved', delivered \subseteq delivered',
         UNCHANGED <<crashes, state, token, invoice, pc, fc, prepared, inv, seen, asked>>
  PROVE  OrderInv'
<1>1. PICK q : q \notin Quotes
  BY NoSetContainsEverything
<1>2. Elsewhere(q)
  BY DEF Elsewhere
<1>3. \A p \in Quotes : QuoteWell(p)'
  BY <1>1, <1>2, OtherQuotes
<1> QED
  BY <1>3 DEF OrderInv

LEMMA AskedSame ==
  ASSUME UNCHANGED asked, NEW q \in Quotes
  PROVE  /\ Untouched(q)' = Untouched(q) /\ Unspent(q)' = Unspent(q)
         /\ Kept(q)' = Kept(q) /\ NoReturn(q)' = NoReturn(q) /\ NoPay(q)' = NoPay(q)
         /\ \A k, c : Was(k, c)' = Was(k, c)
BY DEF Untouched, Unspent, Kept, NoReturn, NoPay, Was

LEMMA UntouchedIsUnspent ==
  ASSUME NEW q \in Quotes
  PROVE  /\ Untouched(q) => Unspent(q)
         /\ Unspent(q) => Kept(q) /\ NoReturn(q) /\ NoPay(q)
         /\ Kept(q) => NoPay(q)
         /\ Untouched(q) => \A b \in Buys : QuoteOf[b] = q => ~Was("fund", b) /\ ~Was("return", b)
BY QuotesOfCalls DEF Untouched, Unspent, Kept, NoReturn, NoPay, Kinds, Of, Calls

LEMMA QuoteParts ==
  ASSUME OrderInv, NEW q \in Quotes
  PROVE  /\ Types /\ QuoteWell(q)
         /\ \A b \in Buys : QuoteOf[b] = q => BuyWell(b)
         /\ \A c \in Calls : Quote(c) = q => CallWell(c)
BY DEF OrderInv, QuoteWell, Of

\* A running fulfilment is the one of the buy whose token the row has, and
\* whose funds were asked for
LEMMA CallersToken ==
  ASSUME OrderInv, NEW c \in Calls, fc[c] \in Active
  PROVE  /\ token[Quote(c)] = Buy(c)
         /\ c \in Buys => pc[c] = "fulfilling"
         /\ \A b \in Buys : QuoteOf[b] = Quote(c) /\ (Was("fund", b) \/ pc[b] \in Tokened) => b = Buy(c)
         /\ \A b \in UserBuys : QuoteOf[b] = Quote(c) /\ Was("fund", b) => b = c
<1> DEFINE q == Quote(c)
<1>1. q \in Quotes /\ CallWell(c) /\ Buy(c) \in Buys /\ QuoteOf[Buy(c)] = q /\ BuyWell(Buy(c))
  BY QuotesOfCalls, QuoteParts
<1>2. c \in Buys => pc[c] = "fulfilling"
  BY <1>1 DEF CallWell, Caused
<1>3. Was("fund", Buy(c)) \/ pc[Buy(c)] \in Tokened
  BY <1>1, <1>2, QuotesOfCalls DEF CallWell, Caused, Active, Spending, Paying, Tokened, Calls
<1>4. token[q] = Buy(c)
  BY <1>1, <1>3 DEF BuyWell, TokenIsOurs
<1>5. \A b \in Buys : QuoteOf[b] = q /\ (Was("fund", b) \/ pc[b] \in Tokened) => b = Buy(c)
  BY <1>1, <1>4, QuoteParts DEF BuyWell, TokenIsOurs
<1> QED
  BY <1>2, <1>4, <1>5, QuotesOfCalls DEF Calls

-----------------------------------------------------------------------------
(* The steps of a fulfilment *)

\* How a call that has the claim may go on without a transfer or an invoice
Follows(c, u) ==
  \/ u = "failed"
  \/ fc[c] = "pricing" /\ u = "preswap"
  \/ fc[c] \in {"pricing", "swapping"} /\ u = IF c \in prepared THEN "reading" ELSE "buying"
  \/ fc[c] = "paying" /\ u = "polling"
  \/ fc[c] = "polling" /\ u = "purchased" /\ c \in delivered
  \/ fc[c] = "purchased" /\ u = "redeeming"
  \/ fc[c] \in {"purchased", "redeeming"} /\ u = "ok" /\ state'[Quote(c)] \in Settled

LEMMA CallGoesOn ==
  ASSUME OrderInv, NEW c \in Calls, NEW u, fc[c] \in Spending, Step(c, u), Follows(c, u),
         UNCHANGED <<crashes, token, invoice, pc, prepared, inv, seen, asked, moved, delivered>>,
         Onward(Quote(c)),
         state'[Quote(c)] \in {state[Quote(c)], "FULFILLING", "RECONCILIATION_REQUIRED",
                               "FULFILLMENT_FAILED", "BITREFILL_PURCHASED", "DELIVERED"},
         state'[Quote(c)] = "DELIVERED" =>
           state[Quote(c)] = "DELIVERED" \/ invoice[Quote(c)] \in delivered
  PROVE  OrderInv'
<1> DEFINE q == Quote(c)
<1>1. q \in Quotes /\ Types /\ QuoteWell(q) /\ CallWell(c) /\ c \in Of(q)
  BY QuotesOfCalls, QuoteParts DEF Of
<1>2. fc[c] \in Active /\ fc[c] \in PastClaim /\ fc[c] # "idle"
  BY DEF Active, PastClaim, Spending, Paying
<1>3. u \in CallSteps \ {"idle", "called", "claiming", "pricing", "swapping", "paying", "done"}
  BY DEF Follows, CallSteps, Active, Spending, Paying, PastClaim
<1>4. /\ fc'[c] = u /\ \A d \in Calls \ {c} : fc'[d] = fc[d]
      /\ fc' \in [Calls -> CallSteps]
  BY <1>1, <1>3 DEF Step, Types
<1>5. Types'
  BY <1>1, <1>4 DEF Types, Onward
<1>6. Elsewhere(q)
  BY <1>4 DEF Onward, Elsewhere
<1>7. /\ ~Claimable(q) /\ ~Claimable(q)'
      /\ token[q] = Buy(c) /\ NoReturn(q)
      /\ \A b \in Buys : QuoteOf[b] = q /\ Running(b) => b = c \/ c \notin Buys
      /\ \A b \in UserBuys : QuoteOf[b] = q /\ Was("fund", b) => b = c /\ pc[b] = "fulfilling"
  <2>1. ~Claimable(q) /\ NoReturn(q)
    BY <1>1, <1>2 DEF CallWell, Spends
  <2>2. c \in Buys => pc[c] = "fulfilling" /\ QuoteOf[c] = q
    BY <1>2, CallersToken, QuotesOfCalls
  <2>3. \A b \in Buys : QuoteOf[b] = q /\ Running(b) => b = c \/ c \notin Buys
    BY <1>1, <2>2 DEF QuoteWell, OneAtATime, Running, Over
  <2> QED
    BY <1>2, <2>1, <2>2, <2>3, CallersToken, QuotesOfCalls DEF Onward
<1>8. /\ Untouched(q)' = Untouched(q) /\ Unspent(q)' = Unspent(q)
      /\ Kept(q)' = Kept(q) /\ NoReturn(q)' = NoReturn(q) /\ NoPay(q)' = NoPay(q)
      /\ \A k, d : Was(k, d)' = Was(k, d)
  BY <1>1, AskedSame
<1>9. ASSUME NEW b \in Buys, QuoteOf[b] = q
      PROVE  BuyWell(b)'
  <2>1. BuyWell(b)
    BY <1>1, <1>9, QuoteParts
  <2>2. Roles(b)' /\ TokenIsOurs(b)' /\ FundsArrived(b)' /\ ReturnsWhole(b)'
        /\ (pc[b] \in Before => Untouched(QuoteOf[b]))'
    BY <1>8, <1>9, <2>1 DEF BuyWell, Roles, TokenIsOurs, FundsArrived, ReturnsWhole
  <2>3. OnFile(b)'
    <3>1. state[q] # "INVOICE_CREATED"
      BY <1>1, <1>7, ClaimedStates
    <3>2. ~(b \notin FireflyBuys /\ (pc[b] = "funding" \/ fc[b] \in {"called", "claiming"}))
      BY <1>9, <2>1, <3>1 DEF BuyWell, OnFile
    <3>3. fc'[b] \in {"called", "claiming"} => fc[b] \in {"called", "claiming"}
      BY <1>3, <1>4 DEF Calls
    <3> QED
      BY <3>2, <3>3 DEF OnFile
  <2>4. Accounted(b)'
    <3> SUFFICES ASSUME b \in UserBuys, Was("fund", b), fc'[b] = "ok" PROVE state'[q] \in Settled
      BY <1>7, <1>8, <1>9 DEF Accounted
    <3>1. u = "ok"
      BY <1>4, <1>7, <1>9
    <3> QED
      BY <3>1 DEF Follows
  <2> QED
    BY <2>2, <2>3, <2>4 DEF BuyWell
<1>10. ASSUME NEW d \in Of(q)
       PROVE  CallWell(d)'
  <2>1. d \in Calls /\ Quote(d) = q /\ CallWell(d)
    BY <1>1, <1>10 DEF QuoteWell, Of
  <2>2. CASE d # c
    BY <1>4, <1>7, <1>8, <2>1, <2>2 DEF CallWell, Caused, Spends, Invoiced
  <2>3. CASE d = c
    <3>1. Caused(c)'
      <4>1. c \in BankrCalls => Was("fund", BuyOf[c])
        BY <1>1, <1>2 DEF CallWell, Caused
      <4>2. c \in Buys => pc[c] = "fulfilling"
        BY <1>2, CallersToken
      <4> QED
        BY <1>8, <4>1, <4>2 DEF Caused
    <3>2. Spends(c)'
      BY <1>1, <1>4, <1>7, <1>8, UntouchedIsUnspent DEF CallWell, Spends, Follows
    <3>3. Invoiced(c)'
      BY <1>1, <1>4 DEF CallWell, Invoiced, Follows, Paying
    <3> QED
      BY <2>3, <3>1, <3>2, <3>3 DEF CallWell
  <2> QED
    BY <2>2, <2>3
<1>11. RowWell(q)'
  BY <1>1, <1>7, <1>8 DEF QuoteWell, RowWell, Onward
<1>12. MoneyWell(q)' /\ WalletWell(q)'
  BY <1>1, <1>8 DEF QuoteWell, MoneyWell, WalletWell
<1>13. OneAtATime(q)' /\ OneClaim(q)'
  BY <1>1, <1>2, <1>4 DEF QuoteWell, OneAtATime, OneClaim, Running, Of
<1>14. QuoteWell(q)'
  BY <1>9, <1>10, <1>11, <1>12, <1>13 DEF QuoteWell
<1> QED
  BY <1>1, <1>5, <1>6, <1>14, OneQuote

LEMMA CallFails ==
  ASSUME OrderInv, NEW c \in Calls, fc[c] \in Spending,
         NEW s \in {"RECONCILIATION_REQUIRED", "FULFILLMENT_FAILED"},
         NEW end \in {"failed", "preswap"}, end = "preswap" => fc[c] = "pricing",
         FailTo(c, s, end),
         UNCHANGED <<crashes, token, invoice, pc, prepared, inv, seen, asked, moved, delivered>>
  PROVE  OrderInv'
<1>1. Quote(c) \in Quotes /\ Types /\ s \in States
  BY QuotesOfCalls DEF OrderInv, States, STATE_ORDER
<1>2. AdvanceState(Quote(c), s) /\ Step(c, end)
  BY DEF FailTo
<1>3. Onward(Quote(c)) /\ state'[Quote(c)] \in {state[Quote(c)], s}
  BY <1>1, <1>2, AdvanceOnward
<1>4. Follows(c, end)
  BY DEF Follows
<1> QED
  BY <1>2, <1>3, <1>4, CallGoesOn

LEMMA ProviderFails ==
  ASSUME OrderInv, NEW c \in Calls, fc[c] \in Spending, ProviderFailed(c),
         UNCHANGED <<crashes, token, invoice, pc, prepared, inv, seen, asked, moved, delivered>>
  PROVE  OrderInv'
<1> DEFINE s == IF c \in prepared THEN "RECONCILIATION_REQUIRED" ELSE "FULFILLMENT_FAILED"
<1>1. s \in {"RECONCILIATION_REQUIRED", "FULFILLMENT_FAILED"}
  OBVIOUS
<1>2. FailTo(c, s, "failed")
  BY DEF ProviderFailed
<1> HIDE DEF s
<1> QED
  BY <1>1, <1>2, CallFails

\* A call that goes on and leaves the row as it is
LEMMA CallKeepsRow ==
  ASSUME OrderInv, NEW c \in Calls, NEW u, fc[c] \in Spending, Step(c, u), Follows(c, u),
         UNCHANGED <<crashes, state, token, invoice, pc, prepared, inv, seen, asked, moved,
                     delivered>>
  PROVE  OrderInv'
<1>1. Quote(c) \in Quotes /\ Types
  BY QuotesOfCalls DEF OrderInv
<1>2. Onward(Quote(c)) /\ state'[Quote(c)] = state[Quote(c)]
  BY <1>1, RowKept
<1> QED
  BY <1>2, CallGoesOn

LEMMA FundingSwapKeeps ==
  ASSUME OrderInv, NEW c \in Calls, FundingSwap(c)
  PROVE  OrderInv'
<1>1. Quote(c) \in Quotes /\ Types /\ "FULFILLING" \in States
  BY QuotesOfCalls DEF OrderInv, States, STATE_ORDER
<1>2. /\ fc[c] = "swapping" /\ fc[c] \in Spending
      /\ UNCHANGED <<crashes, token, invoice, pc, prepared, inv, seen, asked, moved, delivered>>
  BY DEF FundingSwap, Spending, moneyVars
<1>3. CASE FailTo(c, "RECONCILIATION_REQUIRED", "failed")
  BY <1>2, <1>3, CallFails
<1>4. CASE CanAdvance(Quote(c), "FULFILLING") /\ AdvanceState(Quote(c), "FULFILLING")
           /\ AfterFunding(c)
  <2>1. Onward(Quote(c)) /\ state'[Quote(c)] = "FULFILLING"
    BY <1>1, <1>4, AdvanceOnward
  <2> DEFINE u == IF c \in prepared THEN "reading" ELSE "buying"
  <2>2. Step(c, u) /\ Follows(c, u)
    BY <1>2, <1>4 DEF AfterFunding, Follows
  <2> HIDE DEF u
  <2> QED
    BY <1>2, <2>1, <2>2, CallGoesOn
<1> QED
  BY <1>3, <1>4 DEF FundingSwap

LEMMA PayInvoiceKeeps ==
  ASSUME OrderInv, NEW c \in Calls, PayInvoice(c)
  PROVE  OrderInv'
<1>1. /\ fc[c] = "paying" /\ fc[c] \in Spending
      /\ UNCHANGED <<crashes, token, invoice, pc, prepared, inv, seen, asked, moved, delivered>>
  BY DEF PayInvoice, Spending, Paying, moneyVars
<1>2. CASE Step(c, "polling") /\ UNCHANGED state
  BY <1>1, <1>2, CallKeepsRow DEF Follows
<1> QED
  BY <1>1, <1>2, ProviderFails DEF PayInvoice

LEMMA PollInvoiceKeeps ==
  ASSUME OrderInv, NEW c \in Calls, PollInvoice(c)
  PROVE  OrderInv'
<1>1. /\ fc[c] = "polling" /\ fc[c] \in Spending /\ CallWell(c)
      /\ UNCHANGED <<crashes, token, invoice, pc, prepared, inv, seen, asked, moved, delivered>>
  BY QuoteParts, QuotesOfCalls DEF PollInvoice, Spending, Paying, moneyVars
<1>2. CASE inv[c] \in delivered /\ Step(c, "purchased") /\ UNCHANGED state
  <2>1. c \in delivered
    BY <1>1, <1>2 DEF CallWell, Invoiced, Paying
  <2> QED
    BY <1>1, <1>2, <2>1, CallKeepsRow DEF Follows
<1> QED
  BY <1>1, <1>2, ProviderFails DEF PollInvoice

LEMMA PurchasedKeeps ==
  ASSUME OrderInv, NEW c \in Calls, Purchased(c)
  PROVE  OrderInv'
<1> DEFINE q == Quote(c)
<1>1. /\ fc[c] = "purchased" /\ fc[c] \in Spending /\ q \in Quotes /\ Types
      /\ "BITREFILL_PURCHASED" \in States
      /\ UNCHANGED <<crashes, token, invoice, pc, prepared, inv, seen, asked, moved, delivered>>
  BY QuotesOfCalls
     DEF Purchased, Spending, Paying, moneyVars, OrderInv, States, STATE_ORDER
<1>2. AdvanceState(q, "BITREFILL_PURCHASED")
  BY DEF Purchased
<1>3. /\ Onward(q) /\ state'[q] \in {state[q], "BITREFILL_PURCHASED"}
      /\ CanAdvance(q, "BITREFILL_PURCHASED") => state'[q] = "BITREFILL_PURCHASED"
  BY <1>1, <1>2, AdvanceOnward
<1>4. PICK u : /\ Step(c, u) /\ u \in {"failed", "redeeming", "ok"}
               /\ u = "ok" => CanAdvance(q, "BITREFILL_PURCHASED")
  BY DEF Purchased
<1>5. Follows(c, u)
  BY <1>1, <1>3, <1>4 DEF Follows, Settled
<1> QED
  BY <1>1, <1>3, <1>4, <1>5, CallGoesOn

LEMMA RedeemedKeeps ==
  ASSUME OrderInv, NEW c \in Calls, Redeemed(c)
  PROVE  OrderInv'
<1> DEFINE q == Quote(c)
<1>1. /\ fc[c] = "redeeming" /\ fc[c] \in Spending /\ q \in Quotes /\ Types
      /\ "DELIVERED" \in States /\ CallWell(c)
      /\ UNCHANGED <<crashes, token, invoice, pc, prepared, inv, seen, asked, moved, delivered>>
  BY QuotesOfCalls, QuoteParts
     DEF Redeemed, Spending, Paying, moneyVars, OrderInv, States, STATE_ORDER
<1>2. AdvanceState(q, "DELIVERED")
  BY DEF Redeemed
<1>3. /\ Onward(q) /\ state'[q] \in {state[q], "DELIVERED"}
      /\ CanAdvance(q, "DELIVERED") => state'[q] = "DELIVERED"
  BY <1>1, <1>2, AdvanceOnward
<1>4. PICK u : /\ Step(c, u) /\ u \in {"failed", "ok"}
               /\ u = "ok" => CanAdvance(q, "DELIVERED")
  BY DEF Redeemed
<1>5. Follows(c, u)
  BY <1>1, <1>3, <1>4 DEF Follows, Settled
<1>6. invoice[q] \in delivered
  BY <1>1 DEF CallWell, Invoiced, Paying
<1> QED
  BY <1>1, <1>3, <1>4, <1>5, <1>6, CallGoesOn

\* While a fulfilment runs, its buy is the only one of the quote that can be
\* under way, and nobody of the quote is before its approval
LEMMA ActiveFacts ==
  ASSUME OrderInv, NEW c \in Calls, fc[c] \in Active
  PROVE  /\ \A b \in Buys : QuoteOf[b] = Quote(c) => pc[b] \notin Before
         /\ \A b \in UserBuys : QuoteOf[b] = Quote(c) /\ Was("fund", b) =>
              b = c /\ pc[b] = "fulfilling"
         /\ ByWallet(Quote(c)) => c \in UserBuys /\ ~Untouched(Quote(c))
<1> DEFINE q == Quote(c)
<1>1. q \in Quotes /\ Types /\ QuoteWell(q) /\ CallWell(c) /\ c \in Of(q) /\ fc[c] # "idle"
  BY QuotesOfCalls, QuoteParts DEF Of, Active, Spending, Paying
<1>2. ASSUME NEW b \in Buys, QuoteOf[b] = q, pc[b] \in Before
      PROVE  FALSE
  <2>1. Untouched(q)
    BY <1>1, <1>2 DEF QuoteWell, BuyWell
  <2>2. CASE c \in Buys
    <3>1. pc[c] = "fulfilling" /\ QuoteOf[c] = q
      BY <2>2, CallersToken, QuotesOfCalls
    <3>2. c = b
      BY <1>1, <1>2, <2>2, <3>1 DEF QuoteWell, OneAtATime, Running, Over, Before
    <3> QED
      BY <1>2, <3>1, <3>2 DEF Before
  <2>3. CASE c \in BankrCalls
    <3>1. Was("fund", BuyOf[c]) /\ BuyOf[c] \in Buys /\ QuoteOf[BuyOf[c]] = q
      BY <1>1, <2>3, QuotesOfCalls DEF CallWell, Caused
    <3> QED
      BY <1>1, <2>1, <3>1, UntouchedIsUnspent
  <2> QED
    BY <2>2, <2>3 DEF Calls
<1>3. \A b \in UserBuys : QuoteOf[b] = q /\ Was("fund", b) => b = c /\ pc[b] = "fulfilling"
  BY CallersToken, QuotesOfCalls
<1>4. ASSUME ByWallet(q)
      PROVE  c \in UserBuys /\ ~Untouched(q)
  <2>1. Buy(c) \in UserBuys
    BY <1>1, <1>4, QuotesOfCalls DEF ByWallet
  <2>2. c \in Buys /\ Buy(c) = c /\ QuoteOf[c] = q
    BY <2>1, QuotesOfCalls DEF Calls
  <2>3. <<"fund", c>> \in moved
    BY <1>1, <2>1, <2>2, CallersToken DEF QuoteWell, BuyWell, FundsArrived
  <2>4. Was("fund", c)
    BY <1>1, <2>3 DEF Types, Was
  <2> QED
    BY <1>1, <2>1, <2>2, <2>4, UntouchedIsUnspent
<1> QED
  BY <1>2, <1>3, <1>4

\* The swap, and the payment of the invoice
LEMMA CallSpends ==
  ASSUME OrderInv, NEW c \in Calls, NEW u, NEW k \in {"swap", "pay"}, Step(c, u),
         \/ fc[c] = "pricing" /\ u = "swapping" /\ k = "swap"
         \/ fc[c] = "reading" /\ u = "paying" /\ k = "pay",
         asked' = asked \cup {<<k, c>>},
         UNCHANGED <<crashes, state, token, invoice, pc, prepared, inv, seen, moved, delivered>>
  PROVE  OrderInv'
<1> DEFINE q == Quote(c)
<1>1. q \in Quotes /\ Types /\ QuoteWell(q) /\ CallWell(c) /\ c \in Of(q)
  BY QuotesOfCalls, QuoteParts DEF Of
<1>2. fc[c] \in Active /\ fc[c] \in Spending /\ fc[c] \in PastClaim /\ fc[c] # "idle"
      /\ u \in Spending \ {"pricing", "reading", "purchased", "redeeming", "buying"}
      /\ u \in CallSteps /\ u \in PastClaim
  BY DEF Active, PastClaim, Spending, Paying, CallSteps
<1>3. /\ fc'[c] = u /\ \A d \in Calls \ {c} : fc'[d] = fc[d]
      /\ fc' \in [Calls -> CallSteps]
  BY <1>1, <1>2 DEF Step, Types
<1>4. \A j, d : Was(j, d)' <=> Was(j, d) \/ (j = k /\ d = c)
  BY DEF Was
<1>5. Types'
  <2>1. asked' \subseteq Kinds \X Calls /\ moved' \subseteq asked'
    BY <1>1 DEF Types, Kinds
  <2> QED
    BY <1>1, <1>3, <2>1 DEF Types
<1>6. Elsewhere(q)
  BY <1>3 DEF Elsewhere
<1>7. ~Claimable(q) /\ ~Claimable(q)' /\ NoReturn(q) /\ NoReturn(q)' /\ NoPay(q)
      /\ state[q] # "INVOICE_CREATED" /\ STATE_ORDER[state[q]] >= 20
      /\ (k = "swap" => Unspent(q))
  <2>1. ~Claimable(q) /\ NoReturn(q) /\ NoPay(q) /\ (k = "swap" => Unspent(q))
    BY <1>1, <1>2, UntouchedIsUnspent DEF CallWell, Spends
  <2>2. ~Claimable(q)' /\ NoReturn(q)'
    BY <1>4, <2>1 DEF NoReturn, Claimable
  <2>3. state[q] \in States
    BY <1>1 DEF Types
  <2> QED
    BY <1>1, <2>1, <2>2, <2>3, ClaimedStates
<1>8. Untouched(q)' => Untouched(q)
  BY <1>4 DEF Untouched
<1>9. ASSUME NEW b \in Buys, QuoteOf[b] = q
      PROVE  BuyWell(b)'
  <2>1. BuyWell(b) /\ pc[b] \notin Before /\ b \in Of(q)
    BY <1>1, <1>2, <1>9, QuoteParts, ActiveFacts, QuotesOfCalls DEF Of, Calls
  <2>2. Roles(b)' /\ TokenIsOurs(b)' /\ FundsArrived(b)'
    BY <1>4, <1>9, <2>1 DEF BuyWell, Roles, TokenIsOurs, FundsArrived
  <2>3. OnFile(b)'
    <3>1. ~(b \notin FireflyBuys /\ (pc[b] = "funding" \/ fc[b] \in {"called", "claiming"}))
      BY <1>7, <1>9, <2>1 DEF BuyWell, OnFile
    <3>2. fc'[b] \in {"called", "claiming"} => fc[b] \in {"called", "claiming"}
      BY <1>2, <1>3 DEF Calls, Spending, Paying
    <3> QED
      BY <3>1, <3>2 DEF OnFile
  <2>4. Accounted(b)'
    BY <1>2, <1>3, <1>4, <1>9, ActiveFacts DEF Accounted, Spending, Paying
  <2>5. ReturnsWhole(b)'
    BY <1>7, <2>1 DEF ReturnsWhole, NoReturn
  <2> QED
    BY <2>1, <2>2, <2>3, <2>4, <2>5 DEF BuyWell
<1>10. ASSUME NEW d \in Of(q)
       PROVE  CallWell(d)'
  <2>1. d \in Calls /\ Quote(d) = q /\ CallWell(d)
    BY <1>1, <1>10 DEF QuoteWell, Of
  <2>2. CASE d # c
    <3>1. fc'[d] = fc[d] /\ fc[d] \notin PastClaim
      BY <1>1, <1>2, <1>3, <1>10, <2>1, <2>2 DEF QuoteWell, OneClaim
    <3>2. Caused(d)'
      BY <1>4, <2>1, <3>1 DEF CallWell, Caused
    <3>3. Spends(d)' /\ Invoiced(d)'
      BY <2>1, <3>1 DEF CallWell, Spends, Invoiced, PastClaim, Spending, Paying
    <3> QED
      BY <3>2, <3>3 DEF CallWell
  <2>3. CASE d = c
    <3>1. Caused(c)'
      <4>1. c \in BankrCalls => Was("fund", BuyOf[c])
        BY <1>1, <1>2 DEF CallWell, Caused
      <4>2. c \in Buys => pc[c] = "fulfilling"
        BY <1>2, CallersToken
      <4> QED
        BY <1>4, <4>1, <4>2 DEF Caused
    <3>2. Spends(c)'
      <4>1. u = "swapping" => NoPay(q)'
        BY <1>2, <1>4, <1>7 DEF NoPay
      <4>2. u # "pricing" /\ u # "buying" /\ u # "reading" /\ u # "preswap"
        BY <1>2 DEF Spending, Paying
      <4> QED
        BY <1>3, <1>7, <4>1, <4>2 DEF Spends
    <3>3. Invoiced(c)'
      BY <1>1, <1>3 DEF CallWell, Invoiced, Paying
    <3> QED
      BY <2>3, <3>1, <3>2, <3>3 DEF CallWell
  <2> QED
    BY <2>2, <2>3
<1>11. RowWell(q)'
  BY <1>1, <1>7 DEF QuoteWell, RowWell
<1>12. MoneyWell(q)'
  <2>1. \A d \in Of(q) : Was("fund", d)' => d \in Buys
    BY <1>1, <1>4 DEF QuoteWell, MoneyWell
  <2>2. \A d \in Of(q) : Was("pay", d)' => invoice'[q] = d
    BY <1>1, <1>2, <1>4 DEF QuoteWell, MoneyWell, CallWell, Invoiced, Paying
  <2>3. \A d, e \in Of(q) : Was("swap", d)' /\ Was("swap", e)' => d = e
    BY <1>1, <1>4, <1>7 DEF QuoteWell, MoneyWell, Unspent
  <2> QED
    BY <2>1, <2>2, <2>3 DEF MoneyWell
<1>13. WalletWell(q)'
  BY <1>1, <1>2, <1>8, ActiveFacts DEF QuoteWell, WalletWell
<1>14. OneAtATime(q)' /\ OneClaim(q)'
  BY <1>1, <1>2, <1>3 DEF QuoteWell, OneAtATime, OneClaim, Running, Of
<1>15. QuoteWell(q)'
  BY <1>9, <1>10, <1>11, <1>12, <1>13, <1>14 DEF QuoteWell
<1> QED
  BY <1>1, <1>5, <1>6, <1>15, OneQuote

LEMMA FundingPriceKeeps ==
  ASSUME OrderInv, NEW c \in Calls, FundingPrice(c)
  PROVE  OrderInv'
<1>1. /\ fc[c] = "pricing" /\ fc[c] \in Spending
      /\ UNCHANGED <<crashes, token, invoice, pc, prepared, inv, seen, moved, delivered>>
  BY DEF FundingPrice, Spending
<1>2. CASE NoSwapNeeded(c)
  <2> DEFINE u == IF c \in prepared THEN "reading" ELSE "buying"
  <2>1. Step(c, u) /\ Follows(c, u) /\ UNCHANGED <<state, asked>>
    BY <1>1, <1>2 DEF NoSwapNeeded, AfterFunding, Follows
  <2> HIDE DEF u
  <2> QED
    BY <1>1, <2>1, CallKeepsRow
<1>3. ASSUME NEW end \in {"preswap", "failed"},
             FailTo(c, "RECONCILIATION_REQUIRED", end), UNCHANGED asked
      PROVE  OrderInv'
  BY <1>1, <1>3, CallFails
<1>4. CASE asked' = asked \cup {<<"swap", c>>} /\ Step(c, "swapping") /\ UNCHANGED state
  BY <1>1, <1>4, CallSpends
<1> QED
  BY <1>2, <1>3, <1>4 DEF FundingPrice

LEMMA ReadInvoiceKeeps ==
  ASSUME OrderInv, NEW c \in Calls, ReadInvoice(c)
  PROVE  OrderInv'
<1>1. /\ fc[c] = "reading" /\ fc[c] \in Spending /\ inv[c] = c
      /\ UNCHANGED <<crashes, token, invoice, pc, prepared, inv, seen, moved, delivered>>
  BY QuoteParts, QuotesOfCalls DEF ReadInvoice, Spending, Paying, CallWell, Invoiced
<1>2. CASE asked' = asked \cup {<<"pay", inv[c]>>} /\ Step(c, "paying") /\ UNCHANGED state
  BY <1>1, <1>2, CallSpends
<1>3. CASE ProviderFailed(c) /\ UNCHANGED asked
  BY <1>1, <1>3, ProviderFails
<1> QED
  BY <1>2, <1>3 DEF ReadInvoice

LEMMA BuyProductKeeps ==
  ASSUME OrderInv, NEW c \in Calls, BuyProduct(c)
  PROVE  OrderInv'
<1> DEFINE q == Quote(c)
<1>1. q \in Quotes /\ Types /\ QuoteWell(q) /\ CallWell(c) /\ c \in Of(q)
  BY QuotesOfCalls, QuoteParts DEF Of
<1>2. /\ fc[c] = "buying" /\ fc[c] \in Spending /\ fc[c] \in Active /\ fc[c] \in PastClaim
      /\ fc[c] # "idle"
      /\ UNCHANGED <<crashes, token, pc, prepared, seen, asked, moved, delivered>>
  BY DEF BuyProduct, Spending, Active, PastClaim, moneyVars
<1>3. CASE ProviderFailed(c) /\ UNCHANGED <<invoice, inv>>
  BY <1>2, <1>3, ProviderFails
<1>4. CASE invoice' = [invoice EXCEPT ![q] = c] /\ inv' = [inv EXCEPT ![c] = c]
           /\ Step(c, "reading") /\ UNCHANGED state
  <2>1. /\ fc'[c] = "reading" /\ \A d \in Calls \ {c} : fc'[d] = fc[d]
        /\ fc' \in [Calls -> CallSteps]
        /\ inv'[c] = c /\ \A d \in Calls \ {c} : inv'[d] = inv[d]
        /\ inv' \in [Calls -> Calls \cup {Nobody}]
        /\ invoice'[q] = c /\ \A p \in Quotes \ {q} : invoice'[p] = invoice[p]
        /\ invoice' \in [Quotes -> Calls \cup {Nobody}]
    BY <1>1, <1>4 DEF Step, Types, CallSteps, PastClaim, Spending, Paying
  <2>2. Types'
    BY <1>1, <1>2, <1>4, <2>1 DEF Types
  <2>3. Elsewhere(q)
    BY <1>2, <1>4, <2>1 DEF Elsewhere
  <2>4. ~Claimable(q) /\ NoReturn(q) /\ NoPay(q) /\ state[q] # "INVOICE_CREATED"
    BY <1>1, <1>2, ClaimedStates DEF CallWell, Spends
  <2>5. /\ Untouched(q)' = Untouched(q) /\ Unspent(q)' = Unspent(q)
        /\ Kept(q)' = Kept(q) /\ NoReturn(q)' = NoReturn(q) /\ NoPay(q)' = NoPay(q)
        /\ \A k, d : Was(k, d)' = Was(k, d)
        /\ Claimable(q)' = Claimable(q)
    BY <1>1, <1>2, <1>4, AskedSame DEF Claimable
  <2>6. invoice[q] \notin delivered
    <3> SUFFICES ASSUME invoice[q] \in delivered PROVE FALSE
      OBVIOUS
    <3>1. <<"pay", invoice[q]>> \in asked
      BY <1>1 DEF Types
    <3>2. invoice[q] \in Calls
      BY <1>1, <3>1 DEF Types
    <3>3. invoice[q] \in Of(q)
      BY <1>1, <3>2, QuotesOfCalls DEF QuoteWell, RowWell, Of
    <3> QED
      BY <2>4, <3>1, <3>3 DEF NoPay, Was
  <2>7. ASSUME NEW b \in Buys, QuoteOf[b] = q
        PROVE  BuyWell(b)'
    <3>1. BuyWell(b) /\ pc[b] \notin Before
      BY <1>1, <1>2, <2>7, QuoteParts, ActiveFacts
    <3>2. Roles(b)' /\ TokenIsOurs(b)' /\ FundsArrived(b)' /\ ReturnsWhole(b)'
      BY <1>2, <2>5, <2>7, <3>1 DEF BuyWell, Roles, TokenIsOurs, FundsArrived, ReturnsWhole
    <3>3. OnFile(b)'
      <4>1. ~(b \notin FireflyBuys /\ (pc[b] = "funding" \/ fc[b] \in {"called", "claiming"}))
        BY <2>4, <2>7, <3>1 DEF BuyWell, OnFile
      <4>2. fc'[b] \in {"called", "claiming"} => fc[b] \in {"called", "claiming"}
        BY <2>1 DEF Calls
      <4> QED
        BY <1>2, <4>1, <4>2 DEF OnFile
    <3>4. Accounted(b)'
      BY <1>2, <2>1, <2>5, <2>7, ActiveFacts DEF Accounted
    <3> QED
      BY <1>2, <3>1, <3>2, <3>3, <3>4 DEF BuyWell
  <2>8. ASSUME NEW d \in Of(q)
        PROVE  CallWell(d)'
    <3>1. d \in Calls /\ Quote(d) = q /\ CallWell(d)
      BY <1>1, <2>8 DEF QuoteWell, Of
    <3>2. CASE d # c
      <4>1. fc'[d] = fc[d] /\ inv'[d] = inv[d] /\ fc[d] \notin PastClaim
        BY <1>1, <1>2, <2>1, <2>8, <3>1, <3>2 DEF QuoteWell, OneClaim
      <4>2. Caused(d)' /\ Spends(d)'
        BY <1>2, <2>5, <3>1, <4>1 DEF CallWell, Caused, Spends, PastClaim, Spending, Paying
      <4>3. d \in prepared => fc[d] # "claiming"
        <5> SUFFICES ASSUME d \in Buys \ FireflyBuys, fc[d] = "claiming" PROVE FALSE
          BY <1>1 DEF Types
        <5>1. OnFile(d) /\ QuoteOf[d] = q
          BY <3>1, QuoteParts, <1>1, QuotesOfCalls DEF BuyWell
        <5> QED
          BY <2>4, <5>1 DEF OnFile
      <4>4. Invoiced(d)'
        BY <1>2, <3>1, <4>1, <4>3 DEF CallWell, Invoiced, PastClaim, Spending, Paying
      <4> QED
        BY <4>2, <4>4 DEF CallWell
    <3>3. CASE d = c
      <4>1. Caused(c)'
        <5>1. c \in BankrCalls => Was("fund", BuyOf[c])
          BY <1>1, <1>2 DEF CallWell, Caused
        <5>2. c \in Buys => pc[c] = "fulfilling"
          BY <1>2, CallersToken
        <5> QED
          BY <1>2, <2>5, <5>1, <5>2 DEF Caused
      <4>2. Spends(c)'
        BY <2>1, <2>4, <2>5 DEF Spends
      <4>3. Invoiced(c)'
        BY <2>1 DEF Invoiced
      <4> QED
        BY <3>3, <4>1, <4>2, <4>3 DEF CallWell
    <3> QED
      BY <3>2, <3>3
  <2>9. RowWell(q)'
    BY <1>1, <1>2, <1>4, <2>1, <2>4, <2>5, <2>6 DEF QuoteWell, RowWell
  <2>10. MoneyWell(q)'
    BY <1>1, <2>4, <2>5 DEF QuoteWell, MoneyWell, NoPay
  <2>11. WalletWell(q)'
    BY <1>1, <1>4, <2>5 DEF QuoteWell, WalletWell
  <2>12. OneAtATime(q)' /\ OneClaim(q)'
    BY <1>1, <1>2, <2>1 DEF QuoteWell, OneAtATime, OneClaim, Running, Of
  <2>13. QuoteWell(q)'
    BY <2>7, <2>8, <2>9, <2>10, <2>11, <2>12 DEF QuoteWell
  <2> QED
    BY <1>1, <2>2, <2>3, <2>13, OneQuote
<1> QED
  BY <1>3, <1>4 DEF BuyProduct

\* Of the buys that have no Firefly, only the caller's can be waiting for its
\* funds or for its fulfilment to begin
LEMMA OnFileIsCaller ==
  ASSUME OrderInv, NEW c \in Calls, fc[c] \in Active, NEW b \in Buys \ FireflyBuys,
         QuoteOf[b] = Quote(c), pc[b] = "funding" \/ fc[b] \in {"called", "claiming"}
  PROVE  b = c
<1>1. pc[b] \in Tokened
  BY CallersToken, QuotesOfCalls DEF Tokened, Active, Calls
<1>2. b = Buy(c)
  BY <1>1, CallersToken
<1> QED
  BY <1>2, QuotesOfCalls DEF Calls

LEMMA FulfilClaimWins ==
  ASSUME OrderInv, NEW c \in Calls, FulfilClaim(c), Claimable(Quote(c))
  PROVE  OrderInv'
<1> DEFINE q == Quote(c)
<1>1. q \in Quotes /\ Types /\ QuoteWell(q) /\ CallWell(c) /\ c \in Of(q)
  BY QuotesOfCalls, QuoteParts DEF Of
<1>2. /\ fc[c] = "claiming" /\ fc[c] \in Active /\ fc[c] # "idle"
      /\ UNCHANGED <<crashes, token, invoice, inv, pc, prepared, seen, asked, moved, delivered>>
      /\ state' = [state EXCEPT ![q] = "FULFILLING"] /\ Step(c, "pricing")
  BY DEF FulfilClaim, Active, moneyVars
<1>3. /\ fc'[c] = "pricing" /\ \A d \in Calls \ {c} : fc'[d] = fc[d]
      /\ fc' \in [Calls -> CallSteps]
      /\ state'[q] = "FULFILLING" /\ \A p \in Quotes \ {q} : state'[p] = state[p]
      /\ state' \in [Quotes -> States]
  BY <1>1, <1>2 DEF Step, Types, CallSteps, PastClaim, Spending, States, STATE_ORDER
<1>4. Types'
  BY <1>1, <1>2, <1>3 DEF Types
<1>5. Elsewhere(q)
  BY <1>2, <1>3 DEF Elsewhere
<1>6. /\ Unspent(q) /\ NoReturn(q) /\ ~Claimable(q)' /\ STATE_ORDER[state'[q]] >= 20
      /\ \A d \in Of(q) : fc[d] \notin PastClaim
  <2>1. Unspent(q)
    BY <1>1 DEF QuoteWell, RowWell
  <2>2. ~Claimable(q)' /\ STATE_ORDER[state'[q]] >= 20
    BY <1>3, Ranks DEF Claimable
  <2>3. \A d \in Of(q) : fc[d] \notin PastClaim
    BY <1>1 DEF QuoteWell, CallWell, Spends, Of
  <2> QED
    BY <1>1, <2>1, <2>2, <2>3, UntouchedIsUnspent
<1>7. /\ Untouched(q)' = Untouched(q) /\ Unspent(q)' = Unspent(q)
      /\ Kept(q)' = Kept(q) /\ NoReturn(q)' = NoReturn(q) /\ NoPay(q)' = NoPay(q)
      /\ \A k, d : Was(k, d)' = Was(k, d)
  BY <1>1, <1>2, AskedSame
<1>8. ASSUME NEW b \in Buys, QuoteOf[b] = q
      PROVE  BuyWell(b)'
  <2>1. BuyWell(b) /\ pc[b] \notin Before /\ b \in Calls
    BY <1>1, <1>2, <1>8, QuoteParts, ActiveFacts DEF Calls
  <2>2. Roles(b)' /\ TokenIsOurs(b)' /\ FundsArrived(b)' /\ ReturnsWhole(b)'
    BY <1>2, <1>7, <1>8, <2>1 DEF BuyWell, Roles, TokenIsOurs, FundsArrived, ReturnsWhole
  <2>3. OnFile(b)'
    <3> SUFFICES ASSUME b \notin FireflyBuys, pc[b] = "funding" \/ fc'[b] \in {"called", "claiming"}
                 PROVE  FALSE
      BY <1>2 DEF OnFile
    <3>1. b # c
      BY <1>2, <1>3, CallersToken
    <3> QED
      BY <1>2, <1>3, <1>8, <2>1, <3>1, OnFileIsCaller
  <2>4. Accounted(b)'
    BY <1>2, <1>3, <1>7, <1>8, ActiveFacts DEF Accounted
  <2> QED
    BY <1>2, <2>1, <2>2, <2>3, <2>4 DEF BuyWell
<1>9. ASSUME NEW d \in Of(q)
      PROVE  CallWell(d)'
  <2>1. d \in Calls /\ Quote(d) = q /\ CallWell(d)
    BY <1>1, <1>9 DEF QuoteWell, Of
  <2>2. CASE d # c
    <3>1. fc'[d] = fc[d] /\ fc[d] \notin PastClaim
      BY <1>3, <1>6, <1>9, <2>1, <2>2
    <3>2. Caused(d)'
      BY <1>2, <1>7, <2>1, <3>1 DEF CallWell, Caused
    <3>3. Spends(d)' /\ Invoiced(d)'
      BY <1>2, <2>1, <3>1 DEF CallWell, Spends, Invoiced, PastClaim, Spending, Paying
    <3> QED
      BY <3>2, <3>3 DEF CallWell
  <2>3. CASE d = c
    <3>1. Caused(c)'
      <4>1. c \in BankrCalls => Was("fund", BuyOf[c])
        BY <1>1, <1>2 DEF CallWell, Caused
      <4>2. c \in Buys => pc[c] = "fulfilling"
        BY <1>2, CallersToken
      <4> QED
        BY <1>2, <1>7, <4>1, <4>2 DEF Caused
    <3>2. Spends(c)'
      BY <1>3, <1>6, <1>7 DEF Spends
    <3>3. Invoiced(c)'
      BY <1>1, <1>2, <1>3 DEF CallWell, Invoiced, Paying
    <3> QED
      BY <2>3, <3>1, <3>2, <3>3 DEF CallWell
  <2> QED
    BY <2>2, <2>3
<1>10. RowWell(q)'
  BY <1>1, <1>2, <1>3, <1>6, <1>7 DEF QuoteWell, RowWell
<1>11. MoneyWell(q)' /\ WalletWell(q)'
  BY <1>1, <1>2, <1>3, <1>7 DEF QuoteWell, MoneyWell, WalletWell
<1>12. OneAtATime(q)' /\ OneClaim(q)'
  BY <1>1, <1>2, <1>3, <1>6 DEF QuoteWell, OneAtATime, OneClaim, Running, Of
<1>13. QuoteWell(q)'
  BY <1>8, <1>9, <1>10, <1>11, <1>12 DEF QuoteWell
<1> QED
  BY <1>1, <1>4, <1>5, <1>13, OneQuote

\* A call before its claim: it reads the row, or it fails
LEMMA CallEnters ==
  ASSUME OrderInv, NEW c \in Calls, NEW u \in {"failed", "claiming"},
         fc[c] \in {"called", "claiming"}, Step(c, u),
         UNCHANGED <<crashes, token, invoice, pc, seen, asked, moved, delivered>>,
         Onward(Quote(c)), state'[Quote(c)] \in {state[Quote(c)], "QUOTE_EXPIRED"},
         u = "claiming" => state'[Quote(c)] = state[Quote(c)],
         state[Quote(c)] = "INVOICE_CREATED" => state'[Quote(c)] = state[Quote(c)],
         \/ UNCHANGED <<prepared, inv>>
         \/ /\ prepared' = prepared \cup {c} /\ inv' = [inv EXCEPT ![c] = invoice[Quote(c)]]
            /\ u = "claiming" /\ state[Quote(c)] = "INVOICE_CREATED"
  PROVE  OrderInv'
<1> DEFINE q == Quote(c)
<1>1. q \in Quotes /\ Types /\ QuoteWell(q) /\ CallWell(c) /\ c \in Of(q)
  BY QuotesOfCalls, QuoteParts DEF Of
<1>2. fc[c] \in Active /\ fc[c] # "idle" /\ fc[c] \notin PastClaim /\ u \notin PastClaim
      /\ u \in CallSteps
  BY DEF Active, PastClaim, Spending, Paying, CallSteps
<1>3. /\ fc'[c] = u /\ \A d \in Calls \ {c} : fc'[d] = fc[d]
      /\ fc' \in [Calls -> CallSteps]
  BY <1>1, <1>2 DEF Step, Types
<1>4. c \in Buys \ FireflyBuys => OnFile(c)
  BY <1>1, QuotesOfCalls DEF QuoteWell, BuyWell
<1>5. /\ prepared' \subseteq Buys \ FireflyBuys
      /\ \A d \in Calls \ {c} : inv'[d] = inv[d] /\ (d \in prepared' => d \in prepared)
      /\ c \in prepared' => inv'[c] = c /\ (u = "claiming" => invoice[q] = c)
      /\ inv' \in [Calls -> Calls \cup {Nobody}]
  <2>1. CASE UNCHANGED <<prepared, inv>>
    <3>1. c \in prepared => inv[c] = c
      BY <1>1 DEF CallWell, Invoiced
    <3>2. c \in prepared => c \in Buys \ FireflyBuys /\ QuoteOf[c] = q
      BY <1>1, QuotesOfCalls DEF Types
    <3>3. c \in prepared => invoice[q] = c
      BY <1>4, <3>2 DEF OnFile
    <3> QED
      BY <1>1, <2>1, <3>1, <3>3 DEF Types
  <2>2. CASE /\ prepared' = prepared \cup {c} /\ inv' = [inv EXCEPT ![c] = invoice[q]]
             /\ u = "claiming" /\ state[q] = "INVOICE_CREATED"
    <3>1. invoice[q] = token[q] /\ invoice[q] \in Buys \ FireflyBuys
      BY <1>1, <2>2 DEF QuoteWell, RowWell
    <3>2. token[q] = Buy(c)
      BY <1>2, CallersToken
    <3>3. c \in Buys \ FireflyBuys /\ invoice[q] = c
      BY <3>1, <3>2, QuotesOfCalls DEF Calls
    <3> QED
      BY <1>1, <2>2, <3>3 DEF Types
  <2> QED
    BY <2>1, <2>2
<1>6. Types'
  BY <1>1, <1>3, <1>5 DEF Types, Onward
<1>7. Elsewhere(q)
  BY <1>3, <1>5 DEF Elsewhere, Onward
<1>8. /\ Untouched(q)' = Untouched(q) /\ Unspent(q)' = Unspent(q)
      /\ Kept(q)' = Kept(q) /\ NoReturn(q)' = NoReturn(q) /\ NoPay(q)' = NoPay(q)
      /\ \A k, d : Was(k, d)' = Was(k, d)
      /\ ~Claimable(q) => ~Claimable(q)'
      /\ STATE_ORDER[state[q]] >= 20 => STATE_ORDER[state'[q]] >= 20
  BY <1>1, AskedSame DEF Onward
<1>9. c \in Buys \ FireflyBuys => state'[q] = state[q]
  BY <1>4, QuotesOfCalls DEF OnFile
<1>10. ASSUME NEW b \in Buys, QuoteOf[b] = q
       PROVE  BuyWell(b)'
  <2>1. BuyWell(b) /\ pc[b] \notin Before /\ b \in Calls
    BY <1>1, <1>2, <1>10, QuoteParts, ActiveFacts DEF Calls
  <2>2. Roles(b)' /\ TokenIsOurs(b)' /\ FundsArrived(b)' /\ ReturnsWhole(b)'
    BY <1>8, <1>10, <2>1 DEF BuyWell, Roles, TokenIsOurs, FundsArrived, ReturnsWhole
  <2>3. OnFile(b)'
    <3> SUFFICES ASSUME b \notin FireflyBuys, pc[b] = "funding" \/ fc'[b] \in {"called", "claiming"}
                 PROVE  state'[q] = "INVOICE_CREATED" /\ invoice[q] = b /\ Unspent(q)
      BY <1>8, <1>10 DEF OnFile
    <3>1. pc[b] = "funding" \/ fc[b] \in {"called", "claiming"}
      BY <1>3, <2>1
    <3>2. b = c
      BY <1>2, <1>10, <3>1, OnFileIsCaller
    <3> QED
      BY <1>9, <1>10, <2>1, <3>1, <3>2 DEF BuyWell, OnFile
  <2>4. Accounted(b)'
    BY <1>2, <1>3, <1>8, <1>10, ActiveFacts DEF Accounted
  <2> QED
    BY <2>1, <2>2, <2>3, <2>4 DEF BuyWell
<1>11. ASSUME NEW d \in Of(q)
       PROVE  CallWell(d)'
  <2>1. d \in Calls /\ Quote(d) = q /\ CallWell(d)
    BY <1>1, <1>11 DEF QuoteWell, Of
  <2>2. CASE d # c
    BY <1>3, <1>5, <1>8, <2>1, <2>2 DEF CallWell, Caused, Spends, Invoiced
  <2>3. CASE d = c
    <3>1. Caused(c)'
      <4>1. c \in BankrCalls => Was("fund", BuyOf[c])
        BY <1>1, <1>2 DEF CallWell, Caused
      <4>2. c \in Buys => pc[c] = "fulfilling"
        BY <1>2, CallersToken
      <4> QED
        BY <1>8, <4>1, <4>2 DEF Caused
    <3>2. Spends(c)'
      BY <1>3, <1>2 DEF Spends, PastClaim, Spending, Paying
    <3>3. Invoiced(c)'
      BY <1>3, <1>5 DEF Invoiced, Paying
    <3> QED
      BY <2>3, <3>1, <3>2, <3>3 DEF CallWell
  <2> QED
    BY <2>2, <2>3
<1>12. RowWell(q)'
  BY <1>1, <1>8 DEF QuoteWell, RowWell
<1>13. MoneyWell(q)'
  BY <1>1, <1>8 DEF QuoteWell, MoneyWell
<1>14. WalletWell(q)'
  <2> SUFFICES ASSUME ByWallet(q) PROVE state'[q] = state[q]
    BY <1>1, <1>8 DEF QuoteWell, WalletWell, ByWallet
  <2>1. c \in UserBuys
    BY <1>2, ActiveFacts
  <2> QED
    BY <1>9, <2>1, QuotesOfCalls
<1>15. OneAtATime(q)' /\ OneClaim(q)'
  BY <1>1, <1>2, <1>3 DEF QuoteWell, OneAtATime, OneClaim, Running, Of
<1>16. QuoteWell(q)'
  BY <1>10, <1>11, <1>12, <1>13, <1>14, <1>15 DEF QuoteWell
<1> QED
  BY <1>1, <1>6, <1>7, <1>16, OneQuote

LEMMA FulfilReadKeeps ==
  ASSUME OrderInv, NEW c \in Calls, FulfilRead(c)
  PROVE  OrderInv'
<1> DEFINE q == Quote(c)
<1>1. /\ q \in Quotes /\ Types /\ "QUOTE_EXPIRED" \in States /\ fc[c] \in {"called", "claiming"}
      /\ UNCHANGED <<crashes, token, invoice, pc, seen, asked, moved, delivered>>
  BY QuotesOfCalls DEF OrderInv, States, STATE_ORDER, FulfilRead, moneyVars
<1>2. CASE Expired(q) /\ state[q] # "INVOICE_CREATED"
  <2>1. AdvanceState(q, "QUOTE_EXPIRED") /\ Step(c, "failed") /\ UNCHANGED <<prepared, inv>>
    BY <1>2 DEF FulfilRead
  <2>2. Onward(q) /\ state'[q] \in {state[q], "QUOTE_EXPIRED"}
    BY <1>1, <2>1, AdvanceOnward
  <2> QED
    BY <1>1, <1>2, <2>1, <2>2, CallEnters
<1>3. CASE ~(Expired(q) /\ state[q] # "INVOICE_CREATED")
  <2>1. UNCHANGED state
    BY <1>3 DEF FulfilRead
  <2>2. Onward(q) /\ state'[q] = state[q]
    BY <1>1, <2>1, RowKept
  <2>3. CASE Step(c, "failed") /\ UNCHANGED <<prepared, inv>>
    BY <1>1, <2>2, <2>3, CallEnters
  <2>4. CASE Step(c, "claiming") /\ UNCHANGED <<prepared, inv>>
    BY <1>1, <2>2, <2>4, CallEnters
  <2>5. CASE /\ Step(c, "claiming") /\ state[q] = "INVOICE_CREATED"
             /\ prepared' = prepared \cup {c} /\ inv' = [inv EXCEPT ![c] = invoice[q]]
    BY <1>1, <2>2, <2>5, CallEnters
  <2> QED
    BY <1>3, <2>3, <2>4, <2>5 DEF FulfilRead
<1> QED
  BY <1>2, <1>3

LEMMA FulfilClaimKeeps ==
  ASSUME OrderInv, NEW c \in Calls, FulfilClaim(c)
  PROVE  OrderInv'
<1>1. CASE Claimable(Quote(c))
  BY <1>1, FulfilClaimWins
<1>2. CASE ~Claimable(Quote(c))
  <2>1. /\ Quote(c) \in Quotes /\ Types /\ fc[c] \in {"called", "claiming"} /\ Step(c, "failed")
        /\ UNCHANGED <<crashes, state, token, invoice, pc, seen, asked, moved, delivered,
                       prepared, inv>>
    BY <1>2, QuotesOfCalls DEF OrderInv, FulfilClaim, moneyVars
  <2>2. Onward(Quote(c)) /\ state'[Quote(c)] = state[Quote(c)]
    BY <2>1, RowKept
  <2> QED
    BY <2>1, <2>2, CallEnters
<1> QED
  BY <1>1, <1>2

LEMMA CallStepKeeps ==
  ASSUME OrderInv, NEW c \in Calls, CallStep(c)
  PROVE  OrderInv'
BY FulfilReadKeeps, FulfilClaimKeeps, FundingPriceKeeps, FundingSwapKeeps, BuyProductKeeps,
   ReadInvoiceKeeps, PayInvoiceKeeps, PollInvoiceKeeps, PurchasedKeeps, RedeemedKeeps
   DEF CallStep

LEMMA BankrCallKeeps ==
  ASSUME OrderInv, NEW c \in BankrCalls, BankrCalls_Fulfil(c)
  PROVE  OrderInv'
<1> DEFINE q == Quote(c)
<1>1. q \in Quotes /\ Types /\ QuoteWell(q) /\ c \in Of(q) /\ c \in Calls /\ c \notin Buys
  BY QuotesOfCalls, QuoteParts DEF Of, Calls
<1>2. /\ fc[c] = "idle" /\ Was("fund", BuyOf[c]) /\ Step(c, "called")
      /\ UNCHANGED <<crashes, state, token, invoice, pc, prepared, inv, seen, asked, moved,
                     delivered>>
  BY DEF BankrCalls_Fulfil, orderVars, moneyVars, Was
<1>3. /\ fc'[c] = "called" /\ \A d \in Calls \ {c} : fc'[d] = fc[d]
      /\ fc' \in [Calls -> CallSteps]
  BY <1>1, <1>2 DEF Step, Types, CallSteps, Active
<1>4. Types' /\ Elsewhere(q)
  BY <1>1, <1>2, <1>3 DEF Types, Elsewhere
<1>5. /\ Untouched(q)' = Untouched(q) /\ Unspent(q)' = Unspent(q)
      /\ Kept(q)' = Kept(q) /\ NoReturn(q)' = NoReturn(q) /\ NoPay(q)' = NoPay(q)
      /\ \A k, d : Was(k, d)' = Was(k, d)
      /\ Claimable(q)' = Claimable(q)
  BY <1>1, <1>2, AskedSame DEF Claimable
<1>6. ASSUME NEW b \in Buys, QuoteOf[b] = q
      PROVE  BuyWell(b)'
  <2>1. BuyWell(b) /\ fc'[b] = fc[b]
    BY <1>1, <1>3, <1>6, QuoteParts DEF Calls
  <2> QED
    BY <1>2, <1>5, <1>6, <2>1
       DEF BuyWell, Roles, TokenIsOurs, OnFile, FundsArrived, ReturnsWhole, Accounted
<1>7. ASSUME NEW d \in Of(q)
      PROVE  CallWell(d)'
  <2>1. d \in Calls /\ Quote(d) = q /\ CallWell(d)
    BY <1>1, <1>7 DEF QuoteWell, Of
  <2>2. CASE d # c
    BY <1>2, <1>3, <1>5, <2>1, <2>2 DEF CallWell, Caused, Spends, Invoiced
  <2>3. CASE d = c
    <3>1. Caused(c)'
      BY <1>1, <1>2, <1>5 DEF Caused
    <3>2. Spends(c)'
      BY <1>3 DEF Spends, PastClaim, Spending, Paying
    <3>3. Invoiced(c)'
      BY <1>1, <1>2, <1>3 DEF Invoiced, Types, Paying
    <3> QED
      BY <2>3, <3>1, <3>2, <3>3 DEF CallWell
  <2> QED
    BY <2>2, <2>3
<1>8. RowWell(q)' /\ MoneyWell(q)' /\ WalletWell(q)'
  BY <1>1, <1>2, <1>5 DEF QuoteWell, RowWell, MoneyWell, WalletWell
<1>9. OneAtATime(q)' /\ OneClaim(q)'
  BY <1>1, <1>2, <1>3
     DEF QuoteWell, OneAtATime, OneClaim, Running, Of, PastClaim, Spending, Paying
<1>10. QuoteWell(q)'
  BY <1>6, <1>7, <1>8, <1>9 DEF QuoteWell
<1> QED
  BY <1>1, <1>4, <1>10, OneQuote

-----------------------------------------------------------------------------
(* The steps of a buy *)

\* A buy that has asked for nothing yet is alone with its quote
Early(b) ==
  \/ pc[b] \in Before
  \/ state[QuoteOf[b]] = "QUOTED" /\ \A a \in Buys : QuoteOf[a] = QuoteOf[b] => ~Running(a)

LEMMA EarlyFacts ==
  ASSUME OrderInv, NEW b \in Buys, Early(b)
  PROVE  /\ Untouched(QuoteOf[b]) /\ Unspent(QuoteOf[b]) /\ QuoteOf[b] \notin seen
         /\ \A a \in Buys : QuoteOf[a] = QuoteOf[b] => ~Was("fund", a) /\ ~Was("return", a)
         /\ \A a \in Buys : QuoteOf[a] = QuoteOf[b] /\ Running(a) => a = b
         /\ \A c \in Of(QuoteOf[b]) : fc[c] \notin Active
<1> DEFINE q == QuoteOf[b]
<1>1. q \in Quotes /\ Types /\ QuoteWell(q) /\ b \in Of(q) /\ b \in Calls
  BY QuotesOfCalls, QuoteParts DEF Of, Calls
<1>2. Untouched(q) /\ Unspent(q) /\ \A a \in Buys : QuoteOf[a] = q => ~Was("fund", a) /\ ~Was("return", a)
  <2>1. Untouched(q)
    <3>1. state[q] = "QUOTED" => ~(STATE_ORDER[state[q]] >= 20)
      BY Ranks
    <3> QED
      BY <1>1, <3>1 DEF Early, QuoteWell, RowWell, BuyWell
  <2> QED
    BY <1>1, <2>1, UntouchedIsUnspent
<1>3. \A a \in Buys : QuoteOf[a] = q /\ Running(a) => a = b
  BY <1>1 DEF Early, QuoteWell, OneAtATime, Running, Over, Before
<1>4. \A c \in Of(q) : fc[c] \notin Active
  <2> SUFFICES ASSUME NEW c \in Of(q), fc[c] \in Active PROVE FALSE
    OBVIOUS
  <2>1. c \in Calls /\ Quote(c) = q /\ CallWell(c) /\ fc[c] # "idle"
    BY <1>1, QuoteParts DEF Of, Active, Spending, Paying
  <2>2. c \in BankrCalls => Was("fund", BuyOf[c]) /\ BuyOf[c] \in Buys /\ QuoteOf[BuyOf[c]] = q
    BY <2>1, QuotesOfCalls DEF CallWell, Caused
  <2>3. c \in Buys /\ pc[c] = "fulfilling" /\ QuoteOf[c] = q
    BY <1>2, <2>1, <2>2, QuotesOfCalls, CallersToken DEF Calls
  <2>4. Running(c)
    BY <2>3 DEF Running, Over
  <2> QED
    BY <1>3, <2>3, <2>4 DEF Early, Before
<1>5. q \notin seen
  <2> SUFFICES ASSUME q \in seen PROVE FALSE
    OBVIOUS
  <2>1. <<"pay", invoice[q]>> \in asked
    BY <1>1 DEF Types, QuoteWell, RowWell
  <2>2. invoice[q] \in Of(q)
    BY <1>1, <2>1, QuotesOfCalls DEF Types, QuoteWell, RowWell, Of
  <2> QED
    BY <1>2, <2>1, <2>2 DEF Unspent, Was
<1> QED
  BY <1>2, <1>3, <1>4, <1>5

\* A buy that has asked for nothing yet: it goes on, or it is over
LEMMA EarlyStep ==
  ASSUME OrderInv, NEW b \in Buys, NEW u \in Before \cup {"done"}, Goto(b, u),
         Early(b),
         u = "reserving" => b \in UserBuys,
         u \in {"pricing", "preparing", "invoicing"} => b \notin FireflyBuys,
         Onward(QuoteOf[b]),
         state'[QuoteOf[b]] \in {state[QuoteOf[b]], "QUOTE_EXPIRED", "FIREFLY_REJECTED",
                                 "USER_REJECTED", "USER_APPROVED", "FULFILLMENT_FAILED"},
         state'[QuoteOf[b]] = "FIREFLY_REJECTED" =>
           b \in FireflyBuys \/ state[QuoteOf[b]] = "FIREFLY_REJECTED",
         \/ token' = token
         \/ token' = [token EXCEPT ![QuoteOf[b]] = b] /\ state'[QuoteOf[b]] = "USER_APPROVED",
         u \in {"preparing", "invoicing"} => token'[QuoteOf[b]] = b,
         UNCHANGED <<crashes, invoice, fc, prepared, inv, seen, asked, moved, delivered>>
  PROVE  OrderInv'
<1> DEFINE q == QuoteOf[b]
<1>1. q \in Quotes /\ Types /\ QuoteWell(q) /\ b \in Of(q) /\ b \in Calls
  BY QuotesOfCalls, QuoteParts DEF Of, Calls
<1>2. /\ pc'[b] = u /\ \A a \in Buys \ {b} : pc'[a] = pc[a]
      /\ pc' \in [Buys -> BuySteps]
  BY <1>1 DEF Goto, Types, BuySteps
<1>3. /\ token' \in [Quotes -> Buys \cup {Nobody}]
      /\ \A p \in Quotes \ {q} : token'[p] = token[p]
  BY <1>1 DEF Types
<1>4. Types' /\ Elsewhere(q)
  BY <1>1, <1>2, <1>3 DEF Types, Elsewhere, Onward
<1>5. Untouched(q) /\ Unspent(q) /\ \A a \in Buys : QuoteOf[a] = q => ~Was("fund", a) /\ ~Was("return", a)
  BY EarlyFacts
<1>6. /\ Untouched(q)' = Untouched(q) /\ Unspent(q)' = Unspent(q)
      /\ Kept(q)' = Kept(q) /\ NoReturn(q)' = NoReturn(q) /\ NoPay(q)' = NoPay(q)
      /\ \A k, d : Was(k, d)' = Was(k, d)
      /\ ~Claimable(q) => ~Claimable(q)'
  BY <1>1, AskedSame DEF Onward
<1>7. \A a \in Buys : QuoteOf[a] = q /\ Running(a) => a = b
  BY EarlyFacts
<1>8. \A c \in Of(q) : fc[c] \notin Active
  BY EarlyFacts
<1>9. ASSUME NEW a \in Buys, QuoteOf[a] = q
      PROVE  BuyWell(a)'
  <2>1. BuyWell(a) /\ a \in Of(q)
    BY <1>1, <1>9, QuoteParts, QuotesOfCalls DEF Of, Calls
  <2>2. Roles(a)'
    BY <1>2, <2>1 DEF BuyWell, Roles, Before
  <2>3. TokenIsOurs(a)'
    <3> SUFFICES ASSUME pc'[a] \in Tokened PROVE token'[q] = a
      BY <1>5, <1>6, <1>9 DEF TokenIsOurs
    <3>1. CASE a = b
      BY <1>2, <3>1 DEF Tokened, Before
    <3>2. CASE a # b
      BY <1>2, <1>7, <1>9, <3>2 DEF Running, Over, Tokened
    <3> QED
      BY <3>1, <3>2
  <2>4. OnFile(a)'
    <3> SUFFICES ASSUME pc'[a] = "funding" \/ fc[a] \in {"called", "claiming"} PROVE FALSE
      BY DEF OnFile
    <3>1. fc[a] \notin {"called", "claiming"}
      BY <1>8, <2>1 DEF Active
    <3>2. CASE a = b
      BY <1>2, <3>1, <3>2 DEF Before
    <3>3. CASE a # b
      BY <1>2, <1>7, <1>9, <3>1, <3>3 DEF Running, Over
    <3> QED
      BY <3>2, <3>3
  <2>5. FundsArrived(a)'
    <3>1. CASE a = b
      BY <1>2, <3>1 DEF FundsArrived, Before
    <3>2. CASE a # b
      BY <1>2, <2>1, <3>2 DEF BuyWell, FundsArrived
    <3> QED
      BY <3>1, <3>2
  <2>6. ReturnsWhole(a)' /\ Accounted(a)'
    BY <1>5, <1>6, <1>9 DEF ReturnsWhole, Accounted
  <2>7. Untouched(QuoteOf[a])'
    BY <1>5, <1>6, <1>9
  <2> QED
    BY <2>2, <2>3, <2>4, <2>5, <2>6, <2>7 DEF BuyWell
<1>10. ASSUME NEW d \in Of(q)
       PROVE  CallWell(d)'
  <2>1. d \in Calls /\ Quote(d) = q /\ CallWell(d) /\ fc[d] \notin Active
    BY <1>1, <1>8, <1>10 DEF QuoteWell, Of
  <2> QED
    BY <1>6, <2>1 DEF CallWell, Caused, Spends, Invoiced, Active, Spending, Paying
<1>11. RowWell(q)'
  BY <1>1, <1>5, <1>6 DEF QuoteWell, RowWell
<1>12. MoneyWell(q)'
  BY <1>1, <1>6 DEF QuoteWell, MoneyWell
<1>13. WalletWell(q)'
  BY <1>1, <1>5, <1>6, QuotesOfCalls DEF QuoteWell, WalletWell, ByWallet
<1>14. OneAtATime(q)' /\ OneClaim(q)'
  <2>1. OneAtATime(q)'
    BY <1>2, <1>7 DEF OneAtATime, Running
  <2>2. OneClaim(q)'
    BY <1>1 DEF QuoteWell, OneClaim
  <2> QED
    BY <2>1, <2>2
<1>15. QuoteWell(q)'
  BY <1>9, <1>10, <1>11, <1>12, <1>13, <1>14 DEF QuoteWell
<1> QED
  BY <1>1, <1>4, <1>15, OneQuote

\* ... and the row stays as it is
LEMMA EarlyKeepsRow ==
  ASSUME OrderInv, NEW b \in Buys, NEW u \in Before \cup {"done"}, Goto(b, u),
         pc[b] \in Before,
         u = "reserving" => b \in UserBuys,
         u \in {"pricing", "preparing", "invoicing"} => b \notin FireflyBuys,
         u \in {"preparing", "invoicing"} => token[QuoteOf[b]] = b,
         UNCHANGED <<crashes, state, token, invoice, fc, prepared, inv, seen, asked, moved,
                     delivered>>
  PROVE  OrderInv'
<1>1. QuoteOf[b] \in Quotes /\ Types
  BY QuotesOfCalls DEF OrderInv
<1>2. Onward(QuoteOf[b]) /\ state'[QuoteOf[b]] = state[QuoteOf[b]]
  BY <1>1, RowKept
<1> QED
  BY <1>2, EarlyStep DEF Early

\* ... and it is over: the row says why
LEMMA EarlyRefusal ==
  ASSUME OrderInv, NEW b \in Buys, Goto(b, "done"), pc[b] \in Before,
         NEW s \in {"QUOTE_EXPIRED", "FIREFLY_REJECTED", "USER_REJECTED", "FULFILLMENT_FAILED"},
         AdvanceState(QuoteOf[b], s), s = "FIREFLY_REJECTED" => b \in FireflyBuys,
         UNCHANGED <<crashes, token, invoice, fc, prepared, inv, seen, asked, moved, delivered>>
  PROVE  OrderInv'
<1>1. QuoteOf[b] \in Quotes /\ Types /\ s \in States
  BY QuotesOfCalls DEF OrderInv, States, STATE_ORDER
<1>2. Onward(QuoteOf[b]) /\ state'[QuoteOf[b]] \in {state[QuoteOf[b]], s}
  BY <1>1, AdvanceOnward
<1> QED
  BY <1>2, EarlyStep DEF Early

LEMMA BeginKeeps ==
  ASSUME OrderInv, NEW b \in Buys, Begin(b)
  PROVE  OrderInv'
<1> DEFINE q == QuoteOf[b]
<1>1. /\ q \in Quotes /\ Types /\ "QUOTE_EXPIRED" \in States
      /\ UNCHANGED <<crashes, token, invoice, fc, prepared, inv, seen, asked, moved, delivered>>
      /\ state[q] = "QUOTED"
  BY QuotesOfCalls DEF OrderInv, States, STATE_ORDER, Begin, callVars, moneyVars
<1>2. \A a \in Buys : QuoteOf[a] = q => ~Running(a)
  BY OneBuyerPerQuote DEF Begin, SlotFree
<1>3. CASE Expired(q)
  <2>1. AdvanceState(q, "QUOTE_EXPIRED") /\ Goto(b, "done")
    BY <1>3 DEF Begin
  <2>2. Onward(q) /\ state'[q] \in {state[q], "QUOTE_EXPIRED"}
    BY <1>1, <2>1, AdvanceOnward
  <2> QED
    BY <1>1, <1>2, <2>1, <2>2, EarlyStep DEF Early
<1>4. CASE ~Expired(q)
  <2>1. PICK u \in {"reserving", "asking", "done"} :
          Goto(b, u) /\ (u = "reserving" => b \in UserBuys) /\ UNCHANGED state
    BY <1>4 DEF Begin, ReserveGuard
  <2>2. Onward(q) /\ state'[q] = state[q]
    BY <1>1, <2>1, RowKept
  <2>3. u \in Before \cup {"done"}
    BY DEF Before
  <2> QED
    BY <1>1, <1>2, <2>1, <2>2, <2>3, EarlyStep DEF Early
<1> QED
  BY <1>3, <1>4

LEMMA ReserveKeeps ==
  ASSUME OrderInv, NEW b \in Buys, Reserve(b)
  PROVE  OrderInv'
<1>1. /\ pc[b] \in Before /\ (Goto(b, "done") \/ Goto(b, "asking"))
      /\ UNCHANGED <<crashes, state, token, invoice, fc, prepared, inv, seen, asked, moved,
                     delivered>>
  BY DEF Reserve, Before, orderVars, callVars, moneyVars
<1> QED
  BY <1>1, EarlyKeepsRow DEF Before

LEMMA NoSourceWalletKeeps ==
  ASSUME OrderInv, NEW b \in Buys, NoSourceWallet(b)
  PROVE  OrderInv'
<1>1. /\ pc[b] \in Before /\ Goto(b, "done")
      /\ UNCHANGED <<crashes, state, token, invoice, fc, prepared, inv, seen, asked, moved,
                     delivered>>
  BY DEF NoSourceWallet, Refuse, Before, orderVars, callVars, moneyVars
<1> QED
  BY <1>1, EarlyKeepsRow DEF Before

LEMMA ApprovedByMemoryKeeps ==
  ASSUME OrderInv, NEW b \in Buys, ApprovedByMemory(b)
  PROVE  OrderInv'
<1>1. /\ pc[b] \in Before /\ Goto(b, "pricing") /\ b \in UserBuys
      /\ UNCHANGED <<crashes, state, token, invoice, fc, prepared, inv, seen, asked, moved,
                     delivered>>
  BY DEF ApprovedByMemory, Before, orderVars, callVars, moneyVars
<1> QED
  BY <1>1, EarlyKeepsRow, QuotesOfCalls DEF Before

LEMMA NotApprovedKeeps ==
  ASSUME OrderInv, NEW b \in Buys, NotApproved(b)
  PROVE  OrderInv'
<1> DEFINE s == IF b \in FireflyBuys THEN "FIREFLY_REJECTED" ELSE "USER_REJECTED"
<1>1. /\ pc[b] \in Before /\ Goto(b, "done") /\ (AdvanceState(QuoteOf[b], s) \/ UNCHANGED state)
      /\ UNCHANGED <<crashes, token, invoice, fc, prepared, inv, seen, asked, moved, delivered>>
  BY DEF NotApproved, Refuse, Before, callVars, moneyVars
<1>2. s \in {"FIREFLY_REJECTED", "USER_REJECTED"} /\ (s = "FIREFLY_REJECTED" => b \in FireflyBuys)
  OBVIOUS
<1> HIDE DEF s
<1>3. CASE UNCHANGED state
  BY <1>1, <1>3, EarlyKeepsRow DEF Before
<1>4. CASE AdvanceState(QuoteOf[b], s)
  BY <1>1, <1>2, <1>4, EarlyRefusal
<1> QED
  BY <1>1, <1>3, <1>4

LEMMA RepriceKeeps ==
  ASSUME OrderInv, NEW b \in Buys, Reprice(b)
  PROVE  OrderInv'
<1> DEFINE q == QuoteOf[b]
<1>1. /\ q \in Quotes /\ Types /\ pc[b] = "pricing" /\ pc[b] \in Before /\ "USER_APPROVED" \in States
      /\ UNCHANGED <<crashes, invoice, fc, prepared, inv, seen, asked, moved, delivered>>
  BY QuotesOfCalls
     DEF OrderInv, States, STATE_ORDER, Reprice, Before, callVars, moneyVars
<1>2. CASE NoFreshPrice(b) /\ UNCHANGED token
  BY <1>1, <1>2, EarlyRefusal DEF NoFreshPrice, Refuse
<1>3. CASE AdvanceState(q, "USER_APPROVED") /\ CanAdvance(q, "USER_APPROVED")
           /\ token' = [token EXCEPT ![q] = b] /\ Goto(b, "preparing")
  <2>1. Onward(q) /\ state'[q] = "USER_APPROVED"
    BY <1>1, <1>3, AdvanceOnward
  <2>2. b \notin FireflyBuys /\ token'[q] = b /\ "preparing" \in Before
    BY <1>1, <1>3, QuoteParts DEF BuyWell, Roles, Types, Before
  <2> QED
    BY <1>1, <1>3, <2>1, <2>2, EarlyStep DEF Early
<1>4. CASE AdvanceState(q, "USER_APPROVED") /\ UNCHANGED token /\ Goto(b, "done")
  <2>1. Onward(q) /\ state'[q] \in {state[q], "USER_APPROVED"}
    BY <1>1, <1>4, AdvanceOnward
  <2> QED
    BY <1>1, <1>4, <2>1, EarlyStep DEF Early
<1> QED
  BY <1>2, <1>3, <1>4 DEF Reprice, Refuse

LEMMA PrepareKeeps ==
  ASSUME OrderInv, NEW b \in Buys, Prepare(b)
  PROVE  OrderInv'
<1> DEFINE q == QuoteOf[b]
<1>1. /\ pc[b] = "preparing" /\ pc[b] \in Before /\ b \notin FireflyBuys
      /\ UNCHANGED <<crashes, token, invoice, fc, prepared, inv, seen, asked, moved, delivered>>
  BY QuotesOfCalls, QuoteParts DEF Prepare, Before, BuyWell, Roles, callVars, moneyVars
<1>2. CASE AdvanceState(q, "QUOTE_EXPIRED") /\ Goto(b, "done")
  BY <1>1, <1>2, EarlyRefusal
<1>3. CASE UNCHANGED state /\ Goto(b, "done")
  BY <1>1, <1>3, EarlyKeepsRow DEF Before
<1>4. CASE UNCHANGED state /\ Goto(b, "invoicing") /\ token[q] = b
  BY <1>1, <1>4, EarlyKeepsRow DEF Before
<1> QED
  BY <1>2, <1>3, <1>4 DEF Prepare, Refuse

\* A buy commits itself: the row has its token, and a wallet is asked for the
\* buyer's tokens, or the operator's invoice goes to its fulfilment
Approves(b, u, s) ==
  /\ s = "FIREFLY_APPROVED" /\ b \in FireflyBuys /\ u = "bankr"
  /\ token' = [token EXCEPT ![QuoteOf[b]] = b]
  /\ asked' = asked \cup {<<"fund", b>>} /\ UNCHANGED <<fc, invoice>>
Invoices(b, u, s) ==
  /\ s = "INVOICE_CREATED" /\ b \notin FireflyBuys /\ token[QuoteOf[b]] = b
  /\ invoice' = [invoice EXCEPT ![QuoteOf[b]] = b] /\ UNCHANGED token
  /\ \/ u = "funding" /\ b \in UserBuys /\ asked' = asked \cup {<<"fund", b>>} /\ UNCHANGED fc
     \/ u = "fulfilling" /\ b \notin UserBuys /\ UNCHANGED asked /\ Step(b, "called")

LEMMA CommitStep ==
  ASSUME OrderInv, NEW b \in Buys, pc[b] \in Before, NEW u, NEW s, Goto(b, u),
         Onward(QuoteOf[b]), state'[QuoteOf[b]] = s,
         Approves(b, u, s) \/ Invoices(b, u, s),
         UNCHANGED <<crashes, prepared, inv, seen, moved, delivered>>
  PROVE  OrderInv'
<1> DEFINE q == QuoteOf[b]
<1>1. q \in Quotes /\ Types /\ QuoteWell(q) /\ b \in Of(q) /\ b \in Calls /\ Early(b)
      /\ Quote(b) = q
  BY QuotesOfCalls, QuoteParts DEF Of, Calls, Early
<1>2. /\ u \in {"bankr", "funding", "fulfilling"}
      /\ pc'[b] = u /\ \A a \in Buys \ {b} : pc'[a] = pc[a]
      /\ pc' \in [Buys -> BuySteps]
  BY <1>1 DEF Goto, Types, BuySteps, Tokened, Approves, Invoices
<1>3. /\ token'[q] = b /\ \A p \in Quotes \ {q} : token'[p] = token[p]
      /\ token' \in [Quotes -> Buys \cup {Nobody}]
  BY <1>1 DEF Types, Approves, Invoices
<1>4. /\ \A p \in Quotes \ {q} : invoice'[p] = invoice[p]
      /\ invoice' \in [Quotes -> Calls \cup {Nobody}]
      /\ s = "INVOICE_CREATED" => invoice'[q] = b /\ b \notin FireflyBuys
      /\ s # "INVOICE_CREATED" => invoice'[q] = invoice[q] /\ b \in FireflyBuys
      /\ s \in {"FIREFLY_APPROVED", "INVOICE_CREATED"}
  BY <1>1 DEF Types, Approves, Invoices
<1>5. /\ \A c \in Calls \ {b} : fc'[c] = fc[c]
      /\ fc'[b] = fc[b] \/ (fc'[b] = "called" /\ u = "fulfilling")
      /\ fc' \in [Calls -> CallSteps]
  BY <1>1 DEF Types, Approves, Invoices, Step, CallSteps, Active
<1>6. /\ \A k, c : Was(k, c)' => Was(k, c) \/ (k = "fund" /\ c = b)
      /\ \A k, c : Was(k, c) => Was(k, c)'
      /\ asked' \subseteq Kinds \X Calls /\ moved' \subseteq asked'
  BY <1>1 DEF Types, Approves, Invoices, Was, Kinds
<1>7. Types' /\ Elsewhere(q)
  <2>1. Types'
    BY <1>1, <1>2, <1>3, <1>4, <1>5, <1>6 DEF Types, Onward
  <2>2. \A c \in Calls : Quote(c) # q => \A k \in Kinds : <<k, c>> \in asked' <=> <<k, c>> \in asked
    BY <1>1, <1>6 DEF Was
  <2> QED
    BY <1>1, <1>2, <1>3, <1>4, <1>5, <2>1, <2>2 DEF Elsewhere, Onward
<1>8. /\ Untouched(q) /\ Unspent(q) /\ q \notin seen
      /\ \A a \in Buys : QuoteOf[a] = q => ~Was("fund", a) /\ ~Was("return", a)
      /\ \A a \in Buys : QuoteOf[a] = q /\ Running(a) => a = b
      /\ \A c \in Of(q) : fc[c] \notin Active
  BY <1>1, EarlyFacts
<1>9. Unspent(q)' /\ Kept(q)' /\ NoReturn(q)' /\ NoPay(q)'
  BY <1>6, <1>8 DEF Unspent, Kept, NoReturn, NoPay
<1>10. /\ ~Claimable(q) => ~Claimable(q)'
       /\ STATE_ORDER[state'[q]] >= 20
  BY <1>4, Ranks DEF Onward
<1>11. ASSUME NEW a \in Buys, QuoteOf[a] = q
       PROVE  BuyWell(a)'
  <2>1. BuyWell(a) /\ a \in Of(q) /\ a \in Calls
    BY <1>1, <1>11, QuoteParts, QuotesOfCalls DEF Of, Calls
  <2>2. fc[a] \notin Active /\ ~Was("fund", a) /\ ~Was("return", a)
    BY <1>8, <1>11, <2>1
  <2>3. CASE a # b
    <3>1. pc'[a] = pc[a] /\ fc'[a] = fc[a] /\ pc[a] \in Over
      BY <1>2, <1>5, <1>8, <1>11, <2>1, <2>3 DEF Running
    <3>2. ~Was("fund", a)' /\ ~Was("return", a)'
      BY <1>6, <2>2, <2>3
    <3> QED
      BY <2>2, <3>1, <3>2
         DEF BuyWell, Roles, TokenIsOurs, OnFile, FundsArrived, ReturnsWhole, Accounted, Over,
             Before, Tokened, Active
  <2>4. CASE a = b
    <3>1. Roles(b)'
      BY <1>2, QuotesOfCalls DEF Roles, Approves, Invoices
    <3>2. TokenIsOurs(b)'
      BY <1>3 DEF TokenIsOurs
    <3>3. OnFile(b)'
      BY <1>4, <1>9 DEF OnFile
    <3>4. FundsArrived(b)'
      BY <1>2 DEF FundsArrived, Approves, Invoices
    <3>5. ReturnsWhole(b)'
      BY <1>6, <2>2, <2>4 DEF ReturnsWhole
    <3>6. Accounted(b)'
      <4>1. u = "fulfilling" => b \notin UserBuys
        BY DEF Approves, Invoices
      <4> QED
        BY <1>2, <4>1 DEF Accounted
    <3>7. pc'[b] \notin Before
      BY <1>2 DEF Before
    <3> QED
      BY <2>4, <3>1, <3>2, <3>3, <3>4, <3>5, <3>6, <3>7 DEF BuyWell
  <2> QED
    BY <2>3, <2>4
<1>12. ASSUME NEW d \in Of(q)
       PROVE  CallWell(d)'
  <2>1. d \in Calls /\ Quote(d) = q /\ CallWell(d) /\ fc[d] \notin Active
        /\ (d \in BankrCalls => d # b)
    BY <1>1, <1>8, <1>12, QuotesOfCalls DEF QuoteWell, Of
  <2>2. fc'[d] = fc[d] \/ (fc'[d] = "called" /\ d = b /\ u = "fulfilling")
    BY <1>5, <2>1
  <2>3. Caused(d)'
    <3>1. d \in BankrCalls /\ fc'[d] # "idle" => Was("fund", BuyOf[d])'
      BY <1>6, <2>1, <2>2 DEF CallWell, Caused
    <3>2. fc'[d] \in Active => pc'[d] = "fulfilling"
      BY <1>2, <2>1, <2>2
    <3> QED
      BY <3>1, <3>2 DEF Caused
  <2>4. Spends(d)'
    BY <1>9, <1>10, <2>1, <2>2 DEF CallWell, Spends, PastClaim, Spending, Paying
  <2>5. Invoiced(d)'
    BY <2>1, <2>2 DEF CallWell, Invoiced, Active, Spending, Paying
  <2> QED
    BY <2>3, <2>4, <2>5 DEF CallWell
<1>13. RowWell(q)'
  <2>1. invoice'[q] # Nobody => Quote(invoice'[q]) = q
    BY <1>1, <1>4 DEF QuoteWell, RowWell
  <2> QED
    BY <1>3, <1>4, <1>8, <1>9, <1>10, <2>1 DEF RowWell
<1>14. MoneyWell(q)'
  BY <1>6, <1>8, <1>9, UntouchedIsUnspent DEF MoneyWell, Unspent, Untouched, Kinds
<1>15. WalletWell(q)'
  BY <1>4, QuotesOfCalls DEF WalletWell, ByWallet
<1>16. OneAtATime(q)' /\ OneClaim(q)'
  <2>1. OneAtATime(q)'
    BY <1>2, <1>8 DEF OneAtATime, Running
  <2>2. OneClaim(q)'
    BY <1>1, <1>5 DEF QuoteWell, OneClaim, Of, PastClaim, Spending, Paying
  <2> QED
    BY <2>1, <2>2
<1>17. QuoteWell(q)'
  BY <1>11, <1>12, <1>13, <1>14, <1>15, <1>16 DEF QuoteWell
<1> QED
  BY <1>1, <1>7, <1>17, OneQuote

LEMMA ApprovedByPersonKeeps ==
  ASSUME OrderInv, NEW b \in Buys, ApprovedByPerson(b)
  PROVE  OrderInv'
<1> DEFINE q == QuoteOf[b]
<1>1. /\ q \in Quotes /\ Types /\ pc[b] \in Before /\ "FIREFLY_APPROVED" \in States
      /\ UNCHANGED <<crashes, invoice, fc, prepared, inv, seen, moved, delivered>>
  BY QuotesOfCalls
     DEF OrderInv, States, STATE_ORDER, ApprovedByPerson, Before, callVars
<1>2. CASE b \in FireflyBuys
  <2>1. /\ CanAdvance(q, "FIREFLY_APPROVED") /\ AdvanceState(q, "FIREFLY_APPROVED")
        /\ token' = [token EXCEPT ![q] = b] /\ Goto(b, "bankr")
        /\ asked' = asked \cup {<<"fund", b>>}
    BY <1>2 DEF ApprovedByPerson
  <2>2. Onward(q) /\ state'[q] = "FIREFLY_APPROVED"
    BY <1>1, <2>1, AdvanceOnward
  <2>3. Approves(b, "bankr", "FIREFLY_APPROVED")
    BY <1>1, <1>2, <2>1 DEF Approves
  <2> QED
    BY <1>1, <2>1, <2>2, <2>3, CommitStep
<1>3. CASE b \notin FireflyBuys
  BY <1>1, <1>3, EarlyKeepsRow DEF ApprovedByPerson, Before
<1> QED
  BY <1>2, <1>3

LEMMA CreateInvoiceKeeps ==
  ASSUME OrderInv, NEW b \in Buys, CreateInvoice(b)
  PROVE  OrderInv'
<1> DEFINE q == QuoteOf[b]
<1>1. /\ q \in Quotes /\ Types /\ pc[b] = "invoicing" /\ pc[b] \in Before
      /\ "INVOICE_CREATED" \in States /\ b \notin FireflyBuys /\ token[q] = b
      /\ UNCHANGED <<crashes, token, prepared, inv, seen, moved, delivered>>
  BY QuotesOfCalls, QuoteParts
     DEF OrderInv, States, STATE_ORDER, CreateInvoice, Before, Tokened, BuyWell, Roles, TokenIsOurs
<1>2. CASE InvoiceRefused(b) /\ UNCHANGED <<invoice, fc, asked>>
  BY <1>1, <1>2, EarlyRefusal DEF InvoiceRefused, Refuse
<1>3. CASE ~(InvoiceRefused(b) /\ UNCHANGED <<invoice, fc, asked>>)
  <2>1. /\ CanAdvance(q, "INVOICE_CREATED") /\ AdvanceState(q, "INVOICE_CREATED")
        /\ invoice' = [invoice EXCEPT ![q] = b]
    BY <1>3 DEF CreateInvoice
  <2>2. Onward(q) /\ state'[q] = "INVOICE_CREATED"
    BY <1>1, <2>1, AdvanceOnward
  <2>3. PICK u \in {"funding", "fulfilling"} : Goto(b, u) /\ Invoices(b, u, "INVOICE_CREATED")
    BY <1>1, <1>3, <2>1 DEF CreateInvoice, Invoices
  <2> QED
    BY <1>1, <2>2, <2>3, CommitStep
<1> QED
  BY <1>2, <1>3

\* Of the buys of a quote, the one the row has the token of has asked, and runs
LEMMA TokenedFacts ==
  ASSUME OrderInv, NEW b \in Buys, pc[b] \in Tokened
  PROVE  /\ token[QuoteOf[b]] = b
         /\ \A a \in Buys : QuoteOf[a] = QuoteOf[b] /\ (Running(a) \/ Was("fund", a)) => a = b
<1>1. QuoteOf[b] \in Quotes
  BY QuotesOfCalls
<1>2. token[QuoteOf[b]] = b
  BY <1>1, QuoteParts DEF BuyWell, TokenIsOurs
<1>3. \A a \in Buys : QuoteOf[a] = QuoteOf[b] /\ Running(a) => a = b
  BY <1>1, QuoteParts DEF QuoteWell, OneAtATime, Running, Over, Tokened
<1>4. \A a \in Buys : QuoteOf[a] = QuoteOf[b] /\ Was("fund", a) => a = b
  BY <1>1, <1>2, QuoteParts DEF BuyWell, TokenIsOurs
<1> QED
  BY <1>2, <1>3, <1>4

\* A committed buy goes on to its fulfilment, to its event, or it is over
Proceeds(b, u) ==
  \/ /\ u = "fulfilling" /\ Step(b, "called")
     /\ \/ pc[b] = "funding" /\ <<"fund", b>> \in moved /\ UNCHANGED state
        \/ pc[b] = "bankr"
  \/ u = "writing" /\ pc[b] = "fulfilling" /\ fc[b] = "ok" /\ UNCHANGED <<fc, state>>
  \/ u = "done" /\ UNCHANGED fc

LEMMA TokenedStep ==
  ASSUME OrderInv, NEW b \in Buys, pc[b] \in Tokened \ Before, fc[b] \notin Active,
         NEW u, Goto(b, u), Proceeds(b, u), Onward(QuoteOf[b]),
         state'[QuoteOf[b]] \in {state[QuoteOf[b]], "SINGIT_SETTLED", "RECONCILIATION_REQUIRED",
                                 "REFUNDED"},
         state'[QuoteOf[b]] = "REFUNDED" =>
           state[QuoteOf[b]] = "REFUNDED" \/ <<"return", b>> \in moved,
         u = "done" /\ b \in UserBuys => state'[QuoteOf[b]] \in Settled,
         UNCHANGED <<crashes, token, invoice, prepared, inv, seen, asked, moved, delivered>>
  PROVE  OrderInv'
<1> DEFINE q == QuoteOf[b]
<1>1. q \in Quotes /\ Types /\ QuoteWell(q) /\ b \in Of(q) /\ b \in Calls /\ BuyWell(b)
      /\ Quote(b) = q
  BY QuotesOfCalls, QuoteParts DEF Of, Calls
<1>2. /\ u \in {"writing", "fulfilling", "done"}
      /\ pc'[b] = u /\ \A a \in Buys \ {b} : pc'[a] = pc[a]
      /\ pc' \in [Buys -> BuySteps]
  BY <1>1 DEF Goto, Types, BuySteps, Tokened, Proceeds
<1>3. /\ \A c \in Calls \ {b} : fc'[c] = fc[c]
      /\ fc'[b] = fc[b] \/ (fc'[b] = "called" /\ u = "fulfilling")
      /\ fc' \in [Calls -> CallSteps]
  BY <1>1 DEF Types, Proceeds, Step, CallSteps, Active
<1>4. Types' /\ Elsewhere(q)
  BY <1>1, <1>2, <1>3 DEF Types, Onward, Elsewhere
<1>5. /\ Untouched(q)' = Untouched(q) /\ Unspent(q)' = Unspent(q)
      /\ Kept(q)' = Kept(q) /\ NoReturn(q)' = NoReturn(q) /\ NoPay(q)' = NoPay(q)
      /\ \A k, d : Was(k, d)' = Was(k, d)
      /\ ~Claimable(q) => ~Claimable(q)'
      /\ STATE_ORDER[state[q]] >= 20 => STATE_ORDER[state'[q]] >= 20
  BY <1>1, AskedSame DEF Onward
<1>6. /\ token[q] = b
      /\ \A a \in Buys : QuoteOf[a] = q /\ (Running(a) \/ Was("fund", a)) => a = b
  BY TokenedFacts
<1>7. ASSUME NEW a \in Buys, QuoteOf[a] = q
      PROVE  BuyWell(a)'
  <2>1. BuyWell(a) /\ CallWell(a) /\ a \in Calls
    BY <1>1, <1>7, QuoteParts, QuotesOfCalls DEF Calls
  <2>2. CASE a # b
    <3>1. pc'[a] = pc[a] /\ fc'[a] = fc[a] /\ pc[a] \in Over /\ ~Was("fund", a)
      BY <1>2, <1>3, <1>6, <1>7, <2>1, <2>2 DEF Running
    <3>2. fc[a] \notin Active
      BY <2>1, <3>1 DEF CallWell, Caused, Over
    <3> QED
      BY <1>5, <1>7, <2>1, <3>1, <3>2
         DEF BuyWell, Roles, TokenIsOurs, OnFile, FundsArrived, ReturnsWhole, Accounted, Over,
             Before, Active
  <2>3. CASE a = b
    <3>1. Roles(b)' /\ TokenIsOurs(b)' /\ pc'[b] \notin Before
      BY <1>2, <1>6 DEF Roles, TokenIsOurs, Before
    <3>2. OnFile(b)'
      <4> SUFFICES ASSUME b \notin FireflyBuys, fc'[b] \in {"called", "claiming"}
                   PROVE  state'[q] = "INVOICE_CREATED" /\ invoice[q] = b /\ Unspent(q)
        BY <1>2, <1>5 DEF OnFile
      <4>1. u = "fulfilling"
        BY <1>3 DEF Active
      <4>2. pc[b] = "funding" /\ UNCHANGED state
        BY <1>1, <4>1 DEF Proceeds, BuyWell, Roles
      <4> QED
        BY <1>1, <4>2 DEF BuyWell, OnFile
    <3>3. FundsArrived(b)'
      BY <1>1, <1>2, QuotesOfCalls DEF FundsArrived, Proceeds, BuyWell, Roles
    <3>4. ReturnsWhole(b)'
      BY <1>1, <1>5 DEF ReturnsWhole, BuyWell
    <3>5. Accounted(b)'
      <4> SUFFICES ASSUME b \in UserBuys, Was("fund", b),
                          u \in {"done", "writing"} \/ (u = "fulfilling" /\ fc'[b] = "ok")
                   PROVE  state'[q] \in Settled
        BY <1>2, <1>5 DEF Accounted
      <4>1. u # "fulfilling"
        BY <1>1, <1>3 DEF Proceeds, Step, Types
      <4>2. u = "writing" => state[q] \in Settled /\ UNCHANGED state
        BY <1>1 DEF Proceeds, BuyWell, Accounted
      <4> QED
        BY <4>1, <4>2
    <3> QED
      BY <2>3, <3>1, <3>2, <3>3, <3>4, <3>5 DEF BuyWell
  <2> QED
    BY <2>2, <2>3
<1>8. ASSUME NEW d \in Of(q)
      PROVE  CallWell(d)'
  <2>1. d \in Calls /\ Quote(d) = q /\ CallWell(d) /\ (d \in BankrCalls => d # b)
    BY <1>1, <1>8, QuotesOfCalls DEF QuoteWell, Of
  <2>2. fc'[d] = fc[d] \/ (fc'[d] = "called" /\ d = b /\ u = "fulfilling")
    BY <1>3, <2>1
  <2>3. Caused(d)'
    <3>1. d \in BankrCalls /\ fc'[d] # "idle" => Was("fund", BuyOf[d])'
      BY <1>5, <2>1, <2>2 DEF CallWell, Caused
    <3>2. d \in Buys /\ fc'[d] \in Active => pc'[d] = "fulfilling"
      BY <1>2, <2>1, <2>2 DEF CallWell, Caused
    <3> QED
      BY <3>1, <3>2 DEF Caused
  <2>4. Spends(d)'
    BY <1>5, <2>1, <2>2 DEF CallWell, Spends, PastClaim, Spending, Paying
  <2>5. Invoiced(d)'
    <3>1. d \in prepared /\ fc'[d] \in {"claiming", "pricing", "swapping"} => invoice[q] = d
      BY <2>1, <2>2 DEF CallWell, Invoiced
    <3>2. fc'[d] \in Paying => inv[d] = d /\ invoice[q] = d
      BY <2>1, <2>2 DEF CallWell, Invoiced, Paying
    <3> QED
      BY <2>1, <2>2, <3>1, <3>2 DEF CallWell, Invoiced
  <2> QED
    BY <2>3, <2>4, <2>5 DEF CallWell
<1>9. RowWell(q)'
  BY <1>1, <1>5 DEF QuoteWell, RowWell
<1>10. MoneyWell(q)' /\ WalletWell(q)'
  BY <1>1, <1>5 DEF QuoteWell, MoneyWell, WalletWell, ByWallet
<1>11. OneAtATime(q)' /\ OneClaim(q)'
  <2>1. OneAtATime(q)'
    BY <1>2, <1>6 DEF OneAtATime, Running
  <2>2. OneClaim(q)'
    BY <1>1, <1>3 DEF QuoteWell, OneClaim, Of, PastClaim, Spending, Paying
  <2> QED
    BY <2>1, <2>2
<1>12. QuoteWell(q)'
  BY <1>7, <1>8, <1>9, <1>10, <1>11 DEF QuoteWell
<1> QED
  BY <1>1, <1>4, <1>12, OneQuote

\* A row that is reconciled by hand counts as settled: no later state is left
LEMMA Reconciled ==
  ASSUME Types, NEW q \in Quotes, AdvanceState(q, "RECONCILIATION_REQUIRED")
  PROVE  /\ Onward(q) /\ state'[q] \in {state[q], "RECONCILIATION_REQUIRED"}
         /\ state'[q] \in Settled
<1>1. "RECONCILIATION_REQUIRED" \in States /\ state[q] \in States
  BY DEF Types, States, STATE_ORDER
<1>2. /\ Onward(q)
      /\ CanAdvance(q, "RECONCILIATION_REQUIRED") => state'[q] = "RECONCILIATION_REQUIRED"
      /\ ~CanAdvance(q, "RECONCILIATION_REQUIRED") => state'[q] = state[q]
  BY <1>1, AdvanceOnward
<1>3. ~CanAdvance(q, "RECONCILIATION_REQUIRED") => state[q] = "REFUNDED"
  BY <1>1, Ranks DEF CanAdvance
<1> QED
  BY <1>2, <1>3 DEF Settled

\* A committed buy that is over, with its row reconciled
LEMMA TokenedRefusal ==
  ASSUME OrderInv, NEW b \in Buys, pc[b] \in Tokened \ Before, fc[b] \notin Active,
         Goto(b, "done"), AdvanceState(QuoteOf[b], "RECONCILIATION_REQUIRED"),
         UNCHANGED <<crashes, fc, token, invoice, prepared, inv, seen, asked, moved, delivered>>
  PROVE  OrderInv'
<1>1. QuoteOf[b] \in Quotes /\ Types
  BY QuotesOfCalls DEF OrderInv
<1>2. Proceeds(b, "done")
  BY DEF Proceeds
<1> QED
  BY <1>1, <1>2, Reconciled, TokenedStep

LEMMA IdleFulfilment ==
  ASSUME OrderInv, NEW b \in Buys, pc[b] # "fulfilling"
  PROVE  fc[b] \notin Active
BY QuoteParts, QuotesOfCalls DEF CallWell, Caused, Calls

LEMMA FundedKeeps ==
  ASSUME OrderInv, NEW b \in Buys, Funded(b)
  PROVE  OrderInv'
<1>1. /\ QuoteOf[b] \in Quotes /\ Types /\ pc[b] = "funding" /\ pc[b] \in Tokened \ Before
      /\ fc[b] \notin Active
      /\ UNCHANGED <<crashes, token, invoice, prepared, inv, seen, asked, moved, delivered>>
  BY QuotesOfCalls, IdleFulfilment DEF OrderInv, Funded, Tokened, Before, moneyVars
<1>2. CASE <<"fund", b>> \in moved /\ Goto(b, "fulfilling") /\ Step(b, "called") /\ UNCHANGED state
  <2>1. Onward(QuoteOf[b]) /\ state'[QuoteOf[b]] = state[QuoteOf[b]]
    BY <1>1, <1>2, RowKept
  <2>2. Proceeds(b, "fulfilling")
    BY <1>1, <1>2 DEF Proceeds
  <2> QED
    BY <1>1, <1>2, <2>1, <2>2, TokenedStep
<1>3. CASE AdvanceState(QuoteOf[b], "RECONCILIATION_REQUIRED") /\ Refuse(b) /\ UNCHANGED fc
  BY <1>1, <1>3, TokenedRefusal DEF Refuse
<1> QED
  BY <1>2, <1>3 DEF Funded

LEMMA BankrPaidKeeps ==
  ASSUME OrderInv, NEW b \in Buys, BankrPaid(b)
  PROVE  OrderInv'
<1> DEFINE q == QuoteOf[b]
<1>1. /\ q \in Quotes /\ Types /\ pc[b] = "bankr" /\ pc[b] \in Tokened \ Before
      /\ fc[b] \notin Active /\ "SINGIT_SETTLED" \in States
      /\ UNCHANGED <<crashes, token, invoice, prepared, inv, seen, asked, moved, delivered>>
  BY QuotesOfCalls, IdleFulfilment
     DEF OrderInv, BankrPaid, Tokened, Before, moneyVars, States, STATE_ORDER
<1>2. CASE CanAdvance(q, "SINGIT_SETTLED") /\ AdvanceState(q, "SINGIT_SETTLED")
           /\ Goto(b, "fulfilling") /\ Step(b, "called")
  <2>1. Onward(q) /\ state'[q] = "SINGIT_SETTLED"
    BY <1>1, <1>2, AdvanceOnward
  <2>2. Proceeds(b, "fulfilling")
    BY <1>1, <1>2 DEF Proceeds
  <2> QED
    BY <1>1, <1>2, <2>1, <2>2, TokenedStep
<1>3. CASE AdvanceState(q, "RECONCILIATION_REQUIRED") /\ Refuse(b) /\ UNCHANGED fc
  BY <1>1, <1>3, TokenedRefusal DEF Refuse
<1> QED
  BY <1>2, <1>3 DEF BankrPaid

\* The tokens are asked to return: nothing was swapped and no invoice paid
LEMMA AskReturn ==
  ASSUME OrderInv, NEW b \in UserBuys, pc[b] = "fulfilling", fc[b] = "preswap",
         asked' = asked \cup {<<"return", b>>}, Goto(b, "returning"),
         UNCHANGED <<crashes, state, fc, token, invoice, prepared, inv, seen, moved, delivered>>
  PROVE  OrderInv'
<1> DEFINE q == QuoteOf[b]
<1>1. /\ q \in Quotes /\ Types /\ QuoteWell(q) /\ b \in Of(q) /\ b \in Calls /\ b \in Buys
      /\ BuyWell(b) /\ CallWell(b) /\ Quote(b) = q
  BY QuotesOfCalls, QuoteParts DEF Of, Calls
<1>2. /\ pc'[b] = "returning" /\ \A a \in Buys \ {b} : pc'[a] = pc[a]
      /\ pc' \in [Buys -> BuySteps]
  BY <1>1 DEF Goto, Types, BuySteps, Tokened
<1>3. \A k, c : Was(k, c)' <=> Was(k, c) \/ (k = "return" /\ c = b)
  BY DEF Was
<1>4. Types'
  <2>1. asked' \subseteq Kinds \X Calls /\ moved' \subseteq asked'
    BY <1>1 DEF Types, Kinds
  <2> QED
    BY <1>1, <1>2, <2>1 DEF Types
<1>5. Elsewhere(q)
  BY <1>1, <1>2 DEF Elsewhere
<1>6. /\ token[q] = b
      /\ \A a \in Buys : QuoteOf[a] = q /\ (Running(a) \/ Was("fund", a)) => a = b
  BY <1>1, TokenedFacts DEF Tokened
<1>7. /\ ~Claimable(q) /\ Kept(q) /\ <<"fund", b>> \in moved /\ Was("fund", b)
      /\ STATE_ORDER[state[q]] >= 20 /\ state[q] # "INVOICE_CREATED"
  <2>1. ~Claimable(q) /\ Kept(q)
    BY <1>1 DEF CallWell, Spends, PastClaim
  <2>2. <<"fund", b>> \in moved /\ state[q] \in States
    BY <1>1 DEF BuyWell, FundsArrived, Types
  <2> QED
    BY <1>1, <2>1, <2>2, ClaimedStates DEF Types, Was
<1>8. Kept(q)' /\ NoPay(q)' /\ ~Untouched(q) /\ Claimable(q)' = Claimable(q)
  BY <1>1, <1>3, <1>7, UntouchedIsUnspent DEF Kept, NoPay, Claimable
<1>9. \A d \in Of(q) : fc[d] \notin Spending
  BY <1>1 DEF QuoteWell, OneClaim, PastClaim, Spending, Paying
<1>10. ASSUME NEW a \in Buys, QuoteOf[a] = q
       PROVE  BuyWell(a)'
  <2>1. BuyWell(a) /\ CallWell(a) /\ a \in Calls
    BY <1>1, <1>10, QuoteParts, QuotesOfCalls DEF Calls
  <2>2. CASE a # b
    <3>1. pc'[a] = pc[a] /\ pc[a] \in Over /\ ~Was("fund", a) /\ ~Was("fund", a)'
          /\ (Was("return", a)' <=> Was("return", a))
      BY <1>2, <1>3, <1>6, <1>10, <2>2 DEF Running
    <3>2. fc[a] \notin Active
      BY <2>1, <3>1 DEF CallWell, Caused, Over
    <3> QED
      BY <1>8, <1>10, <2>1, <3>1, <3>2
         DEF BuyWell, Roles, TokenIsOurs, OnFile, FundsArrived, ReturnsWhole, Accounted, Over,
             Before, Active
  <2>3. CASE a = b
    <3>1. Roles(b)' /\ TokenIsOurs(b)' /\ pc'[b] \notin Before /\ FundsArrived(b)' /\ OnFile(b)'
      BY <1>2, <1>6, <1>7 DEF Roles, TokenIsOurs, Before, FundsArrived, OnFile
    <3>2. ReturnsWhole(b)' /\ Accounted(b)'
      BY <1>2, <1>7, <1>8 DEF ReturnsWhole, Accounted
    <3> QED
      BY <2>3, <3>1, <3>2 DEF BuyWell
  <2> QED
    BY <2>2, <2>3
<1>11. ASSUME NEW d \in Of(q)
       PROVE  CallWell(d)'
  <2>1. d \in Calls /\ Quote(d) = q /\ CallWell(d) /\ fc[d] \notin Spending
    BY <1>1, <1>9, <1>11 DEF QuoteWell, Of
  <2>2. Caused(d)'
    <3>1. d \in BankrCalls /\ fc[d] # "idle" => Was("fund", BuyOf[d])'
      BY <1>3, <2>1 DEF CallWell, Caused
    <3>2. d \in Buys /\ fc[d] \in Active => pc'[d] = "fulfilling"
      BY <1>2, <2>1 DEF CallWell, Caused, Active
    <3> QED
      BY <3>1, <3>2 DEF Caused
  <2>3. Spends(d)' /\ Invoiced(d)'
    BY <1>8, <2>1 DEF CallWell, Spends, Invoiced, Spending, Paying
  <2> QED
    BY <2>2, <2>3 DEF CallWell
<1>12. RowWell(q)'
  BY <1>1, <1>7, <1>8 DEF QuoteWell, RowWell
<1>13. MoneyWell(q)'
  BY <1>1, <1>3 DEF QuoteWell, MoneyWell
<1>14. WalletWell(q)'
  BY <1>1, <1>8 DEF QuoteWell, WalletWell
<1>15. OneAtATime(q)' /\ OneClaim(q)'
  <2>1. OneAtATime(q)'
    BY <1>2, <1>6 DEF OneAtATime, Running
  <2>2. OneClaim(q)'
    BY <1>1 DEF QuoteWell, OneClaim
  <2> QED
    BY <2>1, <2>2
<1>16. QuoteWell(q)'
  BY <1>10, <1>11, <1>12, <1>13, <1>14, <1>15 DEF QuoteWell
<1> QED
  BY <1>1, <1>4, <1>5, <1>16, OneQuote

LEMMA AfterFulfilKeeps ==
  ASSUME OrderInv, NEW b \in Buys, AfterFulfil(b)
  PROVE  OrderInv'
<1>1. /\ QuoteOf[b] \in Quotes /\ Types /\ pc[b] = "fulfilling" /\ pc[b] \in Tokened \ Before
      /\ fc[b] \in {"ok", "preswap", "failed"} /\ fc[b] \notin Active
      /\ UNCHANGED <<crashes, fc, token, invoice, prepared, inv, seen, moved, delivered>>
  BY QuotesOfCalls
     DEF OrderInv, AfterFulfil, Tokened, Before, callVars, Active, Spending, Paying
<1>2. CASE fc[b] = "ok" /\ Goto(b, "writing") /\ UNCHANGED <<state, asked>>
  <2>1. Onward(QuoteOf[b]) /\ state'[QuoteOf[b]] = state[QuoteOf[b]]
    BY <1>1, <1>2, RowKept
  <2>2. Proceeds(b, "writing")
    BY <1>1, <1>2 DEF Proceeds
  <2> QED
    BY <1>1, <1>2, <2>1, <2>2, TokenedStep
<1>3. CASE fc[b] = "preswap" /\ CanReturn(b) /\ asked' = asked \cup {<<"return", b>>}
           /\ Goto(b, "returning") /\ UNCHANGED state
  BY <1>1, <1>3, AskReturn DEF CanReturn
<1>4. CASE AdvanceState(QuoteOf[b], "RECONCILIATION_REQUIRED") /\ Refuse(b) /\ UNCHANGED asked
  BY <1>1, <1>4, TokenedRefusal DEF Refuse
<1> QED
  BY <1>2, <1>3, <1>4 DEF AfterFulfil

LEMMA ReturnedKeeps ==
  ASSUME OrderInv, NEW b \in Buys, Returned(b)
  PROVE  OrderInv'
<1> DEFINE q == QuoteOf[b]
<1>1. /\ q \in Quotes /\ Types /\ pc[b] = "returning" /\ pc[b] \in Tokened \ Before
      /\ fc[b] \notin Active /\ "REFUNDED" \in States /\ Goto(b, "done")
      /\ UNCHANGED <<crashes, fc, token, invoice, prepared, inv, seen, asked, moved, delivered>>
  BY QuotesOfCalls, IdleFulfilment
     DEF OrderInv, Returned, Refuse, Tokened, Before, callVars, moneyVars, States, STATE_ORDER
<1>2. CASE <<"return", b>> \in moved /\ AdvanceState(q, "REFUNDED")
  <2>1. CanAdvance(q, "REFUNDED")
    <3>1. state[q] \in States
      BY <1>1 DEF Types
    <3>2. STATE_ORDER[state[q]] <= 904
      BY <3>1 DEF States, STATE_ORDER
    <3>3. STATE_ORDER[state[q]] \in Int
      BY <3>1, Ranks
    <3> QED
      BY <3>2, <3>3, Ranks DEF CanAdvance
  <2>2. Onward(q) /\ state'[q] = "REFUNDED"
    BY <1>1, <1>2, <2>1, AdvanceOnward
  <2>3. Proceeds(b, "done") /\ "REFUNDED" \in Settled
    BY <1>1 DEF Proceeds, Settled
  <2> QED
    BY <1>1, <1>2, <2>2, <2>3, TokenedStep
<1>3. CASE AdvanceState(q, "RECONCILIATION_REQUIRED")
  BY <1>1, <1>3, TokenedRefusal
<1> QED
  BY <1>2, <1>3 DEF Returned

LEMMA WriteEventKeeps ==
  ASSUME OrderInv, NEW b \in Buys, WriteEvent(b)
  PROVE  OrderInv'
<1> DEFINE q == QuoteOf[b]
<1>1. /\ q \in Quotes /\ Types /\ pc[b] = "writing" /\ pc[b] \in Tokened \ Before
      /\ fc[b] \notin Active /\ Goto(b, "done") /\ BuyWell(b)
      /\ UNCHANGED <<crashes, state, fc, token, invoice, prepared, inv, seen, asked, moved,
                     delivered>>
  BY QuotesOfCalls, QuoteParts, IdleFulfilment
     DEF WriteEvent, Tokened, Before, orderVars, callVars, moneyVars
<1>2. Onward(q) /\ state'[q] = state[q]
  BY <1>1, RowKept
<1>3. b \in UserBuys => state[q] \in Settled
  <2>1. b \in UserBuys => Was("fund", b)
    BY <1>1 DEF BuyWell, FundsArrived, Types, Was
  <2> QED
    BY <1>1, <2>1 DEF BuyWell, Accounted
<1>4. Proceeds(b, "done")
  BY <1>1 DEF Proceeds
<1> QED
  BY <1>1, <1>2, <1>3, <1>4, TokenedStep

LEMMA BuyStepKeeps ==
  ASSUME OrderInv, NEW b \in Buys, BuyStep(b)
  PROVE  OrderInv'
BY ReserveKeeps, NoSourceWalletKeeps, ApprovedByMemoryKeeps, ApprovedByPersonKeeps,
   NotApprovedKeeps, RepriceKeeps, PrepareKeeps, CreateInvoiceKeeps, FundedKeeps, BankrPaidKeeps,
   AfterFulfilKeeps, ReturnedKeeps, WriteEventKeeps
   DEF BuyStep

-----------------------------------------------------------------------------
(* Rows, transfers, the provider, the process *)

\* Only the row of a quote moves: it is quoted, it expires before Bankr settles,
\* or a lookup finds it delivered
LEMMA RowStep ==
  ASSUME OrderInv, NEW q \in Quotes, Onward(q),
         \/ state'[q] = state[q]
         \/ state'[q] = "QUOTED" /\ state[q] = "none"
         \/ state'[q] = "DELIVERED" /\ invoice[q] \in delivered
         \/ state'[q] = "QUOTE_EXPIRED"
            /\ \E f \in FireflyBuys : QuoteOf[f] = q /\ Was("fund", f),
         seen' \subseteq seen \cup {q}, q \in seen' => invoice[q] \in delivered,
         UNCHANGED <<crashes, token, invoice, pc, fc, prepared, inv, asked, moved, delivered>>
  PROVE  OrderInv'
<1>1. Types /\ QuoteWell(q)
  BY QuoteParts
<1>2. Types' /\ Elsewhere(q)
  BY <1>1 DEF Types, Onward, Elsewhere
<1>3. /\ Untouched(q)' = Untouched(q) /\ Unspent(q)' = Unspent(q)
      /\ Kept(q)' = Kept(q) /\ NoReturn(q)' = NoReturn(q) /\ NoPay(q)' = NoPay(q)
      /\ \A k, d : Was(k, d)' = Was(k, d)
      /\ ~Claimable(q) => ~Claimable(q)'
      /\ STATE_ORDER[state[q]] >= 20 => STATE_ORDER[state'[q]] >= 20
  BY AskedSame DEF Onward
<1>4. state[q] = "none" => Untouched(q)
  <2>1. state[q] = "none" => ~(STATE_ORDER[state[q]] >= 20)
    BY Ranks
  <2> QED
    BY <1>1, <2>1 DEF QuoteWell, RowWell
<1>5. invoice[q] \in delivered => ~Unspent(q)
  <2> SUFFICES ASSUME invoice[q] \in delivered, Unspent(q) PROVE FALSE
    OBVIOUS
  <2>1. <<"pay", invoice[q]>> \in asked
    BY <1>1 DEF Types
  <2>2. invoice[q] \in Of(q)
    BY <1>1, <2>1, QuotesOfCalls DEF Types, QuoteWell, RowWell, Of
  <2> QED
    BY <2>1, <2>2 DEF Unspent, Was
<1>6. \A f \in FireflyBuys, a \in Buys \ FireflyBuys :
        QuoteOf[f] = q /\ QuoteOf[a] = q /\ Was("fund", f) =>
          ~Was("fund", a) /\ pc[a] \notin Tokened
  <2> SUFFICES ASSUME NEW f \in FireflyBuys, NEW a \in Buys \ FireflyBuys,
                      QuoteOf[f] = q, QuoteOf[a] = q, Was("fund", f)
               PROVE  ~Was("fund", a) /\ pc[a] \notin Tokened
    OBVIOUS
  <2>1. f \in Buys
    BY BitrefillAssumption
  <2> QED
    BY <1>1, <2>1 DEF QuoteWell, BuyWell, TokenIsOurs
<1>7. ASSUME NEW a \in Buys, QuoteOf[a] = q
      PROVE  BuyWell(a)'
  <2>1. BuyWell(a) /\ CallWell(a)
    BY <1>7, QuoteParts, QuotesOfCalls DEF Calls
  <2>2. Roles(a)' /\ TokenIsOurs(a)' /\ FundsArrived(a)' /\ ReturnsWhole(a)'
        /\ (pc[a] \in Before => Untouched(q)')
    BY <1>3, <1>7, <2>1 DEF BuyWell, Roles, TokenIsOurs, FundsArrived, ReturnsWhole
  <2>3. OnFile(a)'
    <3> SUFFICES ASSUME a \notin FireflyBuys, pc[a] = "funding" \/ fc[a] \in {"called", "claiming"}
                 PROVE  state'[q] = "INVOICE_CREATED" /\ invoice[q] = a /\ Unspent(q)
      BY <1>3, <1>7 DEF OnFile
    <3>1. state[q] = "INVOICE_CREATED" /\ invoice[q] = a /\ Unspent(q)
      BY <1>7, <2>1 DEF BuyWell, OnFile
    <3>2. pc[a] \in Tokened
      BY <2>1 DEF CallWell, Caused, Active, Tokened
    <3> QED
      BY <1>5, <1>6, <1>7, <3>1, <3>2
  <2>4. Accounted(a)'
    <3> SUFFICES ASSUME a \in UserBuys, Was("fund", a), state[q] \in Settled
                 PROVE  state'[q] \in Settled
      BY <1>3, <1>7, <2>1 DEF BuyWell, Accounted
    <3>1. a \notin FireflyBuys /\ state[q] # "none"
      BY QuotesOfCalls DEF Settled
    <3> QED
      BY <1>6, <1>7, <3>1 DEF Settled
  <2> QED
    BY <1>7, <2>2, <2>3, <2>4 DEF BuyWell
<1>8. ASSUME NEW d \in Of(q)
      PROVE  CallWell(d)'
  <2>1. d \in Calls /\ Quote(d) = q /\ CallWell(d)
    BY <1>1, <1>8 DEF QuoteWell, Of
  <2> QED
    BY <1>3, <2>1 DEF CallWell, Caused, Spends, Invoiced
<1>9. RowWell(q)'
  <2>1. Untouched(q) \/ STATE_ORDER[state'[q]] >= 20
    BY <1>1, <1>3 DEF QuoteWell, RowWell
  <2> QED
    BY <1>1, <1>3, <2>1 DEF QuoteWell, RowWell
<1>10. MoneyWell(q)'
  BY <1>1, <1>3 DEF QuoteWell, MoneyWell
<1>11. WalletWell(q)'
  <2>1. ByWallet(q) => \A f \in FireflyBuys : QuoteOf[f] # q
    BY BitrefillAssumption DEF ByWallet
  <2> QED
    BY <1>1, <1>3, <1>4, <2>1 DEF QuoteWell, WalletWell, ByWallet
<1>12. OneAtATime(q)' /\ OneClaim(q)'
  BY <1>1 DEF QuoteWell, OneAtATime, OneClaim, Running
<1>13. QuoteWell(q)'
  BY <1>7, <1>8, <1>9, <1>10, <1>11, <1>12 DEF QuoteWell
<1> QED
  BY <1>2, <1>13, OneQuote

LEMMA QuoteSavedKeeps ==
  ASSUME OrderInv, NEW q \in Quotes, QuoteSaved(q)
  PROVE  OrderInv'
<1>1. /\ state[q] = "none" /\ state' = [state EXCEPT ![q] = "QUOTED"] /\ Types
      /\ UNCHANGED <<crashes, token, invoice, pc, fc, prepared, inv, seen, asked, moved, delivered>>
  BY DEF QuoteSaved, callVars, moneyVars, OrderInv
<1>2. /\ state' \in [Quotes -> States] /\ state'[q] = "QUOTED"
      /\ \A p \in Quotes \ {q} : state'[p] = state[p]
  BY <1>1 DEF Types, States, STATE_ORDER
<1>3. Claimable(q) /\ ~(STATE_ORDER[state[q]] >= 20)
  BY <1>1, Ranks, ClaimedStates
<1>4. Onward(q)
  BY <1>2, <1>3 DEF Onward
<1>5. q \in seen => invoice[q] \in delivered
  BY DEF OrderInv, QuoteWell, RowWell
<1> QED
  BY <1>1, <1>2, <1>4, <1>5, RowStep

LEMMA LookupKeeps ==
  ASSUME OrderInv, NEW q \in Quotes, Lookup(q)
  PROVE  OrderInv'
<1>1. Onward(q) /\ state'[q] = state[q]
  BY RowKept DEF OrderInv, Lookup, orderVars
<1> QED
  BY <1>1, RowStep DEF Lookup, orderVars, callVars, moneyVars

LEMMA LookupAdvanceKeeps ==
  ASSUME OrderInv, NEW q \in Quotes, LookupAdvance(q)
  PROVE  OrderInv'
<1>1. Types /\ "DELIVERED" \in States /\ AdvanceState(q, "DELIVERED")
      /\ q \in seen /\ seen' = seen \ {q}
      /\ UNCHANGED <<crashes, token, invoice, pc, fc, prepared, inv, asked, moved, delivered>>
  BY DEF OrderInv, LookupAdvance, States, STATE_ORDER, callVars, moneyVars
<1>2. Onward(q) /\ state'[q] \in {state[q], "DELIVERED"}
  BY <1>1, AdvanceOnward
<1>3. invoice[q] \in delivered
  BY <1>1 DEF OrderInv, QuoteWell, RowWell
<1> QED
  BY <1>1, <1>2, <1>3, RowStep

LEMMA SettlementPrepareKeeps ==
  ASSUME OrderInv, NEW b \in Buys, SettlementPrepare(b)
  PROVE  OrderInv'
<1> DEFINE q == QuoteOf[b]
<1>1. /\ q \in Quotes /\ Types /\ "QUOTE_EXPIRED" \in States /\ b \in FireflyBuys /\ Was("fund", b)
      /\ AdvanceState(q, "QUOTE_EXPIRED") \/ UNCHANGED state
  BY QuotesOfCalls DEF OrderInv, SettlementPrepare, States, STATE_ORDER, Was
<1>2. UNCHANGED <<crashes, token, invoice, pc, fc, prepared, inv, seen, asked, moved, delivered>>
  BY DEF SettlementPrepare, callVars
<1>3. Onward(q) /\ state'[q] \in {state[q], "QUOTE_EXPIRED"}
  BY <1>1, AdvanceOnward, RowKept
<1>4. q \in seen => invoice[q] \in delivered
  BY <1>1 DEF OrderInv, QuoteWell, RowWell
<1> QED
  BY <1>1, <1>2, <1>3, <1>4, RowStep

LEMMA MoneyMovesKeeps ==
  ASSUME OrderInv, MoneyMoves
  PROVE  OrderInv'
<1>1. /\ moved \subseteq moved' /\ moved' \subseteq asked
      /\ UNCHANGED <<crashes, state, token, invoice, pc, fc, prepared, inv, seen, asked, delivered>>
  BY DEF OrderInv, Types, MoneyMoves, orderVars, callVars
<1>2. Types'
  BY <1>1 DEF OrderInv, Types
<1> QED
  BY <1>1, <1>2, NoQuote

LEMMA ProviderDeliversKeeps ==
  ASSUME OrderInv, NEW i, ProviderDelivers(i)
  PROVE  OrderInv'
<1>1. /\ delivered' = delivered \cup {i} /\ <<"pay", i>> \in moved
      /\ UNCHANGED <<crashes, state, token, invoice, pc, fc, prepared, inv, seen, asked, moved>>
  BY DEF ProviderDelivers, orderVars, callVars
<1>2. Types'
  BY <1>1 DEF OrderInv, Types
<1> QED
  BY <1>1, <1>2, NoQuote

LEMMA TickKeeps ==
  ASSUME OrderInv,
         UNCHANGED <<crashes, state, token, invoice, pc, fc, prepared, inv, seen, asked, moved,
                     delivered>>
  PROVE  OrderInv'
<1>1. Types'
  BY DEF OrderInv, Types
<1> QED
  BY <1>1, NoQuote

LEMMA CrashKeeps ==
  ASSUME OrderInv, Crash
  PROVE  OrderInv'
<1>1. /\ Types /\ crashes' = crashes + 1 /\ seen' = {}
      /\ UNCHANGED <<state, token, invoice, prepared, inv, asked, moved, delivered>>
  BY DEF OrderInv, Crash, orderVars, moneyVars
<1>2. /\ \A b \in Buys : pc'[b] \in Over
      /\ \A c \in Calls : fc'[c] \in Over /\ (fc[c] = "idle" => fc'[c] = "idle")
      /\ pc' \in [Buys -> BuySteps] /\ fc' \in [Calls -> CallSteps]
  BY DEF Crash, Running, Over, BuySteps, CallSteps
<1>3. Types' /\ crashes' # 0
  BY <1>1, <1>2 DEF Types
<1>4. ASSUME NEW q \in Quotes
      PROVE  QuoteWell(q)'
  <2>1. QuoteWell(q)
    BY DEF OrderInv
  <2>2. /\ Untouched(q)' = Untouched(q) /\ Unspent(q)' = Unspent(q)
        /\ Kept(q)' = Kept(q) /\ NoReturn(q)' = NoReturn(q) /\ NoPay(q)' = NoPay(q)
        /\ \A k, d : Was(k, d)' = Was(k, d)
        /\ Claimable(q)' = Claimable(q)
    BY <1>1, AskedSame DEF Claimable
  <2>3. ASSUME NEW b \in Buys, QuoteOf[b] = q
        PROVE  BuyWell(b)'
    <3>1. BuyWell(b) /\ pc'[b] \in Over /\ fc'[b] \in Over
      BY <1>2, <2>3, QuoteParts DEF Calls
    <3>2. Roles(b)' /\ pc'[b] \notin Before /\ OnFile(b)' /\ FundsArrived(b)' /\ Accounted(b)'
      BY <1>3, <3>1 DEF Roles, Before, OnFile, FundsArrived, Accounted, Over
    <3>3. TokenIsOurs(b)' /\ ReturnsWhole(b)'
      BY <1>1, <2>2, <2>3, <3>1 DEF BuyWell, TokenIsOurs, ReturnsWhole, Over, Tokened
    <3> QED
      BY <3>2, <3>3 DEF BuyWell
  <2>4. ASSUME NEW d \in Of(q)
        PROVE  CallWell(d)'
    <3>1. d \in Calls /\ CallWell(d)
      BY <2>1, <2>4 DEF QuoteWell, Of
    <3>2. fc'[d] \in Over /\ (fc[d] = "idle" => fc'[d] = "idle")
      BY <1>2, <3>1
    <3> QED
      BY <1>1, <2>2, <3>1, <3>2
         DEF CallWell, Caused, Spends, Invoiced, Over, Active, PastClaim, Spending, Paying
  <2>5. RowWell(q)' /\ MoneyWell(q)' /\ WalletWell(q)'
    BY <1>1, <2>1, <2>2 DEF QuoteWell, RowWell, MoneyWell, WalletWell
  <2>6. OneAtATime(q)' /\ OneClaim(q)'
    BY <1>2 DEF OneAtATime, OneClaim, Running, Over, Of, PastClaim, Spending, Paying
  <2> QED
    BY <2>3, <2>4, <2>5, <2>6 DEF QuoteWell
<1> QED
  BY <1>3, <1>4 DEF OrderInv

LEMMA OrderInitially == Init => OrderInv
<1> SUFFICES ASSUME Init PROVE OrderInv
  OBVIOUS
<1>1. Types
  BY DEF Init, Types, States, STATE_ORDER, BuySteps, CallSteps
<1>2. ASSUME NEW q \in Quotes
      PROVE  QuoteWell(q)
  <2>1. /\ asked = {} /\ \A b \in Buys : pc[b] \in Over
        /\ \A c \in Calls : fc[c] = "idle"
        /\ prepared = {} /\ seen = {} /\ state[q] = "none" /\ invoice[q] = Nobody
    BY <1>2 DEF Init, Over
  <2>2. Untouched(q) /\ Unspent(q)
    BY <2>1 DEF Untouched, Unspent, Was
  <2>3. \A b \in Buys : BuyWell(b)
    BY <2>1 DEF BuyWell, Roles, TokenIsOurs, OnFile, FundsArrived, ReturnsWhole, Accounted, Over,
                Before, Tokened, Was, Calls
  <2>4. \A c \in Of(q) : CallWell(c)
    BY <2>1 DEF CallWell, Caused, Spends, Invoiced, Of, Active, PastClaim, Spending, Paying
  <2>5. RowWell(q) /\ MoneyWell(q) /\ WalletWell(q)
    BY <2>1, <2>2 DEF RowWell, MoneyWell, WalletWell, Was
  <2>6. OneAtATime(q) /\ OneClaim(q)
    BY <2>1 DEF OneAtATime, OneClaim, Running, Of, PastClaim, Spending, Paying
  <2> QED
    BY <2>3, <2>4, <2>5, <2>6 DEF QuoteWell
<1> QED
  BY <1>1, <1>2 DEF OrderInv

\* Every step keeps the invariant
LEMMA OrderStep == OrderInv /\ [Next]_vars => OrderInv'
<1> SUFFICES ASSUME OrderInv, [Next]_vars PROVE OrderInv'
  OBVIOUS
<1>1. CASE UNCHANGED vars \/ Tick
  BY <1>1, TickKeeps DEF vars, Tick, orderVars, callVars, moneyVars
<1>2. ASSUME NEW q \in Quotes, QuoteSaved(q) \/ Lookup(q) \/ LookupAdvance(q)
      PROVE  OrderInv'
  BY <1>2, QuoteSavedKeeps, LookupKeeps, LookupAdvanceKeeps
<1>3. ASSUME NEW b \in Buys, Begin(b) \/ SettlementPrepare(b) \/ BuyStep(b)
      PROVE  OrderInv'
  BY <1>3, BeginKeeps, SettlementPrepareKeeps, BuyStepKeeps
<1>4. ASSUME NEW c \in BankrCalls, BankrCalls_Fulfil(c)
      PROVE  OrderInv'
  BY <1>4, BankrCallKeeps
<1>5. ASSUME NEW c \in Calls, CallStep(c) \/ ProviderDelivers(c)
      PROVE  OrderInv'
  BY <1>5, CallStepKeeps, ProviderDeliversKeeps
<1> QED
  BY <1>1, <1>2, <1>3, <1>4, <1>5, MoneyMovesKeeps, CrashKeeps DEF Next

-----------------------------------------------------------------------------
(* Theorems *)

LEMMA AtMostOne ==
  ASSUME NEW S, \A x, y \in S : x = y
  PROVE  Cardinality(S) <= 1
<1>1. CASE S = {}
  BY <1>1, FS_EmptySet
<1>2. CASE S # {}
  <2>1. PICK x : x \in S
    BY <1>2
  <2>2. S = {x}
    BY <2>1
  <2> QED
    BY <2>2, FS_Singleton
<1> QED
  BY <1>1, <1>2

\* The invariant everything below follows from: the slot of the buyer, the claim
\* of the row, and what each step of a buy or a fulfilment may rely on
THEOREM OrderInvariance == Spec => []OrderInv
BY OrderInitially, OrderStep, PTL DEF Spec

\* Of a quote at most one invoice is paid, one swap made and one wallet asked,
\* whatever calls, crashes and late answers there are (try_mark_fulfilling and
\* the purchase slot)
THEOREM PaidOnce == Spec => []OnePaymentPerOrder
<1>1. ASSUME OrderInv, NEW q \in Quotes, NEW kind \in {"pay", "swap", "fund"}
      PROVE  Cardinality({m \in Asked(q) : m[1] = kind}) <= 1
  <2> DEFINE S == {m \in Asked(q) : m[1] = kind}
  <2>1. \A m \in S : m = <<kind, m[2]>> /\ m[2] \in Of(q) /\ Was(kind, m[2])
    BY <1>1 DEF OrderInv, Types, Asked, Was
  <2>2. \A c, d \in Of(q) : Was(kind, c) /\ Was(kind, d) => c = d
    <3> SUFFICES ASSUME NEW c \in Of(q), NEW d \in Of(q), Was(kind, c), Was(kind, d)
                 PROVE  c = d
      OBVIOUS
    <3>1. MoneyWell(q)
      BY <1>1, QuoteParts DEF QuoteWell
    <3>2. CASE kind = "fund"
      <4>1. c \in Buys /\ d \in Buys /\ QuoteOf[c] = q /\ QuoteOf[d] = q
        BY <3>1, <3>2, QuotesOfCalls DEF MoneyWell, Of
      <4> QED
        BY <1>1, <3>2, <4>1, QuoteParts DEF BuyWell, TokenIsOurs
    <3> QED
      BY <3>1, <3>2 DEF MoneyWell
  <2>3. \A x, y \in S : x = y
    <3> SUFFICES ASSUME NEW x \in S, NEW y \in S PROVE x = y
      OBVIOUS
    <3>1. x = <<kind, x[2]>> /\ y = <<kind, y[2]>> /\ x[2] = y[2]
      BY <2>1, <2>2
    <3> QED
      BY <3>1
  <2> QED
    BY <2>3, AtMostOne
<1>2. OrderInv => OnePaymentPerOrder
  BY <1>1 DEF OnePaymentPerOrder
<1> QED
  BY <1>2, OrderInvariance, PTL

\* What was asked for in a quote, as pairs
LEMMA AskedPairs ==
  ASSUME OrderInv, NEW q \in Quotes
  PROVE  /\ Untouched(q) => Asked(q) = {}
         /\ Kept(q) => \A m \in Asked(q) : m[1] \notin {"swap", "pay"}
<1>1. \A m \in Asked(q) : m[1] \in Kinds /\ m[2] \in Of(q) /\ m = <<m[1], m[2]>> /\ Was(m[1], m[2])
  BY DEF OrderInv, Types, Asked, Was
<1>2. Untouched(q) => Asked(q) = {}
  BY <1>1 DEF Untouched
<1>3. Kept(q) => \A m \in Asked(q) : m[1] \notin {"swap", "pay"}
  BY <1>1 DEF Kept
<1> QED
  BY <1>2, <1>3

\* The row says what became of the money (advance_state and its recovery)
THEOREM RowsTellTheTruth == Spec => []StatesTellTheTruth
<1>1. ASSUME OrderInv, NEW q \in Quotes
      PROVE  /\ ByWallet(q)
                /\ state[q] \in {"QUOTED", "USER_APPROVED", "QUOTE_EXPIRED", "USER_REJECTED"}
                  => Asked(q) = {}
             /\ \A i \in Of(q) : <<"pay", i>> \in asked =>
                  invoice[q] = i /\ (ByWallet(q) => CanAdvance(q, "DELIVERED"))
             /\ state[q] = "DELIVERED" => invoice[q] \in delivered
  <2>1. Types /\ RowWell(q) /\ MoneyWell(q) /\ WalletWell(q) /\ state[q] \in States
    BY <1>1, QuoteParts DEF QuoteWell, Types
  <2>2. ByWallet(q)
        /\ state[q] \in {"QUOTED", "USER_APPROVED", "QUOTE_EXPIRED", "USER_REJECTED"}
        => Asked(q) = {}
    BY <1>1, <2>1, AskedPairs DEF WalletWell
  <2>3. ASSUME NEW i \in Of(q), <<"pay", i>> \in asked, ByWallet(q)
        PROVE  CanAdvance(q, "DELIVERED")
    <3>1. ~Untouched(q) /\ ~Kept(q)
      BY <2>3 DEF Untouched, Kept, Was, Kinds
    <3>2. state[q] \notin {"QUOTE_EXPIRED", "USER_REJECTED", "FIREFLY_REJECTED"}
      BY <2>1, <2>3, <3>1 DEF WalletWell
    <3>3. state[q] # "REFUNDED"
      <4> SUFFICES ASSUME state[q] = "REFUNDED" PROVE FALSE
        OBVIOUS
      <4>1. PICK b \in Buys : QuoteOf[b] = q /\ <<"return", b>> \in moved
        BY <2>1 DEF RowWell
      <4>2. Was("return", b) /\ BuyWell(b)
        BY <1>1, <2>1, <4>1, QuoteParts DEF Types, Was
      <4> QED
        BY <3>1, <4>1, <4>2 DEF BuyWell, ReturnsWhole
    <3> QED
      BY <2>1, <3>2, <3>3 DEF CanAdvance, States, STATE_ORDER, RECOVERABLE_TO_DELIVERED
  <2>4. \A i \in Of(q) : <<"pay", i>> \in asked => invoice[q] = i
    BY <2>1 DEF MoneyWell, Was
  <2>5. state[q] = "DELIVERED" => invoice[q] \in delivered
    BY <2>1 DEF RowWell
  <2> QED
    BY <2>2, <2>3, <2>4, <2>5
<1>2. OrderInv => StatesTellTheTruth
  BY <1>1 DEF StatesTellTheTruth
<1> QED
  BY <1>2, OrderInvariance, PTL

\* The return of a buyer's tokens is asked for only before any swap or payment,
\* and REFUNDED means that they came back (executeStagedSwap's pre_swap stage)
THEOREM RefundsAreWhole == Spec => []RefundIsWhole
<1>1. ASSUME OrderInv, NEW q \in Quotes
      PROVE  state[q] = "REFUNDED" => \E b \in Buys : QuoteOf[b] = q /\ <<"return", b>> \in moved
  BY <1>1, QuoteParts DEF QuoteWell, RowWell
<1>2. ASSUME OrderInv, NEW q \in Quotes, NEW b \in Buys, QuoteOf[b] = q, <<"return", b>> \in asked
      PROVE  <<"fund", b>> \in moved /\ \A m \in Asked(q) : m[1] \notin {"swap", "pay"}
  <2>1. <<"fund", b>> \in moved /\ Kept(q)
    BY <1>2, QuoteParts DEF BuyWell, ReturnsWhole, Was
  <2> QED
    BY <1>2, <2>1, AskedPairs
<1>3. OrderInv => RefundIsWhole
  BY <1>1, <1>2 DEF RefundIsWhole
<1> QED
  BY <1>3, OrderInvariance, PTL

\* A buyer whose wallet was asked is not forgotten by a process that lives: the
\* purchase ends purchased, refunded or reconciled
THEOREM FundsAreAccountedFor == Spec => []FundedIsAccountedFor
<1>1. ASSUME OrderInv, NEW b \in UserBuys, pc[b] = "done", <<"fund", b>> \in asked, crashes = 0
      PROVE  state[QuoteOf[b]] \in Settled
  BY <1>1, QuoteParts, QuotesOfCalls DEF BuyWell, Accounted, Was
<1>2. OrderInv => FundedIsAccountedFor
  BY <1>1 DEF FundedIsAccountedFor, Settled
<1> QED
  BY <1>2, OrderInvariance, PTL
=============================================================================
