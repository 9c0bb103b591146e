---------------------------- MODULE OperatorLane ----------------------------
(***************************************************************************)
(* The operator's lane of the gateway: purchases from the operator's own    *)
(* accounts under policies approved on the Firefly device.  The handlers    *)
(* /approve-policy, /approve-payment, /agent/buy-probe, /agent/buy-tool     *)
(* without a user, /agent/buy-x402 and /agent/top-up-llm-credits run in     *)
(* threads of their own and hold the Firefly lock from end to end.          *)
(*                                                                         *)
(* A hash is the thing it commits to: a policy, or a policy and an offer.   *)
(* An offer is what a seller asks for: [intent, amount, class], the class   *)
(* standing for asset and purpose.  The device and the sellers are          *)
(* external.  The state file's single-policy layout of older deployments    *)
(* is left out, and so is /execute-payment: it pays what it is given and    *)
(* touches none of this state.                                              *)
(***************************************************************************)
EXTENDS Naturals, Sequences, SequencesExt, FiniteSets, Functions

CONSTANTS
    Requests,                         \* HTTP requests
    PolicyReqs, ApproveReqs, ToolReqs, OtherReqs,   \* by handler
    PolicyOf,                         \* the policy an /approve-policy carries
    KeyOf,                            \* _buy_tool_cache_key of a buy-tool
    OffersOf,                         \* what the seller may ask of a request
    PaysAsSeen,                       \* the requests paid from the 402 that was read
    Prices,                           \* amounts a seller may ask for
    Policies, Class, MaxPayment, Budget,
    MaxCrashes,                       \* bound on restarts
    None

VARIABLES
    pc,        \* where the thread of a request is
    lock,      \* firefly_lock: the request that holds it
    policies,  \* policyApprovals, in the order they were first stored
    book,      \* policySpend: [spent, intents] of each policy
    chosen,    \* the policy and the offer a request is about
    prompts,   \* what the device may still answer
    yes,       \* how often a person pressed yes to each hash
    payments,  \* the payments that left, in order
    recorded,  \* the requests whose payment record_payment wrote down
    cache,     \* buy_tool_response_cache: the request whose receipt it keeps
    crashes

store == <<policies, book, recorded>>
device == <<prompts, yes>>
vars == <<pc, lock, store, chosen, device, payments, cache, crashes>>

Buyers == ToolReqs \cup OtherReqs
Keys == {KeyOf[r] : r \in ToolReqs}
Offers == UNION {OffersOf[r] : r \in Requests \ PolicyReqs}
Subjects == {[policy |-> p, offer |-> o] : p \in Policies, o \in Offers}
Hashes == Subjects \cup {[policy |-> p, offer |-> None] : p \in Policies}

ASSUME KindsAssumption ==
    /\ Requests = PolicyReqs \cup ApproveReqs \cup Buyers
    /\ PolicyReqs \cap (ApproveReqs \cup Buyers) = {}
    /\ ApproveReqs \cap Buyers = {} /\ ToolReqs \cap OtherReqs = {}

ASSUME DataAssumption ==
    /\ PolicyOf \in [PolicyReqs -> Policies] /\ None \notin Requests
    /\ \A o \in Offers : o.amount \in Nat
    /\ Prices \subseteq Nat /\ MaxCrashes \in Nat

TypeOK ==
    /\ pc \in [Requests -> {"idle", "looked", "locked", "asking", "approved", "paid",
                            "result", "closing", "done"}]
    /\ lock \in Requests \cup {None}
    /\ policies \in Seq(Policies)
    /\ book \in [Policies -> [spent : Nat, intents : SUBSET {o.intent : o \in Offers}]]
    /\ chosen \in [Requests -> Hashes \cup {None}]
    /\ prompts \subseteq Hashes /\ yes \in [Hashes -> Nat]
    /\ payments \in Seq([by : Requests, policy : Policies, offer : Offers, charged : Nat])
    /\ cache \in [Keys -> ToolReqs \cup {None}]
    /\ recorded \subseteq Buyers

Init ==
    /\ pc = [r \in Requests |-> "idle"] /\ lock = None
    /\ policies = <<>> /\ book = [p \in Policies |-> [spent |-> 0, intents |-> {}]]
    /\ chosen = [r \in Requests |-> None]
    /\ prompts = {} /\ yes = [h \in Hashes |-> 0] /\ payments = <<>> /\ recorded = {}
    /\ cache = [k \in Keys |-> None]
    /\ crashes = 0

Goto(r, s) == pc' = [pc EXCEPT ![r] = s]

\* _read_buy_tool_cache, before the lock: a receipt on file answers
Look(r) ==
    /\ r \in ToolReqs /\ pc[r] = "idle"
    /\ Goto(r, IF cache[KeyOf[r]] # None THEN "done" ELSE "looked")
    /\ UNCHANGED <<lock, store, chosen, device, payments, cache, crashes>>

\* BUY_TOOL_DUPLICATE_SUPPRESSION_SECONDS pass
Expire(k) ==
    /\ cache[k] # None
    /\ cache' = [cache EXCEPT ![k] = None]
    /\ UNCHANGED <<pc, lock, store, chosen, device, payments, crashes>>

\* _acquire_firefly does not wait: busy is 409
Acquire(r) ==
    /\ pc[r] = IF r \in ToolReqs THEN "looked" ELSE "idle"
    /\ IF lock = None THEN lock' = r /\ Goto(r, "locked") ELSE UNCHANGED lock /\ Goto(r, "done")
    /\ UNCHANGED <<store, chosen, device, payments, cache, crashes>>

\* A mutant: only a request that got to its end gives the lock back.
Release_OnSuccess(r) ==
    /\ pc[r] = "closing"
    /\ Goto(r, "done") /\ lock' = IF r \in recorded THEN None ELSE lock
    /\ chosen' = [chosen EXCEPT ![r] = None]
    /\ UNCHANGED <<store, device, payments, cache, crashes>>

\* finally: _release_firefly
Release(r) ==
    /\ pc[r] = "closing"
    /\ Goto(r, "done") /\ lock' = None
    /\ chosen' = [chosen EXCEPT ![r] = None]
    /\ UNCHANGED <<store, device, payments, cache, crashes>>

\* read_policy_for_requirement: the oldest stored policy that fits, not the newest
Matching(p, o) ==
    \E i \in DOMAIN policies :
      /\ policies[i] = p /\ Class[p] = o.class
      /\ \A j \in 1 .. i - 1 : Class[policies[j]] # o.class

\* validate_policy_allows
Allows(p, o) ==
    /\ o.intent \notin book[p].intents
    /\ o.amount <= MaxPayment[p]
    /\ book[p].spent + o.amount <= Budget[p]

\* What a request asks the device about: a policy, a payment somebody hands
\* in, or an offer of a seller that the policy allows.
Askable(r) ==
    IF r \in PolicyReqs THEN {[policy |-> PolicyOf[r], offer |-> None]}
    ELSE IF r \in ApproveReqs THEN [policy : Policies, offer : OffersOf[r]]
    ELSE {h \in [policy : Policies, offer : OffersOf[r]] :
            Matching(h.policy, h.offer) /\ Allows(h.policy, h.offer)}

\* A mutant: the lock is given back while the person decides.
Ask_Unlocked(r) ==
    /\ pc[r] = "locked"
    /\ \E h \in Askable(r) :
         /\ chosen' = [chosen EXCEPT ![r] = h]
         /\ prompts' = prompts \cup {h}
    /\ Goto(r, "asking") /\ lock' = None
    /\ UNCHANGED <<store, yes, payments, cache, crashes>>

\* The 402 of the seller, the policy, validate_policy_allows, and the prompt
Ask(r) ==
    /\ pc[r] = "locked"
    /\ \E h \in Askable(r) :
         /\ chosen' = [chosen EXCEPT ![r] = h]
         /\ prompts' = prompts \cup {h}
    /\ Goto(r, "asking")
    /\ UNCHANGED <<lock, store, yes, payments, cache, crashes>>

\* An exception anywhere: no 402, no policy that allows it, a device that does
\* not answer, a payer that failed before the money left, a file not written
Fail(r) ==
    /\ pc[r] \in {"locked", "asking", "approved", "paid", "result"}
    /\ Goto(r, "closing")
    /\ UNCHANGED <<lock, store, chosen, device, payments, cache, crashes>>

\* A mutant: any yes will do.
IsFor_Any(h, r) == chosen[r] # None

\* parse_payment_approval and the comparison after it: "yes" has to be to this hash
IsFor(h, r) == h = chosen[r]

\* _read_until_ok returns the answer to some prompt the device still shows,
\* not always to the last one: a prompt outlives the request that timed out
Approved(r) ==
    /\ pc[r] = "asking"
    /\ \E h \in prompts :
         /\ prompts' = prompts \ {h} /\ yes' = [yes EXCEPT ![h] = @ + 1]
         /\ Goto(r, IF ~IsFor(h, r) \/ r \in ApproveReqs THEN "closing" ELSE "approved")
    /\ UNCHANGED <<lock, store, chosen, payments, cache, crashes>>

\* ... a refusal, whatever prompt it belongs to, is a result and not an error
\* for a purchase; /approve-policy only compares the hash, not the answer
Declined(r) ==
    /\ pc[r] = "asking"
    /\ \E h \in prompts :
         /\ prompts' = prompts \ {h}
         /\ Goto(r, IF r \in Buyers THEN "result"
                    ELSE IF r \in PolicyReqs /\ IsFor(h, r) THEN "approved" ELSE "closing")
    /\ UNCHANGED <<lock, store, chosen, yes, payments, cache, crashes>>

\* A mutant: approving a policy again opens a new budget.
WritePolicy_Resets(r) ==
    /\ r \in PolicyReqs /\ pc[r] = "approved"
    /\ policies' = IF PolicyOf[r] \in ToSet(policies) THEN policies
                   ELSE Append(policies, PolicyOf[r])
    /\ book' = [book EXCEPT ![PolicyOf[r]].spent = 0]
    /\ Goto(r, "closing")
    /\ UNCHANGED <<lock, recorded, chosen, device, payments, cache, crashes>>

\* write_policy: a policy stored before keeps its place and its spend
WritePolicy(r) ==
    /\ r \in PolicyReqs /\ pc[r] = "approved"
    /\ policies' = IF PolicyOf[r] \in ToSet(policies) THEN policies
                   ELSE Append(policies, PolicyOf[r])
    /\ Goto(r, "closing")
    /\ UNCHANGED <<lock, book, recorded, chosen, device, payments, cache, crashes>>

\* The payer is given the URL only and reads the price again, except where it
\* signs from the 402 that was approved
Charge(r) == IF r \in PaysAsSeen THEN {chosen[r].offer.amount} ELSE Prices

\* A mutant: a payment that raised is tried again.
Pay_Retried(r) ==
    /\ r \in Buyers /\ pc[r] = "approved"
    /\ Len(payments) < 2 * Cardinality(Requests)
    /\ \E c \in Charge(r) : payments' = Append(payments,
           [by |-> r, policy |-> chosen[r].policy, offer |-> chosen[r].offer, charged |-> c])
    /\ \E s \in {"paid", "approved"} : Goto(r, s)
    /\ UNCHANGED <<lock, store, chosen, device, cache, crashes>>

\* Executor, signature builder, Bankr CLI or CDP client: the money leaves and
\* the call returns, or raises (a denied resource, a timeout)
Pay(r) ==
    /\ r \in Buyers /\ pc[r] = "approved"
    /\ \E c \in Charge(r) : payments' = Append(payments,
           [by |-> r, policy |-> chosen[r].policy, offer |-> chosen[r].offer, charged |-> c])
    /\ \E s \in {"paid", "closing"} : Goto(r, s)
    /\ UNCHANGED <<lock, store, chosen, device, cache, crashes>>

\* A mutant: the intent is not kept.
Record_SpendOnly(r) ==
    LET h == chosen[r] IN
    /\ pc[r] = "paid"
    /\ book' = [book EXCEPT ![h.policy].spent = @ + h.offer.amount]
    /\ recorded' = recorded \cup {r}
    /\ Goto(r, "result")
    /\ UNCHANGED <<lock, policies, chosen, device, payments, cache, crashes>>

\* record_payment
Record(r) ==
    LET h == chosen[r] IN
    /\ pc[r] = "paid"
    /\ book' = [book EXCEPT ![h.policy] = [spent |-> @.spent + h.offer.amount,
                                           intents |-> @.intents \cup {h.offer.intent}]]
    /\ recorded' = recorded \cup {r}
    /\ Goto(r, "result")
    /\ UNCHANGED <<lock, policies, chosen, device, payments, cache, crashes>>

\* The event and, for a tool, _store_buy_tool_cache, of a refusal as well
Answer(r) ==
    /\ pc[r] = "result"
    /\ IF r \in ToolReqs THEN cache' = [cache EXCEPT ![KeyOf[r]] = r] ELSE UNCHANGED cache
    /\ Goto(r, "closing")
    /\ UNCHANGED <<lock, store, chosen, device, payments, crashes>>

\* The gateway restarts: its state file and the device stay
Crash ==
    /\ crashes < MaxCrashes
    /\ crashes' = crashes + 1
    /\ pc' = [r \in Requests |-> IF pc[r] = "idle" THEN "idle" ELSE "done"]
    /\ lock' = None /\ chosen' = [r \in Requests |-> None]
    /\ cache' = [k \in Keys |-> None]
    /\ UNCHANGED <<store, device, payments>>

Step(r) ==
    \/ Acquire(r) /\ pc[r] = "looked"
    \/ Ask(r) \/ Fail(r) \/ Approved(r) \/ Declined(r)
    \/ WritePolicy(r) \/ Pay(r) \/ Record(r) \/ Answer(r) \/ Release(r)

Next ==
    \/ \E r \in Requests : Look(r) \/ Acquire(r) \/ Step(r)
    \/ \E k \in Keys : Expire(k)
    \/ Crash

\* A thread goes on once it began: the device is read for 35 seconds and every
\* call to a seller or a command has a timeout.
Spec == Init /\ [][Next]_vars /\ \A r \in Requests : WF_vars(Step(r))
-----------------------------------------------------------------------------
PaymentNos == DOMAIN payments

\* What was paid and written down under a policy stays within the budget the
\* device was asked to approve, however often that policy is approved again,
\* and whatever is decided while another purchase waits: the spend is checked
\* minutes before record_payment adds to it.
AmountAt == [n \in PaymentNos |-> payments[n].offer.amount]
RecordedUnder(p) == {n \in PaymentNos : payments[n].by \in recorded /\ payments[n].policy = p}
BudgetKept == \A p \in Policies : SumFunctionOnSet(AmountAt, RecordedUnder(p)) <= Budget[p]

\* One payment intent is paid a second time under its policy only when the
\* first payment was never written down: the payer raised after the money
\* left, record_payment failed, or the gateway died in between.
PaidAgainOnlyUnrecorded ==
    \A m, n \in PaymentNos :
      /\ m < n
      /\ payments[m].policy = payments[n].policy
      /\ payments[m].offer.intent = payments[n].offer.intent
      => payments[m].by \notin recorded

\* A purchase is paid only after a person pressed yes to that very payment, and
\* paid again only after another press, though the line may still carry answers
\* to prompts of requests that gave up, and a repeat that looked for the receipt
\* before there was one goes on to the device.
PaidFor(h) ==
    {n \in PaymentNos : [policy |-> payments[n].policy, offer |-> payments[n].offer] = h}
PaidWithConsent == \A h \in Subjects : Cardinality(PaidFor(h)) <= yes[h]

\* Whatever becomes of the request that holds it, the device is free again.
LockFreed == []<>(lock = None)

\* What the error of read_policy_for_requirement takes for granted ("No
\* Firefly-approved policy matches"): a policy on file was approved by a press.
PolicyApprovedOnDevice ==
    \A p \in ToSet(policies) : yes[[policy |-> p, offer |-> None]] > 0

\* What CdpBaseX402PaymentClient says approved terms are for: no more leaves
\* than the device was asked about.
PaidAsApproved == \A n \in PaymentNos : payments[n].charged <= payments[n].offer.amount
=============================================================================
