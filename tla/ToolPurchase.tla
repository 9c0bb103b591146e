---------------------------- MODULE ToolPurchase ----------------------------
(***************************************************************************)
(* POST /agent/buy-tool for a managed wallet: the handler threads of       *)
(* _handle_agent_buy_tool_for_user (server.py) over UserSpendLimitStore    *)
(* (SpendLimits) and the claims of the external spending_memory package.   *)
(* Threads interleave between any two calls to the store or the memory;    *)
(* the gateway may crash and restart, which ends every thread and keeps    *)
(* both databases.  An attempt is one HTTP request, and its id is also the *)
(* id of the hold it takes.                                                *)
(***************************************************************************)
EXTENDS SpendLimits

CONSTANTS
  Requests,      \* request ids clients send; a redelivery repeats one
  RequestOf,     \* the request id of each attempt
  MemoryOn,      \* spending_policy configured (SIGN402_SPENDING_MEMORY_ENABLED)
  AskMax,        \* longest wait for a human answer
  PayMax,        \* timeout of the payer
  ClaimTTL,      \* when a held claim may be taken again (external)
  AmbiguousPay,  \* the payer may raise although the money moved
  StoreFaults,   \* a call to the store or the memory may raise
  MaxCrashes     \* bound on crashes

ASSUME ToolAssumption ==
  /\ RequestOf \in [Ids -> Requests]
  /\ MemoryOn \in BOOLEAN /\ AmbiguousPay \in BOOLEAN /\ StoreFaults \in BOOLEAN
  /\ {AskMax, PayMax, ClaimTTL, MaxCrashes} \subseteq Nat

VARIABLES
  step,     \* where each thread is
  lim,      \* the limits it read before reserving
  since,    \* when it began to wait for the human or the payer
  claimed,  \* attempts that hold a claim id
  claims,   \* the memory's claims, by owner and request id (external)
  moved,    \* attempts whose money left the wallet
  misled,   \* attempts to which a call reported a failure it should not have
  crashes

handlerVars == <<step, lim, since, claimed>>
toolVars == <<vars, handlerVars, claims, moved, misled, crashes>>

Attempts == Ids \ DirectIds
Steps == {"idle", "scoped", "reserved", "asking", "approved", "paying", "paid",
          "counted", "remembering", "releasing", "unclaiming", "ended", "dead"}
ClaimKey == Users \X Requests
Key(i) == <<OwnerOf[i], RequestOf[i]>>
Unlimited == [perTx |-> NoLimit, daily |-> NoLimit]
NoClaim == [state |-> "free", at |-> 0, by |-> {}]

ToolInit ==
  /\ Init
  /\ step = [i \in Attempts |-> "idle"]
  /\ lim = [i \in Attempts |-> Unlimited]
  /\ since = [i \in Attempts |-> 0]
  /\ claimed = {}
  /\ claims = [k \in ClaimKey |-> NoClaim]
  /\ moved = {} /\ misled = {}
  /\ crashes = 0

Goto(i, s) == step' = [step EXCEPT ![i] = s]
GoWait(i, s) == Goto(i, s) /\ since' = [since EXCEPT ![i] = now]

\* _user_wallet_spend_scope: the limits are read in a call of their own
ReadScope(i) ==
  /\ step[i] = "idle"
  /\ Goto(i, "scoped")
  /\ lim' = [lim EXCEPT ![i] = LimitSettings(OwnerOf[i])]
  /\ UNCHANGED <<vars, since, claimed, claims, moved, misled, crashes>>

\* A mutant: a refusal is not answered.
ReserveBudget_NoRefusal(i) ==
  /\ step[i] = "scoped"
  /\ Reserve(i, lim[i]) /\ Goto(i, "reserved")
  /\ lim' = [lim EXCEPT ![i] = Unlimited]
  /\ UNCHANGED <<since, claimed, claims, moved, misled, crashes>>

\* _reserve_user_wallet_spend, the hold: no hold, no purchase (the limits
\* read are local to the call and forgotten with it)
ReserveBudget(i) ==
  /\ step[i] = "scoped"
  /\ \/ Reserve(i, lim[i]) /\ Goto(i, "reserved")
     \/ (RefusePerTx(i, lim[i]) \/ RefuseDaily(i, lim[i])) /\ Goto(i, "ended")
  /\ lim' = [lim EXCEPT ![i] = Unlimited]
  /\ UNCHANGED <<since, claimed, claims, moved, misled, crashes>>

\* A mutant: only a settled claim blocks.
Claimable_UnlessSettled(k) == claims[k].state # "settled"

\* policy.authorise (external): PAY takes the claim; a claim already held or
\* settled for this request is a BLOCK.  A held claim ages out, a settled one
\* never does.
Claimable(k) ==
  \/ claims[k].state = "free"
  \/ (claims[k].state = "held" /\ claims[k].at + ClaimTTL <= now)

\* A mutant: a BLOCK returns without giving the hold back.
AuthoriseBlock_KeepsHold(i) ==
  /\ step[i] = "reserved" /\ MemoryOn
  /\ Goto(i, "ended")
  /\ UNCHANGED <<vars, lim, since, claimed, claims, moved, misled, crashes>>

\* _reserve_user_wallet_spend, the decision; a BLOCK or an exception gives
\* the hold back, memory off means ask
AuthorisePay(i) ==
  /\ step[i] = "reserved" /\ MemoryOn /\ Claimable(Key(i))
  /\ claims' = [claims EXCEPT ![Key(i)] = [state |-> "held", at |-> now, by |-> {i}]]
  /\ claimed' = claimed \cup {i}
  /\ Goto(i, "approved")
  /\ UNCHANGED <<vars, lim, since, moved, misled, crashes>>
AuthoriseAsk(i) ==
  /\ step[i] = "reserved"
  /\ GoWait(i, "asking")
  /\ UNCHANGED <<vars, lim, claimed, claims, moved, misled, crashes>>
AuthoriseBlock(i) ==
  /\ step[i] = "reserved" /\ MemoryOn
  /\ Goto(i, "releasing")
  /\ UNCHANGED <<vars, lim, since, claimed, claims, moved, misled, crashes>>

\* request_purchase_approval: the human approves, or declines, does not
\* answer in time, or could not be asked (remember_rejection, then finally)
Approve(i) ==
  /\ step[i] = "asking"
  /\ Goto(i, "approved")
  /\ UNCHANGED <<vars, lim, since, claimed, claims, moved, misled, crashes>>
Decline(i) ==
  /\ step[i] = "asking"
  /\ Goto(i, "releasing")
  /\ UNCHANGED <<vars, lim, since, claimed, claims, moved, misled, crashes>>

\* decrypt the key, then user_x402_buyer; decryption may fail
Submit(i) ==
  /\ step[i] = "approved"
  /\ GoWait(i, "paying")
  /\ UNCHANGED <<vars, lim, claimed, claims, moved, misled, crashes>>
KeyUnavailable(i) ==
  /\ step[i] = "approved"
  /\ Goto(i, "releasing")
  /\ UNCHANGED <<vars, lim, since, claimed, claims, moved, misled, crashes>>

\* The transfer itself, on chain.
MoneyMoves(i) ==
  /\ step[i] = "paying" /\ i \notin moved
  /\ moved' = moved \cup {i}
  /\ UNCHANGED <<vars, handlerVars, claims, misled, crashes>>

\* A mutant: a payment that succeeded is released like one that failed.
PayOk_NotSettled(i) ==
  /\ step[i] = "paying" /\ i \in moved
  /\ Goto(i, "releasing")
  /\ UNCHANGED <<vars, lim, since, claimed, claims, moved, misled, crashes>>

PayOk(i) ==
  /\ step[i] = "paying" /\ i \in moved
  /\ Goto(i, "paid")
  /\ UNCHANGED <<vars, lim, since, claimed, claims, moved, misled, crashes>>
PayRaises(i) ==
  /\ step[i] = "paying"
  /\ \/ i \notin moved /\ UNCHANGED misled
     \/ i \in moved /\ AmbiguousPay /\ misled' = misled \cup {i}
  /\ Goto(i, "releasing")
  /\ UNCHANGED <<vars, lim, since, claimed, claims, moved, crashes>>

\* A mutant: the claim is settled with a null id.
SettleClaim_NullId(i) ==
  /\ step[i] = "counted"
  /\ claims' = [claims EXCEPT ![Key(i)] = [state |-> "settled", at |-> now, by |-> {NoLimit}]]
  /\ Goto(i, "remembering")
  /\ UNCHANGED <<vars, lim, since, claimed, moved, misled, crashes>>

\* _settle_user_wallet_spend, call by call
SettleHold(i) ==
  /\ step[i] = "paid"
  /\ Settle(i)
  /\ Goto(i, IF i \in claimed THEN "counted" ELSE "remembering")
  /\ UNCHANGED <<lim, since, claimed, claims, moved, misled, crashes>>
SettleClaim(i) ==
  /\ step[i] = "counted"
  /\ claims' = [claims EXCEPT ![Key(i)] = [state |-> "settled", at |-> now, by |-> {i}]]
  /\ Goto(i, "remembering")
  /\ UNCHANGED <<vars, lim, since, claimed, moved, misled, crashes>>
RememberSettlement(i) ==
  /\ step[i] = "remembering"
  /\ Goto(i, "ended")
  /\ UNCHANGED <<vars, lim, since, claimed, claims, moved, misled, crashes>>
SettleRaises(i) ==
  /\ StoreFaults /\ step[i] \in {"paid", "counted", "remembering"}
  /\ misled' = misled \cup {i}
  /\ Goto(i, "releasing")
  /\ UNCHANGED <<vars, lim, since, claimed, claims, moved, crashes>>

\* finally, if not settled: _release_user_wallet_spend (which swallows its
\* own failure), then release_claim
ReleaseHold(i) ==
  /\ step[i] = "releasing"
  /\ \/ Release(i) /\ UNCHANGED misled
     \/ StoreFaults /\ misled' = misled \cup {i} /\ UNCHANGED vars
  /\ Goto(i, IF i \in claimed THEN "unclaiming" ELSE "ended")
  /\ UNCHANGED <<lim, since, claimed, claims, moved, crashes>>
ReleaseClaim(i) ==
  /\ step[i] = "unclaiming"
  /\ claims' = IF claims[Key(i)].state = "held" /\ claims[Key(i)].by = {i}
               THEN [claims EXCEPT ![Key(i)] = NoClaim] ELSE claims
  /\ Goto(i, "ended")
  /\ UNCHANGED <<vars, lim, since, claimed, moved, misled, crashes>>

Crash ==
  /\ crashes < MaxCrashes
  /\ crashes' = crashes + 1
  /\ step' = [i \in Attempts |-> IF step[i] \in {"idle", "ended"} THEN step[i] ELSE "dead"]
  /\ UNCHANGED <<vars, lim, since, claimed, claims, moved, misled>>

\* Time passes only while threads wait for the human or the payer, and no
\* longer than their timeouts allow; the steps between are instantaneous.
Pass ==
  /\ Tick
  /\ \A i \in Attempts :
       \/ step[i] \in {"idle", "ended", "dead"}
       \/ (step[i] = "asking" /\ now < since[i] + AskMax)
       \/ (step[i] = "paying" /\ now < since[i] + PayMax)
  /\ UNCHANGED <<handlerVars, claims, moved, misled, crashes>>

\* /agent/spending-limits, at any time
ChangeLimits ==
  /\ \E u \in Users, p, d \in LimitChoices : SetLimits(u, p, d)
  /\ UNCHANGED <<handlerVars, claims, moved, misled, crashes>>

Handler(i) ==
  \/ ReserveBudget(i)
  \/ AuthorisePay(i) \/ AuthoriseAsk(i) \/ AuthoriseBlock(i)
  \/ Approve(i) \/ Decline(i)
  \/ Submit(i) \/ KeyUnavailable(i) \/ PayOk(i) \/ PayRaises(i)
  \/ SettleHold(i) \/ SettleClaim(i) \/ RememberSettlement(i) \/ SettleRaises(i)
  \/ ReleaseHold(i) \/ ReleaseClaim(i)

ToolNext ==
  \/ \E i \in Attempts : ReadScope(i) \/ MoneyMoves(i) \/ Handler(i)
  \/ Crash \/ Pass \/ ChangeLimits

ToolSpec == ToolInit /\ [][ToolNext]_toolVars

\* A thread that was started runs on: the server has a thread per request
\* and every external call has a timeout.
FairToolSpec == ToolSpec /\ \A i \in Attempts : WF_toolVars(Handler(i))
-----------------------------------------------------------------------------
ToolTypeOK ==
  /\ TypeOK
  /\ step \in [Attempts -> Steps]
  /\ lim \in [Attempts -> [perTx : Limit, daily : Limit]]
  /\ since \in [Attempts -> Nat]
  /\ claimed \subseteq Attempts
  /\ claims \in [ClaimKey -> [state : {"free", "held", "settled"}, at : Nat,
                              by : SUBSET Attempts]]
  /\ moved \subseteq Attempts /\ misled \subseteq Attempts
  /\ crashes \in 0..MaxCrashes

HasHold(i) == \E h \in LiveHolds : h.id = i
HasRecord(i) == \E r \in records : r.id = i

\* From the decision to the accounting, the amount of the purchase stays held:
\* no human wait and no slow payer lets the hold lapse before the settlement
\* (AskMax + PayMax < HoldTTL: 120 s and 180 s against 900 s).
PaysUnderHold ==
  \A i \in Attempts : step[i] \in {"asking", "approved", "paying", "paid"} => HasHold(i)

\* Money that left a wallet counts against the daily cap, as a hold or as a
\* record, unless the gateway died under the request or a call that had
\* succeeded was reported to it as failed: every other path accounts for it,
\* for as long as the file keeps the day of the reservation.
KeptOnFile(i) == DayOf(since[i] - AskMax) >= Today - RetentionDays
MovedIsCounted ==
  \A i \in moved :
    step[i] # "dead" /\ i \notin misled /\ KeptOnFile(i) => HasHold(i) \/ HasRecord(i)

\* A request that is over leaves no budget held and no claim taken, on every
\* path: refusal, block, rejection, failure, success ("a failed purchase
\* never eats into the user's daily cap"), unless a release itself failed.
EndedHoldsNothing ==
  \A i \in Attempts : step[i] = "ended" /\ i \notin misled =>
    /\ ~HasHold(i)
    /\ ~(claims[Key(i)].state = "held" /\ claims[Key(i)].by = {i})

\* Two automatic payments for one request of one user, even across a crash:
\* only when the first claim had aged out before the second was taken, or a
\* payment that was made was reported as failed.
AutoPaidTwiceOnlyWhenClaimAged ==
  \A i, j \in (moved \cap claimed) \ misled :
    i # j /\ Key(i) = Key(j) =>
      since[i] + ClaimTTL <= since[j] \/ since[j] + ClaimTTL <= since[i]

\* Every request that read its limits is answered, or died with the gateway.
EveryAttemptEnds ==
  \A i \in Attempts : step[i] = "scoped" ~> step[i] \in {"ended", "dead"}

\* What the comment of settle_reservation says: a slow payment cannot settle
\* without counting against the cap.
SlowPaymentCounted ==
  \A i \in Attempts : step[i] \in {"counted", "remembering"} => HasRecord(i)

\* What CLAIM_SCOPE_WINDOW_SECONDS and _claim_scope say of a caller that sends
\* its request id: a retry carries the same id and is not paid a second time.
PaidOncePerRequest ==
  \A i, j \in moved : Key(i) = Key(j) => i = j
=============================================================================
