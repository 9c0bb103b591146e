----------------------------- MODULE ChatCredit -----------------------------
(***************************************************************************)
(* The prepaid chat of one user (venice_chat.py, chat_store.py,            *)
(* web_search.py): messages served at the same time, each of which may     *)
(* prefund credit at Venice, search the web once, ask and reconcile; the   *)
(* standing policy the user approves; and the watcher of the merchant's    *)
(* address.                                                                *)
(*                                                                         *)
(* The row of the user is read and written under the lock of the store,    *)
(* one call a step; every call of Venice, of the payment client and of the *)
(* person is a step between two of them.  Money is counted in units: a     *)
(* completion costs one, a top-up buys Chunk.                              *)
(***************************************************************************)
EXTENDS Integers, FiniteSets

CONSTANTS
  Messages,         \* the messages the user sends
  Searching,        \* those that may search the web
  Merchants,        \* payout addresses; the first configured one is Configured
  Configured,
  NoOne, Never,
  Chunk,            \* chunk_atomic
  Caps,             \* daily caps the user approves
  MaxOutstanding,   \* max_outstanding_atomic
  MaxSearches,      \* max_per_day
  DayLength, ClaimTTL, PolicyLife,
  MaxTime, MaxFaults, MaxChanges   \* bounds; a fault is anything that fails

ASSUME ChatAssumption ==
  /\ IsFiniteSet(Messages) /\ Searching \subseteq Messages
  /\ Configured \in Merchants /\ NoOne \notin Merchants /\ Never \notin Int
  /\ Chunk \in Nat \ {0} /\ Caps \subseteq Nat \ {0} /\ MaxOutstanding \in Nat
  /\ {DayLength, ClaimTTL, PolicyLife} \subseteq Nat \ {0}
  /\ {MaxSearches, MaxTime, MaxFaults, MaxChanges} \subseteq Nat

VARIABLES
  now, faults,
  row,            \* the row of chat_sessions
  configured,     \* config.bound_pay_to, and the pay_to of the policy service
  asked,          \* the policy an approval is waiting for, or Never
  changes,        \* policies asked for and moves of the merchant so far
  offered, feed,  \* the live payTo; changes the feed shows
  seen, watcher,  \* payto_last_seen, the step of the watcher
  balance,        \* what Venice will honour
  msg,            \* a message: its step and what its request keeps
  pay, payTo,     \* its payment: none, sent, landed; the address it goes to
  booked, paidOn, \* the windows it is booked in, and the day it landed
  approvedTo, topCap   \* what the user ever approved

payVars == <<pay, payTo, booked, paidOn>>
worldVars == <<configured, offered, feed, seen, watcher>>
policyVars == <<asked, approvedTo, topCap>>
vars == <<now, faults, changes, row, balance, msg, payVars, worldVars, policyVars>>

Window(t) == t \div DayLength      \* _window_start
OFF == ""                          \* not paused
\* _ensure_row, before any policy
EmptyRow == [window |-> 0, spent |-> 0, outstanding |-> 0, paused |-> OFF,
             bound |-> NoOne, cap |-> 0, expires |-> 0, claimedAt |-> Never,
             searches |-> 0, searchPaused |-> FALSE]
ApprovedRow(c) == [EmptyRow EXCEPT !.bound = Configured, !.cap = c, !.expires = PolicyLife]
PausedFor(why) == [row EXCEPT !.paused = why]   \* pause

\* remaining and outstanding as the session said, what was done, the balance
Fresh == [pc |-> "new", remaining |-> 0, outstanding |-> 0,
          prefunded |-> FALSE, searched |-> FALSE, reported |-> Never]
Over == [Fresh EXCEPT !.pc = "done"]

Init ==
  /\ now = 0 /\ faults = 0 /\ balance = 0
  /\ \/ row = EmptyRow /\ approvedTo = {} /\ topCap = 0
     \/ \E c \in Caps : row = ApprovedRow(c) /\ approvedTo = {Configured} /\ topCap = c
  /\ configured \in Merchants /\ offered = configured
  /\ asked = Never /\ changes = 0
  /\ feed = 0 /\ seen = 0 /\ watcher = "idle"
  /\ msg = [m \in Messages |-> Fresh]
  /\ pay = [m \in Messages |-> "none"] /\ payTo = [m \in Messages |-> NoOne]
  /\ booked = [m \in Messages |-> Never] /\ paidOn = [m \in Messages |-> Never]

\* _rolled_over: a new UTC day clears what was spent and searched, never the credit
RolledOver_Ahead ==    \* a mutant: the next window begins
  IF row.window >= Window(now) THEN row
  ELSE [row EXCEPT !.window = Window(now) + 1, !.spent = 0, !.searches = 0]
RolledOver_Credit ==   \* a mutant: yesterday's credit goes as well
  IF row.window >= Window(now) THEN row
  ELSE [row EXCEPT !.window = Window(now), !.spent = 0, !.outstanding = 0, !.searches = 0]
RolledOver ==
  IF row.window >= Window(now) THEN row
  ELSE [row EXCEPT !.window = Window(now), !.spent = 0, !.searches = 0]

At(m, s) == msg[m].pc = s
Goto(m, s) == msg' = [msg EXCEPT ![m].pc = s]
End(m) == msg' = [msg EXCEPT ![m] = Over]
NoPay == UNCHANGED payVars
Rest == UNCHANGED <<now, changes, worldVars, policyVars>>
Fails == faults < MaxFaults /\ faults' = faults + 1
Fine == UNCHANGED faults
Larger(a, b) == IF a > b THEN a ELSE b
\* get_session, and what a message keeps of it: _remaining_window, the credit
Read(m, next) ==
  /\ row' = RolledOver
  /\ msg' = [msg EXCEPT ![m].pc = next, ![m].outstanding = row'.outstanding,
                        ![m].remaining = Larger(0, row'.cap - row'.spent)]

-----------------------------------------------------------------------------
(* VeniceChatClient.send *)

\* Refused at once when paused, without a policy, past its expiry, or when
\* purchases are paused; otherwise the session is read
Send(m) ==
  /\ At(m, "new") /\ Fine
  /\ \/ row' = RolledOver /\ End(m)
     \/ /\ Read(m, "consume")
        /\ row.paused = OFF /\ row.bound # NoOne /\ now < row.expires
  /\ Rest /\ NoPay /\ UNCHANGED balance
\* _can_consume: Venice's word, or our own ledger when the call fails
CanConsume(m, can) ==
  \/ can = (balance >= 1) /\ Fine
  \/ can = (msg[m].outstanding >= 1) /\ can # (balance >= 1) /\ Fails
\* the cap and credit checks of _prefund that need no call
Fits_Credit(m) == msg[m].outstanding + Chunk <= MaxOutstanding   \* a mutant: no daily cap
Fits(m) ==
  msg[m].remaining >= Chunk /\ msg[m].outstanding + Chunk <= MaxOutstanding
Consume(m) ==
  /\ At(m, "consume")
  /\ \E can \in BOOLEAN :
       /\ CanConsume(m, can)
       /\ IF can THEN Goto(m, "ask") ELSE IF Fits(m) THEN Goto(m, "claim") ELSE End(m)
  /\ Rest /\ NoPay /\ UNCHANGED <<balance, row>>

\* claim_prefund: one prefund at a time, and an old claim is a dead one
ClaimFree_Always == TRUE     \* a mutant: the UPDATE has no condition
ClaimFree == row.claimedAt = Never \/ row.claimedAt + ClaimTTL <= now
Claim(m) ==
  /\ At(m, "claim")
  /\ IF ClaimFree
     THEN row' = [row EXCEPT !.claimedAt = now] /\ Goto(m, "read")
     ELSE UNCHANGED row /\ End(m)
  /\ Fine /\ Rest /\ NoPay /\ UNCHANGED balance
\* the claim's finally clears it
Release(m) ==
  /\ row' = [row EXCEPT !.claimedAt = Never]
  /\ \/ At(m, "answered") /\ Goto(m, "ask")
     \/ At(m, "failed") /\ End(m)
  /\ Fine /\ Rest /\ NoPay /\ UNCHANGED balance
\* under the claim: the session again, and Venice again
Reread(m) ==
  /\ At(m, "read") /\ Read(m, "recheck") /\ Fine
  /\ Rest /\ NoPay /\ UNCHANGED balance
Answered(m) == msg' = [msg EXCEPT ![m].pc = "answered", ![m].prefunded = TRUE]
Recheck(m) ==
  /\ At(m, "recheck")
  /\ \E can \in BOOLEAN :
       /\ CanConsume(m, can)
       /\ IF can THEN Answered(m) ELSE Goto(m, "challenge")
  /\ Rest /\ NoPay /\ UNCHANGED <<balance, row>>
\* _top_up_challenge
Challenge(m) ==
  /\ At(m, "challenge")
  /\ \/ Fails /\ Goto(m, "failed") /\ UNCHANGED payTo
     \/ Fine /\ Goto(m, "bind") /\ payTo' = [payTo EXCEPT ![m] = offered]
  /\ Rest /\ UNCHANGED <<balance, row, pay, booked, paidOn>>
\* what a challenge is checked against: the address the user approved
Bound_Env == configured      \* a mutant: the operator's default
Bound == IF row.bound # NoOne THEN row.bound ELSE configured
\* _validate_binding; then the cap and the credit with the quoted amount
Bind(m) ==
  /\ At(m, "bind")
  /\ \/ /\ payTo[m] # Bound /\ Goto(m, "failed")
        /\ row' = PausedFor("MERCHANT_CHANGED")
     \/ /\ payTo[m] = Bound /\ UNCHANGED row
        /\ Goto(m, IF Fits(m) THEN "settle" ELSE "failed")
  /\ Fine /\ Rest /\ NoPay /\ UNCHANGED balance
\* settle: the paid POST leaves
Settle(m) ==
  /\ At(m, "settle") /\ Goto(m, "settling") /\ pay' = [pay EXCEPT ![m] = "sent"]
  /\ Fine /\ Rest /\ UNCHANGED <<balance, row, payTo, booked, paidOn>>
\* it answers ok; not ok; or raises, the client's timeout among others
Settled(m) ==
  /\ At(m, "settling")
  /\ \/ pay[m] = "landed" /\ Goto(m, "record") /\ Fine /\ UNCHANGED row
     \/ Goto(m, "failed") /\ Fails /\ row' = PausedFor("RECONCILIATION_REQUIRED")
     \/ Goto(m, "failed") /\ Fails /\ UNCHANGED row
  /\ Rest /\ NoPay /\ UNCHANGED balance
\* record_prefund
Record(m) ==
  /\ At(m, "record")
  /\ row' = [RolledOver EXCEPT !.spent = @ + Chunk, !.outstanding = @ + Chunk]
  /\ booked' = [booked EXCEPT ![m] = row'.window]
  /\ Answered(m) /\ Fine /\ Rest /\ UNCHANGED <<balance, pay, payTo, paidOn>>

-----------------------------------------------------------------------------
(* The answer: at most one search, one or two completions, the debit *)

\* WebSearchClient.search: the checks before the challenge
Search(m) ==
  /\ m \in Searching /\ ((At(m, "ask") /\ ~msg[m].searched) \/ At(m, "web"))
  /\ row' = RolledOver
  /\ msg' = [msg EXCEPT ![m].searched = TRUE, ![m].pc =
       IF ~row'.searchPaused /\ row'.searches < MaxSearches THEN "search" ELSE "ask"]
  /\ Fine /\ Rest /\ NoPay /\ UNCHANGED balance
\* another payTo pauses search and not the chat; a failure costs only the search
SearchPay(m) ==
  /\ At(m, "search")
  /\ \/ Goto(m, "ask") /\ Fails /\ row' \in {row, [row EXCEPT !.searchPaused = TRUE]}
     \/ Goto(m, "count") /\ Fine /\ UNCHANGED row
  /\ Rest /\ NoPay /\ UNCHANGED balance
\* record_search, after the payment
SearchCount(m) ==
  /\ At(m, "count")
  /\ row' = [RolledOver EXCEPT !.searches = @ + 1] /\ Goto(m, "ask") /\ Fine
  /\ Rest /\ NoPay /\ UNCHANGED balance
Report(m, left) == msg' = [msg EXCEPT ![m].pc = "reconcile", ![m].reported = left]
\* _ask: Venice charges and answers, with or without the balance header; the
\* model may ask for the web first.  Or it wants funding, or does not answer
Ask(m) ==
  /\ At(m, "ask")
  /\ \/ /\ balance >= 1 /\ balance' = balance - 1 /\ Fine /\ UNCHANGED row
        /\ \/ Report(m, balance')
           \/ Goto(m, "debit")
           \/ m \in Searching /\ ~msg[m].searched /\ Goto(m, "web")
     \/ balance = 0 /\ End(m) /\ Fine /\ UNCHANGED <<balance, row>>
     \/ /\ Fails /\ balance' \in {balance, Larger(0, balance - 1)} /\ End(m)
        /\ row' = IF msg[m].prefunded
                  THEN PausedFor("RECONCILIATION_REQUIRED") ELSE row
  /\ Rest /\ NoPay
\* _debit_actual_cost without the header: the balance call, or nothing is billed
Debit(m) ==
  /\ At(m, "debit")
  /\ \/ Fine /\ Report(m, balance)
     \/ Fails /\ End(m)
  /\ Rest /\ NoPay /\ UNCHANGED <<balance, row>>
\* reconcile_outstanding
Reconcile(m) ==
  /\ At(m, "reconcile")
  /\ row' = [RolledOver EXCEPT !.outstanding = msg[m].reported] /\ End(m)
  /\ Fine /\ Rest /\ NoPay /\ UNCHANGED balance

-----------------------------------------------------------------------------
(* The standing policy, the watcher *)

\* ChatPolicyApprovalService.build and approve: the person is asked, and only
\* a yes binds
AskPolicy ==
  /\ asked = Never /\ changes < MaxChanges /\ changes' = changes + 1
  /\ \E c \in Caps :
       c >= Chunk /\ asked' = [bound |-> configured, cap |-> c, expires |-> now + PolicyLife]
  /\ UNCHANGED <<now, faults, row, balance, msg, payVars, worldVars, approvedTo, topCap>>
\* approve_policy: it clears a pause, and not what was spent
AnswerPolicy ==
  /\ asked # Never /\ asked' = Never
  /\ \/ UNCHANGED <<row, approvedTo, topCap>>
     \/ /\ row' = [row EXCEPT !.bound = asked.bound, !.cap = asked.cap,
                              !.expires = asked.expires, !.paused = OFF]
        /\ approvedTo' = approvedTo \cup {asked.bound} /\ topCap' = Larger(topCap, asked.cap)
  /\ UNCHANGED <<now, faults, changes, balance, msg, payVars, worldVars>>
\* PayToWatcher.poll: pause whoever is bound to the old address, then remember
\* the event
Poll ==
  /\ watcher = "idle" /\ feed > seen /\ watcher' = "mark"
  /\ row' = IF row.bound = configured THEN PausedFor("MERCHANT_CHANGED") ELSE row
  /\ UNCHANGED <<now, faults, changes, balance, msg, payVars, policyVars, configured, offered, feed, seen>>
PollMark ==
  /\ watcher = "mark" /\ watcher' = "idle" /\ seen' = feed
  /\ UNCHANGED <<now, faults, changes, row, balance, msg, payVars, policyVars, configured, offered, feed>>

-----------------------------------------------------------------------------
(* The world, the process, the clock *)

\* A signed top-up is settled and credited, soon or after its answer was lost
Land(m) ==
  /\ pay[m] = "sent" /\ pay' = [pay EXCEPT ![m] = "landed"]
  /\ paidOn' = [paidOn EXCEPT ![m] = Window(now)] /\ balance' = balance + Chunk
  /\ UNCHANGED <<now, faults, changes, row, msg, payTo, booked, worldVars, policyVars>>
\* Venice moves to another address; the feed shows it
MerchantMoves ==
  /\ changes < MaxChanges /\ changes' = changes + 1
  /\ \E a \in Merchants \ {offered} : offered' = a
  /\ UNCHANGED <<now, faults, row, balance, msg, payVars, policyVars, configured, feed, seen, watcher>>
FeedShows ==
  /\ feed = 0 /\ offered # Configured /\ feed' = 1
  /\ UNCHANGED <<now, faults, changes, row, balance, msg, payVars, policyVars, configured, offered, seen, watcher>>
\* The process dies; its claim stays in the row
Crash ==
  /\ Fails
  /\ msg' = [m \in Messages |-> IF At(m, "new") THEN Fresh ELSE Over]
  /\ asked' = Never /\ watcher' = "idle" /\ UNCHANGED configured
  /\ UNCHANGED <<now, changes, row, balance, payVars,
                 offered, feed, seen, approvedTo, topCap>>
\* A request under way is over before its claim is old: the payment client stops
\* after 180 seconds, the claim lives for 900
Claimed == {"read", "recheck", "challenge", "bind", "settle", "settling", "record", "answered", "failed"}
Tick ==
  /\ now < MaxTime /\ now' = now + 1
  /\ (\E m \in Messages : msg[m].pc \in Claimed) => now' < row.claimedAt + ClaimTTL
  /\ UNCHANGED <<faults, changes, row, balance, msg, payVars, worldVars, policyVars>>

Step(m) ==
  \/ Consume(m) \/ Claim(m) \/ Release(m) \/ Reread(m) \/ Recheck(m) \/ Challenge(m) \/ Bind(m)
  \/ Settle(m) \/ Settled(m) \/ Record(m) \/ Search(m) \/ SearchPay(m)
  \/ SearchCount(m) \/ Ask(m) \/ Debit(m) \/ Reconcile(m)
Next ==
  \/ \E m \in Messages : Send(m) \/ Step(m) \/ Land(m)
  \/ AskPolicy \/ AnswerPolicy \/ Poll \/ PollMark
  \/ MerchantMoves \/ FeedShows \/ Crash \/ Tick

Spec == Init /\ [][Next]_vars

-----------------------------------------------------------------------------
(* Properties *)

Steps == {"new", "consume", "claim", "ask", "web", "search", "count", "debit", "reconcile", "done"}
         \cup Claimed

RowType ==
  [window : Nat, spent : Nat, outstanding : Nat,
   paused : {OFF, "MERCHANT_CHANGED", "RECONCILIATION_REQUIRED"},
   bound : Merchants \cup {NoOne}, cap : Nat, expires : Nat,
   claimedAt : Nat \cup {Never}, searches : Nat, searchPaused : BOOLEAN]
MsgType ==
  [pc : Steps, remaining : Nat, outstanding : Nat, prefunded : BOOLEAN,
   searched : BOOLEAN, reported : Nat \cup {Never}]

TypeOK ==
  /\ now \in Nat /\ faults \in Nat /\ changes \in Nat /\ balance \in Nat /\ topCap \in Nat
  /\ row \in RowType
  /\ configured \in Merchants /\ offered \in Merchants /\ approvedTo \subseteq Merchants
  /\ asked \in [bound : Merchants, cap : Caps, expires : Nat] \cup {Never}
  /\ feed \in Nat /\ seen \in Nat /\ watcher \in {"idle", "mark"}
  /\ msg \in [Messages -> MsgType]
  /\ pay \in [Messages -> {"none", "sent", "landed"}]
  /\ payTo \in [Messages -> Merchants \cup {NoOne}]
  /\ booked \in [Messages -> Nat \cup {Never}]
  /\ paidOn \in [Messages -> Nat \cup {Never}]

\* What the window says was spent is what was paid in it, and the recorded
\* top-ups of a day are within the largest cap the user approved, whatever
\* messages overlap and wherever midnight falls
SpentIsBooked ==
  /\ row.spent = Chunk * Cardinality({m \in Messages : booked[m] = row.window})
  /\ \A d \in 0..Window(now) :
       Chunk * Cardinality({m \in Messages : booked[m] = d}) <= topCap

\* "Two concurrent messages must produce exactly one prefund" (claim_prefund):
\* no two messages are between their claim and its release
OnePrefundAtATime ==
  Cardinality({m \in Messages : msg[m].pc \in Claimed}) <= 1

\* A payment goes to an address the user approved: neither a new address in a
\* challenge nor another one in the environment re-points a policy
PaidToTheApproved ==
  \A m \in Messages : pay[m] # "none" => payTo[m] \in approvedTo

\* Credit the user paid for is only ever lowered to what Venice says is left:
\* midnight, a pause, a new policy or a crash never touch it
CreditIsKept ==
  [][row'.outstanding < row.outstanding =>
       \E m \in Messages : At(m, "reconcile") /\ row'.outstanding = msg[m].reported]_vars

\* "Up to ... per day" (policy_approval_context): what leaves the wallet in a
\* day is within the cap
DayWithinCap ==
  \A d \in 0..Window(now) :
    Chunk * Cardinality({m \in Messages : paidOn[m] = d}) <= topCap

=============================================================================
