--------------------------- MODULE TelegramSessions ---------------------------
(***************************************************************************)
(* The Telegram wizards of the Hermes plugin for one user.  The hook        *)
(* handles the user's messages one at a time; what takes long runs on       *)
(* daemon threads (_run_in_background) that read and write the same         *)
(* session dictionaries without a lock.  Only the operation reservation     *)
(* (_TELEGRAM_ACTIVE_OPERATIONS) is locked: it lets one operation of a name *)
(* run at a time and tells a thread whether its result is still wanted.     *)
(*                                                                         *)
(* A generation is the number of the thread that holds it: the code's       *)
(* counter grows with every reservation and is only compared with the       *)
(* active one.  Lists, prices, addresses and the wording are left out.      *)
(***************************************************************************)
EXTENDS Naturals, Sequences

CONSTANTS Opening,      \* stages at which the window that is checked may open
          MaxMessages,  \* bound on the user's messages
          MaxTasks      \* bound on the threads they start

VARIABLES
    tasks,    \* sequence of threads: what each does and how far it is
    active,   \* the thread whose operation is reserved, 0 for none
    shop,     \* _BITREFILL_SESSIONS: the stage of the Bitrefill wizard
    wallet,   \* _WITHDRAW_SESSIONS: the step of the withdrawal
    phone,    \* _IMESSAGE_CONNECT_SESSIONS: a phone number is awaited
    chat,     \* _CHAT_MODE_USERS
    budget,   \* _CHAT_BUDGET_PENDING
    left,     \* threads whose operation the user has turned away from: he went
              \* back, or began another operation
    offered,  \* the list of payment tokens was sent for the purchase at hand
    messages  \* messages so far

sessionVars == <<tasks, active, shop, wallet, phone, chat, budget, left, offered, messages>>

LoadingStages == {"loading-search", "loading-catalog", "loading-product", "loading-tokens"}
ChoosingStages == {"menu", "country", "search", "category", "search-list", "catalog-list",
                   "package", "recipient", "token", "email"}
WizardStages == LoadingStages \cup ChoosingStages \cup {"none", "purchasing"}
Steps == {"none", "loading", "token", "amount", "address"}
Reads == {"search", "catalog", "product", "tokens", "assets"}
Kinds == Reads \cup {"command", "connect", "policy", "purchase", "direct", "transfer"}

ASSUME OpeningAssumption == Opening \subseteq (ChoosingStages \cup {"none"})
ASSUME BoundsAssumption == MaxMessages \in Nat /\ MaxTasks \in Nat

At(stage) == [stage |-> stage, gen |-> 0, back |-> "none"]
Step(step) == [step |-> step, gen |-> 0]
Me == Len(tasks) + 1
InFlight(t) == tasks[t].pc \in {"work", "buying"}

\* Types; the reserved operation is the one the user last asked for, and its
\* thread, if it got one, is not over
SessionTypeOK ==
    /\ tasks \in Seq([kind : Kinds, back : ChoosingStages \cup {"none"},
                      outcome : {"ok", "empty", "failed"},
                      pc : {"never", "work", "write", "buying", "finish", "done"}])
    /\ active \in 0 .. Len(tasks)
    /\ active # 0 => tasks[active].pc # "done" /\ active \notin left
    /\ shop \in [stage : WizardStages, gen : 0 .. MaxTasks, back : ChoosingStages \cup {"none"}]
    /\ wallet \in [step : Steps, gen : 0 .. MaxTasks]
    /\ left \subseteq 1 .. Len(tasks)
    /\ phone \in BOOLEAN /\ chat \in BOOLEAN /\ budget \in BOOLEAN /\ offered \in BOOLEAN
    /\ messages \in 0 .. MaxMessages

SessionInit ==
    /\ tasks = << >> /\ active = 0 /\ left = {} /\ messages = 0
    /\ shop \in {At(stage) : stage \in Opening}
    /\ wallet = Step("none")
    /\ phone = FALSE /\ chat = FALSE /\ budget = FALSE
    /\ offered = (shop.stage = "token")

-----------------------------------------------------------------------------
(* The reservation *)

\* _run_in_background
Spawn(kind, back) ==
    /\ Len(tasks) < MaxTasks
    /\ tasks' = Append(tasks, [kind |-> kind, back |-> back, outcome |-> "ok", pc |-> "work"])

Superseded == IF active = 0 THEN left ELSE left \cup {active}

Invalidate_KeepsActive == active' = active /\ left' = Superseded

\* _invalidate_telegram_operation
Invalidate == active' = 0 /\ left' = Superseded

\* _reserve_telegram_operation refuses the name that is running.  "command" is
\* many names: a second command is another one, or it changes nothing
Running(kind) == active # 0 /\ tasks[active].kind = kind /\ kind # "command"
Reservable_Always(kind) == TRUE
Reservable(kind) == ~Running(kind)

Reserve(kind, back) ==
    /\ Reservable(kind)
    /\ Spawn(kind, back)
    /\ active' = Me
    /\ left' = IF Running(kind) THEN left ELSE Superseded

\* The reservation was made and there is no thread: _run_in_background raised and
\* the operation is finished at once; or the text that announces it could not be
\* sent, which nothing catches before the hook does, and it stays reserved
InVain(kind) ==
    /\ Reservable(kind)
    /\ Len(tasks) < MaxTasks
    /\ tasks' = Append(tasks, [kind |-> kind, back |-> "none", outcome |-> "ok", pc |-> "never"])
    /\ active' \in {0, Me}
    /\ left' = IF Running(kind) THEN left ELSE Superseded

\* _start_telegram_background_operation
Start(kind, back) == Reserve(kind, back) \/ InVain(kind)

IsCurrent(t) == active = t

\* _finish_telegram_operation
Release(t) == active' = IF IsCurrent(t) THEN 0 ELSE active

-----------------------------------------------------------------------------
(* The stage a read puts the wizard in while it runs and when it is over    *)

LoadingStage == [search |-> "loading-search", catalog |-> "loading-catalog",
                 product |-> "loading-product", tokens |-> "loading-tokens"]

StageAfter(task) ==
    LET found == [search |-> "search-list", catalog |-> "catalog-list",
                  product |-> "package", tokens |-> "token"]
        empty == [search |-> "search", catalog |-> "category",
                  product |-> task.back, tokens |-> "none"]
        failed == [empty EXCEPT !.tokens = task.back]
    IN  CASE task.outcome = "ok" -> found[task.kind]
          [] task.outcome = "empty" -> empty[task.kind]
          [] task.outcome = "failed" -> failed[task.kind]

\* The operation with its prepare, which shows "loading" before there is a thread;
\* what the wizard had before is kept when Back must return to it
StartRead(kind) ==
    LET back == IF kind \in {"product", "tokens"} THEN shop.stage ELSE "none"
    IN  /\ Start(kind, back)
        /\ shop' = [stage |-> LoadingStage[kind], gen |-> Me, back |-> back]
        /\ offered' = (offered /\ kind # "tokens")
        /\ UNCHANGED <<wallet, phone, chat, budget>>

\* _start_bitrefill_purchase_from_wizard: a thread that cannot be had takes the
\* session back to what it was
StartPurchase ==
    /\ \/ /\ Reserve("purchase", "none")
          /\ shop' = [stage |-> "purchasing", gen |-> Me, back |-> shop.stage]
       \/ InVain("purchase") /\ active' = 0 /\ UNCHANGED shop
    /\ UNCHANGED <<wallet, phone, chat, budget, offered>>

-----------------------------------------------------------------------------
(* The user's messages, each handler in the place the dispatcher gives it.  *)
(* A text no handler takes, and one that is refused, changes nothing.       *)

NoThread == UNCHANGED <<tasks, active, left>>

\* _handle_telegram_chat_budget_choice
BudgetBack ==
    /\ budget /\ budget' = FALSE
    /\ NoThread /\ UNCHANGED <<shop, wallet, phone, chat, offered>>

BudgetChosen ==
    /\ budget /\ budget' = FALSE
    /\ Start("policy", "none") \/ (Running("policy") /\ NoThread)
    /\ UNCHANGED <<shop, wallet, phone, chat, offered>>

\* _handle_telegram_chat_message: the exit button, or a merchant that changed
LeaveChat ==
    /\ chat /\ chat' = FALSE
    /\ NoThread /\ UNCHANGED <<shop, wallet, phone, budget, offered>>

\* _handle_telegram_chat_entry, with a policy at the gateway or without one
EnterChat ==
    /\ ~chat
    /\ \/ chat' = TRUE /\ UNCHANGED budget
       \/ budget' = TRUE /\ UNCHANGED chat
    /\ NoThread /\ UNCHANGED <<shop, wallet, phone, offered>>

\* _handle_telegram_public_command_request
Help ==
    /\ ~chat
    /\ Invalidate
    /\ UNCHANGED <<tasks, shop, wallet, phone, chat, budget, offered>>

OpenBitrefillMenu ==
    /\ ~chat
    /\ Invalidate
    /\ shop' = At("menu")
    /\ UNCHANGED <<tasks, wallet, phone, chat, budget, offered>>

Command ==
    /\ ~chat
    /\ \E kind \in {"command", "connect"} : Start(kind, "none")
    /\ UNCHANGED <<shop, wallet, phone, chat, budget, offered>>

OpenWithdrawFlow ==
    /\ ~chat
    /\ Start("assets", "none")
    /\ wallet' = [step |-> "loading", gen |-> Me]
    /\ UNCHANGED <<shop, phone, chat, budget, offered>>

BuyDirectly ==
    /\ ~chat
    /\ Spawn("direct", "none")
    /\ UNCHANGED <<active, left, shop, wallet, phone, chat, budget, offered>>

\* _handle_telegram_imessage_registration_message: Back, or a phone number
PhoneAnswered ==
    /\ ~chat /\ phone /\ phone' = FALSE
    /\ NoThread /\ UNCHANGED <<shop, wallet, chat, budget, offered>>

\* _handle_telegram_withdraw_wizard_message
Listening == ~chat /\ ~phone

WithdrawBack ==
    /\ Listening /\ wallet.step # "none"
    /\ Invalidate
    /\ wallet' = Step("none")
    /\ UNCHANGED <<tasks, shop, phone, chat, budget, offered>>

WithdrawAnswered ==
    /\ Listening
    /\ \/ wallet.step = "token" /\ wallet' = Step("amount") /\ UNCHANGED tasks
       \/ wallet.step = "amount" /\ wallet' = Step("address") /\ UNCHANGED tasks
       \/ /\ wallet.step = "address" /\ wallet' = Step("none")
          /\ Spawn("transfer", "none") \/ UNCHANGED tasks   \* it may not be had
    /\ UNCHANGED <<active, left, shop, phone, chat, budget, offered>>

\* Another text while the assets load drops the withdrawal; it goes on to the
\* next handlers, here as the next message
WithdrawOvertaken ==
    /\ Listening /\ wallet.step = "loading"
    /\ wallet' = Step("none")
    /\ NoThread /\ UNCHANGED <<shop, phone, chat, budget, offered>>

\* _handle_telegram_bitrefill_wizard_message
InShop == Listening /\ wallet.step = "none" /\ shop.stage # "none"

StageBefore ==
    CASE shop.stage \in {"loading-product", "loading-tokens"} -> shop.back
      [] shop.stage \in {"loading-catalog", "catalog-list"} -> "category"
      [] shop.stage = "loading-search" -> "search"
      [] shop.stage = "category" -> "menu"
      [] OTHER -> "none"

ShopBack ==
    /\ InShop
    /\ Invalidate
    /\ shop' = At(StageBefore)
    /\ UNCHANGED <<tasks, wallet, phone, chat, budget, offered>>

\* Change Country, Browse Catalog, Search Products: at every stage
ShopNavigates ==
    /\ InShop
    /\ Invalidate
    /\ shop' \in {At("country"), At("category"), At("search")}
    /\ UNCHANGED <<tasks, wallet, phone, chat, budget, offered>>

CountryGiven ==
    /\ InShop /\ shop.stage = "country"
    /\ shop' = At("menu")
    /\ NoThread /\ UNCHANGED <<wallet, phone, chat, budget, offered>>

SearchGiven == InShop /\ shop.stage = "search" /\ StartRead("search")

CatalogAsked == InShop /\ shop.stage \in {"category", "catalog-list"} /\ StartRead("catalog")

ProductChosen == InShop /\ shop.stage \in {"search-list", "catalog-list"} /\ StartRead("product")

PackageChosen ==
    /\ InShop /\ shop.stage = "package"
    /\ \/ StartRead("tokens")
       \/ /\ shop' = At("recipient")
          /\ NoThread /\ UNCHANGED <<wallet, phone, chat, budget, offered>>

RecipientGiven == InShop /\ shop.stage = "recipient" /\ StartRead("tokens")

\* _handle_bitrefill_payment_token_choice, _handle_bitrefill_buyer_email_input
TokenChosen == InShop /\ shop.stage = "token" /\ StartPurchase
EmailGiven == InShop /\ shop.stage = "email" /\ StartPurchase

\* _handle_telegram_global_navigation_message
MainMenu ==
    /\ Listening /\ wallet.step = "none" /\ shop.stage = "none"
    /\ Invalidate
    /\ UNCHANGED <<tasks, shop, wallet, phone, chat, budget, offered>>

Message ==
    /\ messages < MaxMessages /\ messages' = messages + 1
    /\ \/ BudgetBack \/ BudgetChosen \/ LeaveChat \/ EnterChat
       \/ Help \/ OpenBitrefillMenu \/ Command \/ OpenWithdrawFlow \/ BuyDirectly
       \/ PhoneAnswered \/ WithdrawBack \/ WithdrawAnswered \/ WithdrawOvertaken
       \/ ShopBack \/ ShopNavigates \/ CountryGiven \/ SearchGiven \/ CatalogAsked
       \/ ProductChosen \/ PackageChosen \/ RecipientGiven
       \/ TokenChosen \/ EmailGiven \/ MainMenu

-----------------------------------------------------------------------------
(* The threads *)

Ended == [kind |-> "command", back |-> "none", outcome |-> "ok", pc |-> "done"]
Put(t, pc) == tasks' = [tasks EXCEPT ![t].pc = pc]
\* ... of a purchase it is still known whether it broke off
End(t) ==
    tasks' = [tasks EXCEPT ![t] =
        [Ended EXCEPT !.outcome = IF tasks[t].kind = "purchase" THEN tasks[t].outcome ELSE "ok"]]

ReadReturns_NoRecovery(t) ==
    /\ tasks[t].kind \in Reads /\ tasks[t].pc = "work"
    /\ \E outcome \in {"ok", "empty", "failed"} :
          tasks' = [tasks EXCEPT ![t] =
              [@ EXCEPT !.outcome = outcome,
                        !.pc = IF IsCurrent(t) /\ outcome # "failed"
                               THEN "write" ELSE "finish"]]
    /\ UNCHANGED <<active, left, shop, wallet, phone, chat, budget, offered, messages>>

\* work: the gateway answers or fails, and the thread looks once whether its
\* operation is still the current one
ReadReturns(t) ==
    /\ tasks[t].kind \in Reads /\ tasks[t].pc = "work"
    /\ \E outcome \in {"ok", "empty", "failed"} :
          tasks' = [tasks EXCEPT ![t] =
              [@ EXCEPT !.outcome = outcome,
                        !.pc = IF IsCurrent(t) THEN "write" ELSE "finish"]]
    /\ UNCHANGED <<active, left, shop, wallet, phone, chat, budget, offered, messages>>

\* ... and then writes the session, whatever the hook did in between
ReadWrites(t) ==
    /\ tasks[t].kind \in Reads /\ tasks[t].pc = "write"
    /\ Put(t, "finish")
    /\ IF tasks[t].kind = "assets"
       THEN /\ wallet' = Step(IF tasks[t].outcome = "ok" THEN "token" ELSE "none")
            /\ UNCHANGED shop
       ELSE shop' = At(StageAfter(tasks[t])) /\ UNCHANGED wallet
    /\ UNCHANGED <<active, left, phone, chat, budget, offered, messages>>

\* _telegram_public_command_result: connect asks for a phone number unasked
CommandReturns(t) ==
    /\ tasks[t].kind \in {"command", "connect", "policy"} /\ tasks[t].pc = "work"
    /\ Put(t, "finish")
    /\ \/ UNCHANGED <<phone, chat>>
       \/ tasks[t].kind = "connect" /\ phone' = TRUE /\ UNCHANGED chat
       \/ tasks[t].kind = "policy" /\ chat' = TRUE /\ UNCHANGED phone
    /\ UNCHANGED <<active, left, shop, wallet, budget, offered, messages>>

\* The result is sent only by the current operation
Finish(t) ==
    /\ tasks[t].pc = "finish"
    /\ End(t)
    /\ Release(t)
    /\ offered' = \/ offered
                  \/ IsCurrent(t) /\ tasks[t].kind = "tokens" /\ tasks[t].outcome = "ok"
    /\ UNCHANGED <<left, shop, wallet, phone, chat, budget, messages>>

\* _execute_telegram_bitrefill_request
Buys(t) == tasks[t].kind \in {"purchase", "direct"}
Over(t) == IF tasks[t].kind = "direct" THEN End(t) ELSE Put(t, "finish")

AskEmail(t) ==
    /\ Buys(t) /\ tasks[t].pc = "work"
    /\ shop' = At("email")
    /\ Over(t)
    /\ UNCHANGED <<active, left, wallet, phone, chat, budget, offered, messages>>

CallGateway(t) ==
    /\ Buys(t) /\ tasks[t].pc = "work"
    /\ Put(t, "buying")
    /\ UNCHANGED <<active, left, shop, wallet, phone, chat, budget, offered, messages>>

Bought(t) ==
    /\ Buys(t) /\ tasks[t].pc = "buying"
    /\ shop' = At("none")
    /\ Over(t)
    /\ UNCHANGED <<active, left, wallet, phone, chat, budget, offered, messages>>

\* GatewayClientError: whoever's purchase the session shows, its choice comes back
Refused(t) ==
    /\ Buys(t) /\ InFlight(t)
    /\ shop' = IF shop.stage = "purchasing" THEN At(shop.back) ELSE shop
    /\ offered' = (offered \/ shop'.stage = "token")
    /\ Over(t)
    /\ UNCHANGED <<active, left, wallet, phone, chat, budget, messages>>

Breaks_Unfinished(t) ==   \* a mutant: no finally
    /\ Buys(t) /\ InFlight(t)
    /\ End(t)
    /\ UNCHANGED <<active, left, shop, wallet, phone, chat, budget, offered, messages>>

\* Any other exception leaves the session as it is
Breaks(t) ==
    /\ Buys(t) /\ InFlight(t)
    /\ IF tasks[t].kind = "direct" THEN End(t)
       ELSE tasks' = [tasks EXCEPT ![t] = [@ EXCEPT !.outcome = "failed", !.pc = "finish"]]
    /\ UNCHANGED <<active, left, shop, wallet, phone, chat, budget, offered, messages>>

\* _execute_telegram_withdraw_request
Transferred(t) ==
    /\ tasks[t].kind = "transfer" /\ tasks[t].pc = "work"
    /\ End(t)
    /\ UNCHANGED <<active, left, shop, wallet, phone, chat, budget, offered, messages>>

ThreadSteps(t) ==
    /\ t <= Len(tasks)
    /\ \/ ReadReturns(t) \/ ReadWrites(t) \/ CommandReturns(t) \/ Finish(t)
       \/ AskEmail(t) \/ CallGateway(t) \/ Bought(t) \/ Refused(t) \/ Breaks(t)
       \/ Transferred(t)

Threads == \E t \in 1 .. MaxTasks : ThreadSteps(t)

SessionNext == Message \/ Threads

\* The daemon threads run: the gateway client has a timeout on every call
SessionSpec == SessionInit /\ [][SessionNext]_sessionVars /\ WF_sessionVars(Threads)

-----------------------------------------------------------------------------
(* Properties *)

\* A wizard that shows "loading" or "purchasing" ignores every text (2446).  It
\* then waits for a thread that will still replace that stage, unless the user
\* himself turned away from the operation, its thread was never had, or its
\* purchase broke off with an exception nobody expects
LoadingHasWorker ==
    LET Awaited(g, working) == g \in left \/ tasks[g].pc \in working \cup {"never"}
    IN  /\ shop.stage \in LoadingStages => Awaited(shop.gen, {"work", "write"})
        /\ wallet.step = "loading" => Awaited(wallet.gen, {"work", "write"})
        /\ shop.stage = "purchasing" =>
              Awaited(shop.gen, {"work", "buying"}) \/ tasks[shop.gen].outcome = "failed"

\* The same with no exception but the user's own turning away: false for the
\* last two
EveryLoadingEnds ==
    shop.stage \in LoadingStages \cup {"purchasing"} =>
        shop.gen \in left \/ tasks[shop.gen].pc \in {"work", "write", "buying"}

\* Two wizard purchases are under way together only if the user turned away
\* from one of them: pressing a payment token again, also after a failure of
\* another purchase has put the token list back, buys nothing more
DoubleTapBuysOnce ==
    \A t, u \in DOMAIN tasks :
        /\ t # u /\ tasks[t].kind = "purchase" /\ tasks[u].kind = "purchase"
        /\ InFlight(t) /\ InFlight(u)
        => t \in left \/ u \in left

\* When the user stops asking, the reservation is given back, on every path of
\* every thread: no button stays dead because its operation "still runs", unless
\* the text that announces the operation could not be sent
OperationReleased == []<>(active = 0 \/ tasks[active].pc = "never")

\* A read the user has turned away from shows nothing: false, since it looks
\* before it writes and not while it writes (2642)
StaleResultDiscarded ==
    [][\A t \in left : tasks[t].pc = "write" /\ tasks'[t].pc = "finish"
                         => UNCHANGED <<shop, wallet>>]_sessionVars

\* A purchase begins at the token stage only when the user was sent the list
\* of payment tokens (test_bitrefill_wizard_requires_token_button_before_purchase)
TokenButtonFirst == [][shop.stage = "token" /\ shop'.stage = "purchasing" => offered]_sessionVars
=============================================================================
