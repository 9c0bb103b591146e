----------------------------- MODULE UserWallets -----------------------------
(***************************************************************************)
(* The managed wallet of one Telegram user: creating it, the per-user       *)
(* access tokens the gateway mints and the plugin caches, and withdrawals.  *)
(*                                                                         *)
(* A command is one thread of the plugin.  It asks the gateway for the      *)
(* wallet, which mints a token, or uses the token of the cache, and a       *)
(* withdrawal then posts its own request.  Each request is served by a      *)
(* thread of the gateway that goes on when the plugin stops listening.      *)
(*                                                                         *)
(* A token is the number of its minting and an address is the command that  *)
(* generated its key.  The single-token table of older deployments, other   *)
(* users and the counting of the rate limits are left out.                  *)
(***************************************************************************)
EXTENDS Integers, FiniteSets

CONSTANTS
    Commands,      \* commands of the user
    Withdrawals,   \* the ones that withdraw; the others ask for the wallet
    OnSolana,      \* the ones that ask for the Solana wallet
    Native,        \* the withdrawals of ETH; the others are of one ERC-20 token
    AmountOf,      \* amount of a withdrawal
    Funds,         \* balance of each asset before
    Reserve,       \* _native_eth_withdraw_gas_reserve
    MaxActive,     \* MAX_ACTIVE_ACCESS_TOKENS_PER_USER
    TokenTTL, Skew,     \* ACCESS_TOKEN_TTL_SECONDS, _USER_ACCESS_TOKEN_REFRESH_SKEW_SECONDS
    None

VARIABLES
    user,     \* the plugin's thread: idle, minting, ready, posted or done
    gw,       \* the gateway's thread for the request of the command
    late,     \* a tick passed since the plugin asked for a token
    held,     \* the token the command works with, 0 for none
    address,  \* the address the gateway gave the command
    reply,    \* what the gateway answered to the withdrawal
    told,     \* what the user was told of the withdrawal
    wallet,   \* the wallet on file for each chain
    tokens,   \* user_access_tokens_v2 of the user: the age of each token on file
    minted,   \* tokens minted so far
    cache,    \* the plugin's cached token and its age there
    open,     \* the command whose approval is pending
    tx,       \* the transfer of each withdrawal on chain
    balance   \* of each asset

plugin == <<user, late, told, cache>>
store == <<wallet, tokens, minted>>
chain == <<tx, balance>>
walletVars == <<plugin, gw, held, address, reply, store, open, chain>>

ASSUME WalletAssumption ==
    /\ Withdrawals \subseteq Commands /\ Native \subseteq Withdrawals
    /\ OnSolana \subseteq Commands \ Withdrawals
    /\ None \notin Commands
    /\ Reserve \in Nat /\ {MaxActive, TokenTTL, Skew} \subseteq Nat \ {0}
    /\ Skew < TokenTTL   \* and a tick is no longer than the skew, see WalletTick
    /\ AmountOf \in [Withdrawals -> Nat] /\ Funds \in [{"native", "erc20"} -> Nat]

Chains == {"base", "solana"}
NoToken == [token |-> 0, age |-> 0]
Assets == {"native", "erc20"}
ChainOf(c) == IF c \in OnSolana THEN "solana" ELSE "base"
AssetOf(c) == IF c \in Native THEN "native" ELSE "erc20"

WalletTypeOK ==
    /\ user \in [Commands -> {"idle", "minting", "ready", "posted", "done"}]
    /\ gw \in [Commands -> {"none", "asked", "issued", "absent", "found", "answered", "failed",
                            "received", "admitted", "priced", "asking", "approved", "sending",
                            "replied"}]
    /\ held \in [Commands -> 0 .. minted]
    /\ reply \in [Withdrawals -> {"none", "unauthorised", "no", "unknown", "sent"}]
    /\ told \in [Withdrawals -> {"none", "sign in failed", "try again", "sent"}]
    /\ address \in [Commands -> Commands \cup {None}]
    /\ wallet \in [Chains -> Commands \cup {None}]
    /\ minted \in Nat
    /\ DOMAIN tokens \subseteq 1 .. minted /\ tokens \in [DOMAIN tokens -> 0 .. TokenTTL - 1]
    /\ cache \in [token : 0 .. minted, age : Nat]
    /\ late \in [Commands -> BOOLEAN]
    /\ open \in Withdrawals \cup {None}
    /\ tx \in [Withdrawals -> {"none", "pending", "mined", "reverted"}]
    /\ balance \in [Assets -> Nat]

WalletInit ==
    /\ user = [c \in Commands |-> "idle"] /\ gw = [c \in Commands |-> "none"]
    /\ late = [c \in Commands |-> FALSE] /\ held = [c \in Commands |-> 0]
    /\ address = [c \in Commands |-> None]
    /\ reply = [c \in Withdrawals |-> "none"] /\ told = [c \in Withdrawals |-> "none"]
    /\ wallet = [n \in Chains |-> None]
    /\ tokens = [k \in {} |-> 0] /\ minted = 0
    /\ cache = NoToken
    /\ open = None
    /\ tx = [c \in Withdrawals |-> "none"] /\ balance = Funds

Enter(c, stage) == user' = [user EXCEPT ![c] = stage] /\ late' = [late EXCEPT ![c] = FALSE]
Serving(c, stage) == gw' = [gw EXCEPT ![c] = stage]

-----------------------------------------------------------------------------
(* The plugin: a token from the cache or a new one *)

Usable_NoSkew == cache.token # 0 /\ cache.age < TokenTTL

\* _user_access_token
Usable == cache.token # 0 /\ cache.age < TokenTTL - Skew

UseCachedToken(c) ==
    /\ c \in Withdrawals /\ user[c] = "idle" /\ Usable
    /\ held' = [held EXCEPT ![c] = cache.token]
    /\ Enter(c, "ready")
    /\ UNCHANGED <<gw, told, cache, address, reply, store, open, chain>>

\* create_wallet: for /wallet always, else when the cache has nothing usable
AskForWallet(c) ==
    /\ user[c] = "idle"
    /\ c \in Withdrawals => ~Usable
    /\ cache' = IF c \in Withdrawals THEN NoToken ELSE cache
    /\ Enter(c, "minting") /\ Serving(c, "asked")
    /\ UNCHANGED <<told, held, address, reply, store, open, chain>>

\* _remember_user_access_token
WalletArrives(c) ==
    /\ user[c] = "minting" /\ gw[c] = "answered"
    /\ cache' = [token |-> held[c], age |-> 0]
    /\ address' = [address EXCEPT ![c] = None]
    /\ IF c \in Withdrawals
       THEN Enter(c, "ready") /\ UNCHANGED held
       ELSE Enter(c, "done") /\ held' = [held EXCEPT ![c] = 0]
    /\ UNCHANGED <<gw, told, reply, store, open, chain>>

\* The call failed or took longer than the client's timeout
WalletLost(c) ==
    /\ user[c] = "minting"
    /\ Enter(c, "done")
    /\ told' = [w \in Withdrawals |-> IF w = c THEN "sign in failed" ELSE told[w]]
    /\ UNCHANGED <<gw, cache, held, address, reply, store, open, chain>>

-----------------------------------------------------------------------------
(* The gateway: ManagedWalletService.create_wallet *)

Newest_All(live) == live
Newest(live) == {k \in live : Cardinality({n \in live : n > k}) < MaxActive}
NewToken == minted + 1
AgeOnFile(k) == IF k = NewToken THEN 0 ELSE tokens[k]
Hand(c) == minted' = NewToken /\ held' = [held EXCEPT ![c] = NewToken]

\* The table of older deployments: one token for a user
IssueToken_Rotates(c) ==
    /\ tokens' = [k \in {NewToken} |-> 0]
    /\ Hand(c)

\* issue_access_token
IssueToken(c) ==
    /\ tokens' = [k \in Newest({NewToken} \cup DOMAIN tokens) |-> AgeOnFile(k)]
    /\ Hand(c)

\* Base mints before it looks for the wallet, Solana when it has one
Issue(c) ==
    /\ \/ gw[c] = "asked" /\ c \notin OnSolana /\ Serving(c, "issued")
       \/ gw[c] = "found" /\ Serving(c, "answered")
    /\ IssueToken(c)
    /\ UNCHANGED <<plugin, address, reply, wallet, open, chain>>

HasWallet(c) == wallet[ChainOf(c)] # None
Ready(c) == IF c \in OnSolana THEN "found" ELSE "answered"

LookForWallet(c) ==
    /\ gw[c] = IF c \in OnSolana THEN "asked" ELSE "issued"
    /\ Serving(c, IF HasWallet(c) THEN Ready(c) ELSE "absent")
    /\ address' = [address EXCEPT ![c] = wallet[ChainOf(c)]]
    /\ UNCHANGED <<plugin, held, reply, store, open, chain>>

InsertWallet_Replaces(c) ==
    /\ gw[c] = "absent"
    /\ wallet' = [wallet EXCEPT ![ChainOf(c)] = c]
    /\ address' = [address EXCEPT ![c] = c]
    /\ Serving(c, Ready(c))
    /\ UNCHANGED <<plugin, held, reply, tokens, minted, open, chain>>

\* insert_wallet; the IntegrityError of a user who has a wallet by now
InsertWallet(c) ==
    /\ gw[c] = "absent"
    /\ wallet' = IF HasWallet(c) THEN wallet ELSE [wallet EXCEPT ![ChainOf(c)] = c]
    /\ address' = [address EXCEPT ![c] = wallet'[ChainOf(c)]]
    /\ Serving(c, Ready(c))
    /\ UNCHANGED <<plugin, held, reply, tokens, minted, open, chain>>

\* No master key, a locked database, an audit row that cannot be written
CreateFails(c) ==
    /\ gw[c] \in {"asked", "issued", "absent", "found"}
    /\ Serving(c, "failed")
    /\ UNCHANGED <<plugin, held, address, reply, store, open, chain>>

Mint(c) == Issue(c) \/ LookForWallet(c) \/ InsertWallet(c) \/ CreateFails(c)

-----------------------------------------------------------------------------
(* A withdrawal: execute_withdrawal and _handle_agent_withdraw *)

Post(c) ==
    /\ c \in Withdrawals /\ user[c] = "ready"
    /\ user' = [user EXCEPT ![c] = "posted"]
    /\ Serving(c, "received")
    /\ UNCHANGED <<late, told, cache, held, address, reply, store, open, chain>>

Answer(c, words) == reply' = [reply EXCEPT ![c] = words] /\ Serving(c, "replied")

\* resolve_telegram_user_id
Known(token) == token \in DOMAIN tokens

\* _require_authenticated_user
Authorise(c) ==
    /\ gw[c] = "received"
    /\ IF Known(held[c])
       THEN Serving(c, "admitted") /\ held' = [held EXCEPT ![c] = 0] /\ UNCHANGED reply
       ELSE Answer(c, "unauthorised") /\ UNCHANGED held
    /\ UNCHANGED <<plugin, address, store, open, chain>>

\* _enforce_user_purchase_rate and the limit on requests: the user's other
\* requests of the hour are not counted here, any one may be too many
RateRefused(c) ==
    /\ gw[c] = "admitted"
    /\ Answer(c, "no")
    /\ UNCHANGED <<plugin, held, address, store, open, chain>>

\* withdrawable_tokens and the checks on it
Affordable(c) ==
    LET left == balance[AssetOf(c)] - AmountOf[c]
    IN  /\ wallet["base"] # None
        /\ balance[AssetOf(c)] >= AmountOf[c]
        /\ c \in Native => left >= Reserve

CheckBalance(c) ==
    /\ gw[c] = "admitted"
    /\ \/ Affordable(c) /\ Serving(c, "priced") /\ UNCHANGED reply
       \/ Answer(c, "no")     \* also when the balance lookup fails
    /\ UNCHANGED <<plugin, held, address, store, open, chain>>

\* request_hash_approval: one open approval for a user
Ask(c) ==
    /\ gw[c] = "priced"
    /\ \/ open = None /\ open' = c /\ Serving(c, "asking") /\ UNCHANGED reply
       \/ Answer(c, "no") /\ UNCHANGED open
    /\ UNCHANGED <<plugin, held, address, store, chain>>

\* The person's YES, or a NO, the deadline, an undelivered message
PersonDecides(c) ==
    /\ gw[c] = "asking"
    /\ open' = None
    /\ \/ Serving(c, "approved") /\ UNCHANGED reply
       \/ Answer(c, "no")
    /\ UNCHANGED <<plugin, held, address, store, chain>>

\* decrypt_private_key_for_future_signing, then transfer_attempted
Decrypt(c) ==
    /\ gw[c] = "approved"
    /\ \/ Serving(c, "sending") /\ UNCHANGED reply
       \/ Answer(c, "no")
    /\ UNCHANGED <<plugin, held, address, store, open, chain>>

\* transferTokenFromUserWallet, transferNativeFromUserWallet
Broadcast(c) ==
    /\ gw[c] = "sending" /\ tx[c] = "none"
    /\ tx' = [tx EXCEPT ![c] = "pending"]
    /\ UNCHANGED <<plugin, gw, held, address, reply, store, open, balance>>

Land(c) ==
    /\ tx[c] = "pending"
    /\ \/ /\ balance[AssetOf(c)] >= AmountOf[c]
          /\ tx' = [tx EXCEPT ![c] = "mined"]
          /\ balance' = [balance EXCEPT ![AssetOf(c)] = @ - AmountOf[c]]
       \/ /\ tx' = [tx EXCEPT ![c] = "reverted"]
          /\ UNCHANGED balance
    /\ UNCHANGED <<plugin, gw, held, address, reply, store, open>>

TransferEnds_AsBefore(c) ==
    /\ gw[c] = "sending"
    /\ \/ tx[c] = "mined" /\ Answer(c, "sent")
       \/ Answer(c, "no")
    /\ UNCHANGED <<plugin, held, address, store, open, chain>>

\* The receipt; or the script failed at any point or ran into its timeout
TransferEnds(c) ==
    /\ gw[c] = "sending"
    /\ \/ tx[c] = "mined" /\ Answer(c, "sent")
       \/ Answer(c, "unknown")
    /\ UNCHANGED <<plugin, held, address, store, open, chain>>

Serve(c) == Authorise(c) \/ RateRefused(c) \/ CheckBalance(c) \/ Ask(c) \/ PersonDecides(c) \/ Decrypt(c) \/ TransferEnds(c)

\* _post: an error response to a withdrawal is not read (_safe_http_error_message)
ReplyArrives(c) ==
    /\ c \in Withdrawals /\ user[c] = "posted" /\ gw[c] = "replied"
    /\ Enter(c, "done")
    /\ told' = [told EXCEPT ![c] = CASE reply[c] = "sent" -> "sent"
                                     [] reply[c] = "unauthorised" -> "sign in failed"
                                     [] OTHER -> "try again"]
    /\ UNCHANGED <<gw, cache, held, address, reply, store, open, chain>>

\* purchase_timeout is shorter than the approval and the transfer together
ReplyLate(c) ==
    /\ c \in Withdrawals /\ user[c] = "posted"
    /\ user' = [user EXCEPT ![c] = "done"]
    /\ told' = [told EXCEPT ![c] = "try again"]
    /\ UNCHANGED <<late, gw, cache, held, address, reply, store, open, chain>>

\* A mint may cross one tick (5 s or 15 s, and the skew is 300 s), a request on
\* its way to the gateway none.  A token that expires is dropped here; the code
\* stops accepting it and deletes it with the next minting
WalletTick ==
    /\ \A c \in Commands : ~late[c] /\ user[c] # "ready" /\ gw[c] # "received"
    /\ late' = [c \in Commands |-> user[c] = "minting"]
    /\ tokens' = [k \in {n \in DOMAIN tokens : tokens[n] + 1 < TokenTTL} |-> tokens[k] + 1]
    /\ cache' = IF cache.token # 0 /\ cache.age + 1 < TokenTTL
                THEN [cache EXCEPT !.age = @ + 1] ELSE NoToken
    /\ UNCHANGED <<user, gw, told, held, address, reply, wallet, minted, open, chain>>

Plugin(c) == \/ UseCachedToken(c) \/ AskForWallet(c) \/ WalletArrives(c) \/ WalletLost(c)
             \/ Post(c) \/ ReplyArrives(c) \/ ReplyLate(c)
Gateway(c) == Mint(c) \/ (c \in Withdrawals /\ Serve(c))
Chain(c) == c \in Withdrawals /\ (Broadcast(c) \/ Land(c))

WalletNext == WalletTick \/ \E c \in Commands : Plugin(c) \/ Gateway(c) \/ Chain(c)

WalletSpec == WalletInit /\ [][WalletNext]_walletVars

-----------------------------------------------------------------------------
(* Properties *)

\* Whoever is told an address is told the one whose key is on file, also when
\* two first commands create the wallet at the same time: no deposit goes to a
\* key that was thrown away
OneAddress ==
    \A c \in Commands : gw[c] = "answered" /\ user[c] = "minting" =>
        address[c] = wallet[ChainOf(c)]

\* A command is turned away for its token only when the user's other commands
\* had as many newer tokens minted as the gateway keeps: neither one concurrent
\* /wallet nor the age of a cached token does it
TokenTurnover ==
    \A c \in Withdrawals : reply[c] = "unauthorised" => minted >= held[c] + MaxActive

\* What the gateway says of the money is true and stays true: after an answer
\* that promises nothing moved no transfer of that withdrawal ever reaches the
\* chain, and "sent" means mined
AssuranceIsTrue ==
    \A c \in Withdrawals :
        /\ reply[c] \in {"no", "unauthorised"} => tx[c] = "none"
        /\ reply[c] = "sent" => tx[c] = "mined"

\* A user whose transfer may be on chain is not told to try again
\* (server.py 1318-1321: "telling the user otherwise invites them to withdraw a
\* second time")
NoInvitationToRepeat ==
    \A c \in Withdrawals : told[c] = "try again" => tx[c] \notin {"pending", "mined"}
=============================================================================
