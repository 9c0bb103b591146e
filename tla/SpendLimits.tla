----------------------------- MODULE SpendLimits -----------------------------
(***************************************************************************)
(* UserSpendLimitStore (sign402-gateway/sign402_gateway/server.py): the    *)
(* file in which the gateway keeps what each user spent today, the budget  *)
(* that purchases in flight hold, and the limits each user chose.          *)
(*                                                                         *)
(* Every method takes the store's lock, reads the file, changes it and     *)
(* replaces it atomically, so every method is one action.  A purchase is   *)
(* named by the id of its hold (secrets.token_urlsafe: never repeated).    *)
(* A budget belongs to a user and an asset; amounts are atomic units.      *)
(***************************************************************************)
EXTENDS Integers, FiniteSets, Functions

CONSTANTS
  Users, Assets,
  Ids,                        \* purchases, each with one hold at most
  DirectIds,                  \* the ones recorded without a hold (Bankr LLM)
  OwnerOf, AssetOf, AmountOf, \* who pays, in what, how much
  NoLimit,                    \* Python's None: no limit configured
  OperatorPerTx, OperatorDaily,   \* defaults a user may raise
  CeilingPerTx, CeilingDaily,     \* hard maximums
  LimitChoices,               \* the values users submit to /agent/spending-limits
  HoldTTL,                    \* SPEND_RESERVATION_TTL_SECONDS
  DayLength, RetentionDays,   \* SPEND_RECORD_RETENTION_DAYS
  MaxTime                     \* bound on the clock

ASSUME PurchasesAssumption ==
  /\ DirectIds \subseteq Ids
  /\ OwnerOf \in [Ids -> Users]
  /\ AssetOf \in [Ids -> Assets]
  /\ AmountOf \in [Ids -> Nat]

ASSUME LimitsAssumption ==
  /\ NoLimit \notin Int
  /\ {OperatorPerTx, OperatorDaily, CeilingPerTx, CeilingDaily}
       \subseteq (Nat \ {0}) \cup {NoLimit}
  /\ LimitChoices \subseteq Int

ASSUME TimeAssumption ==
  /\ HoldTTL \in Nat /\ MaxTime \in Nat /\ RetentionDays \in Nat
  /\ DayLength \in Nat \ {0}

VARIABLES
  now,      \* the clock the gateway reads
  records,  \* settled spend: [id, day]
  holds,    \* "reservations": [id, day, expiresAt]
  limits,   \* what each user configured: [perTx, daily]
  issued    \* ids handed out so far

storeVars == <<records, holds, limits, issued>>
vars == <<now, storeVars>>

Limit == (Nat \ {0}) \cup {NoLimit}
DayOf(t) == t \div DayLength
Today == DayOf(now)

\* _drop_expired_reservations
LiveHolds == {h \in holds : h.expiresAt > now}

\* _prune_old_records
Pruned(rs) == {r \in rs : r.day >= Today - RetentionDays}

Total(ids) == SumFunctionOnSet(AmountOf, ids)

\* _matches_scope, for the entries of one day
OnBudget(entries, u, a, d) ==
  {e.id : e \in {x \in entries : x.day = d /\ OwnerOf[x.id] = u /\ AssetOf[x.id] = a}}

\* _spent_today_unlocked
SpentToday(u, a) ==
  Total(OnBudget(records, u, a, Today)) + Total(OnBudget(LiveHolds, u, a, Today))

Clamp(l, ceiling) ==
  IF l # NoLimit /\ ceiling # NoLimit /\ ceiling < l THEN ceiling ELSE l

\* limit_settings: the user's own limits, else the operator's defaults,
\* clamped on read
LimitSettings(u) ==
  LET own == limits[u]
      Or(l, default) == IF l # NoLimit THEN l ELSE default
  IN  [perTx |-> Clamp(Or(own.perTx, OperatorPerTx), CeilingPerTx),
       daily |-> Clamp(Or(own.daily, OperatorDaily), CeilingDaily)]

\* A mutant: the budget that purchases in flight hold is left out.
FitsToday_RecordsOnly(i, lim) ==
  lim.daily # NoLimit =>
    Total(OnBudget(records, OwnerOf[i], AssetOf[i], Today)) + AmountOf[i] <= lim.daily

WithinPerTx(i, lim) == lim.perTx # NoLimit => AmountOf[i] <= lim.perTx
FitsToday(i, lim) ==
  lim.daily # NoLimit => SpentToday(OwnerOf[i], AssetOf[i]) + AmountOf[i] <= lim.daily

Init ==
  /\ now = 0
  /\ records = {} /\ holds = {} /\ issued = {}
  /\ limits = [u \in Users |-> [perTx |-> NoLimit, daily |-> NoLimit]]

\* reserve_within_limits, with the limits its caller read before
Reserve(i, lim) ==
  /\ i \notin issued
  /\ WithinPerTx(i, lim) /\ FitsToday(i, lim)
  /\ holds' = LiveHolds \cup {[id |-> i, day |-> Today, expiresAt |-> now + HoldTTL]}
  /\ issued' = issued \cup {i}
  /\ UNCHANGED <<now, records, limits>>

\* ... and the two ways it returns None
RefusePerTx(i, lim) ==
  /\ ~WithinPerTx(i, lim)
  /\ UNCHANGED vars
RefuseDaily(i, lim) ==
  /\ WithinPerTx(i, lim) /\ ~FitsToday(i, lim)
  /\ holds' = LiveHolds
  /\ UNCHANGED <<now, records, limits, issued>>

\* A mutant: every hold of the user goes.
Release_AllOfUser(i) ==
  /\ holds' = {h \in LiveHolds : OwnerOf[h.id] # OwnerOf[i]}
  /\ UNCHANGED <<now, records, limits, issued>>

\* release_reservation
Release(i) ==
  /\ holds' = {h \in LiveHolds : h.id # i}
  /\ UNCHANGED <<now, records, limits, issued>>

\* Mutants: the hold stays; the record gets the day of the settlement; the
\* record replaces the file's.
SettleHeld_KeepsHold(i) ==
  \E h \in LiveHolds :
    /\ h.id = i
    /\ holds' = LiveHolds
    /\ records' = Pruned(records \cup {[id |-> i, day |-> h.day]})
    /\ UNCHANGED <<now, limits, issued>>
SettleHeld_OnToday(i) ==
  \E h \in LiveHolds :
    /\ h.id = i
    /\ holds' = LiveHolds \ {h}
    /\ records' = Pruned(records \cup {[id |-> i, day |-> Today]})
    /\ UNCHANGED <<now, limits, issued>>
SettleHeld_Overwrites(i) ==
  \E h \in LiveHolds :
    /\ h.id = i
    /\ holds' = LiveHolds \ {h}
    /\ records' = {[id |-> i, day |-> h.day]}
    /\ UNCHANGED <<now, limits, issued>>

\* settle_reservation of a hold that is still there: it becomes a record
\* of the day it was made on
SettleHeld(i) ==
  \E h \in LiveHolds :
    /\ h.id = i
    /\ holds' = LiveHolds \ {h}
    /\ records' = Pruned(records \cup {[id |-> i, day |-> h.day]})
    /\ UNCHANGED <<now, limits, issued>>

\* settle_reservation when the hold is gone: the file is written back and
\* None returned
SettleExpired(i) ==
  /\ \A h \in LiveHolds : h.id # i
  /\ holds' = LiveHolds
  /\ UNCHANGED <<now, records, limits, issued>>

Settle(i) == SettleHeld(i) \/ SettleExpired(i)

\* record_successful_spend: no hold, no cap check
RecordSpend(i) ==
  /\ i \notin issued
  /\ records' = Pruned(records \cup {[id |-> i, day |-> Today]})
  /\ issued' = issued \cup {i}
  /\ UNCHANGED <<now, holds, limits>>

\* A mutant: zero is accepted as a limit.
SetLimits_AllowsZero(u, perTx, daily) ==
  /\ 0 <= perTx /\ perTx <= daily
  /\ limits' = [limits EXCEPT ![u] = [perTx |-> perTx, daily |-> daily]]
  /\ UNCHANGED <<now, records, holds, issued>>

\* set_limit_settings
SetLimits(u, perTx, daily) ==
  /\ 0 < perTx /\ perTx <= daily
  /\ CeilingPerTx # NoLimit => perTx <= CeilingPerTx
  /\ CeilingDaily # NoLimit => daily <= CeilingDaily
  /\ limits' = [limits EXCEPT ![u] = [perTx |-> perTx, daily |-> daily]]
  /\ UNCHANGED <<now, records, holds, issued>>

Tick ==
  /\ now < MaxTime
  /\ now' = now + 1
  /\ UNCHANGED storeVars

\* The store used by any handler, in any order: an id is settled or
\* released only after it was reserved.
Next ==
  \/ Tick
  \/ \E u \in Users, p, d \in LimitChoices : SetLimits(u, p, d)
  \/ \E i \in Ids \ DirectIds :
       LET lim == LimitSettings(OwnerOf[i]) IN
       \/ Reserve(i, lim)
       \/ i \notin issued /\ RefuseDaily(i, lim)
       \/ i \in issued /\ Release(i)
       \/ i \in issued /\ Settle(i)
  \/ \E i \in DirectIds : RecordSpend(i)

Spec == Init /\ [][Next]_vars

-----------------------------------------------------------------------------
\* The shape of the store's file.
TypeOK ==
  /\ now \in Nat
  /\ issued \subseteq Ids
  /\ limits \in [Users -> [perTx : Limit, daily : Limit]]
  /\ records \subseteq [id : Ids, day : Nat]
  /\ holds \subseteq [id : Ids, day : Nat, expiresAt : Nat]

\* A purchase is counted once: it has a hold or a record, never both and
\* never two, whatever order handlers reserve, settle and release in
\* ("without double-counting it", settle_reservation).
CountedOnce ==
  /\ \A r \in records : \A h \in holds : r.id # h.id
  /\ \A r, s \in records : r.id = s.id => r = s
  /\ \A g, h \in holds : g.id = h.id => g = h

\* What purchases reserved for one user and asset, settled or still held, on
\* any one day, never exceeds the operator's ceiling, however users change
\* their own limits in between (limit_settings clamps on every read), as long
\* as the operator's daily default is on: without it there is nothing to clamp.
ReservedOn(u, a, d) ==
  Total((OnBudget(records, u, a, d) \cup OnBudget(LiveHolds, u, a, d)) \ DirectIds)
ReservedWithinCeiling ==
  CeilingDaily # NoLimit =>
    \A u \in Users, a \in Assets, d \in 0..Today : ReservedOn(u, a, d) <= CeilingDaily

\* Nothing that still counts today is ever forgotten except by releasing a
\* hold that was not settled: settled spend of today stays on the file.
TodayNeverForgotten ==
  [][\A r \in records \ records' : r.day < DayOf(now')]_vars
=============================================================================
