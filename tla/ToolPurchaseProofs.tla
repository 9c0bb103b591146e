------------------------- MODULE ToolPurchaseProofs -------------------------
(***************************************************************************)
(* Theorems about the spend store and about the purchases of managed       *)
(* wallets that use it, for any users, requests, limits and lengths of     *)
(* time.  The store comes first, one lemma per operation: its own          *)
(* specification and the handler threads are both made of them.            *)
(*                                                                         *)
(* A thread that holds budget knows how old its hold can be: no time       *)
(* passes between the calls of a handler, and the waits for a person and   *)
(* for the payer are bounded.  Where those bounds add up to less than the  *)
(* life of a hold (120 s and 180 s against 900 s), the hold is still there *)
(* when it is settled.                                                     *)
(***************************************************************************)
EXTENDS ToolPurchase, FiniteSums, TLAPS

\* An id on the file was handed out; a hold and a record carry distinct ids.
Handed ==
  /\ \A r \in records : r.id \in issued
  /\ \A h \in holds : h.id \in issued

IInv == TypeOK /\ Handed /\ CountedOnce

\* A day is a natural number.
LEMMA DayType == ASSUME NEW t \in Nat PROVE DayOf(t) \in Nat
  BY TimeAssumption DEF DayOf

\* Pruning and expiry only take entries away.
LEMMA PrunedSubset == ASSUME NEW rs PROVE Pruned(rs) \subseteq rs
  BY DEF Pruned
LEMMA LiveSubset == LiveHolds \subseteq holds
  BY DEF LiveHolds

LEMMA InitIInv == Init => IInv
  BY DEF Init, IInv, TypeOK, Handed, CountedOnce, Limit

\* What each operation of the store keeps.
LEMMA TickKeeps == ASSUME IInv, Tick PROVE IInv'
  BY DEF IInv, TypeOK, Handed, CountedOnce, Tick, storeVars

LEMMA SetLimitsKeeps ==
  ASSUME IInv, NEW u \in Users, NEW p \in LimitChoices, NEW d \in LimitChoices,
         SetLimits(u, p, d)
  PROVE  IInv'
  BY LimitsAssumption DEF IInv, TypeOK, Handed, CountedOnce, SetLimits, Limit

LEMMA ReserveKeeps ==
  ASSUME IInv, NEW i \in Ids, NEW lims, Reserve(i, lims)
  PROVE  IInv'
<1>1. Today \in Nat
  BY DayType DEF Today, IInv, TypeOK
<1> QED
  BY <1>1, TimeAssumption DEF IInv, TypeOK, Handed, CountedOnce, Reserve, LiveHolds

LEMMA RefuseDailyKeeps ==
  ASSUME IInv, NEW i \in Ids, NEW lims, RefuseDaily(i, lims)
  PROVE  IInv'
  BY DEF IInv, TypeOK, Handed, CountedOnce, RefuseDaily, LiveHolds

LEMMA ReleaseKeeps ==
  ASSUME IInv, NEW i \in Ids, Release(i)
  PROVE  IInv'
  BY DEF IInv, TypeOK, Handed, CountedOnce, Release, LiveHolds

LEMMA SettleKeeps ==
  ASSUME IInv, NEW i \in Ids, Settle(i)
  PROVE  IInv'
<1>1. CASE SettleHeld(i)
  BY <1>1 DEF IInv, TypeOK, Handed, CountedOnce, SettleHeld, LiveHolds, Pruned
<1>2. CASE SettleExpired(i)
  BY <1>2 DEF IInv, TypeOK, Handed, CountedOnce, SettleExpired, LiveHolds
<1> QED
  BY <1>1, <1>2 DEF Settle

LEMMA RecordKeeps ==
  ASSUME IInv, NEW i \in DirectIds, RecordSpend(i)
  PROVE  IInv'
<1>1. Today \in Nat
  BY DayType DEF Today, IInv, TypeOK
<1> QED
  BY <1>1, PurchasesAssumption
     DEF IInv, TypeOK, Handed, CountedOnce, RecordSpend, Pruned

LEMMA UnchangedKeeps == ASSUME IInv, UNCHANGED vars PROVE IInv'
  BY DEF IInv, TypeOK, Handed, CountedOnce, vars, storeVars

LEMMA StepIInv == IInv /\ [Next]_vars => IInv'
  BY TickKeeps, SetLimitsKeeps, ReserveKeeps, RefuseDailyKeeps, ReleaseKeeps, SettleKeeps,
     RecordKeeps, UnchangedKeeps DEF Next

\* The invariant holds throughout, whoever calls the store.
THEOREM StoreInvariance == Spec => []IInv
<1>1. Init => IInv
  BY InitIInv
<1>2. IInv /\ [Next]_vars => IInv'
  BY StepIInv
<1> QED
  BY <1>1, <1>2, PTL DEF Spec

\* The file keeps its shape.
THEOREM StoreTypeCorrect == Spec => []TypeOK
  BY StoreInvariance, PTL DEF IInv

\* No purchase is counted twice, whatever handlers do in whatever order.
THEOREM NoDoubleCount == Spec => []CountedOnce
  BY StoreInvariance, PTL DEF IInv

\* Pruning reaches no record of the current day.
LEMMA StepPruned ==
  IInv /\ [Next]_vars => \A r \in records \ records' : r.day < DayOf(now')
<1> SUFFICES ASSUME IInv, [Next]_vars, NEW r \in records \ records'
             PROVE  r.day < DayOf(now')
  OBVIOUS
<1>1. Today \in Nat /\ r.day \in Nat
  BY DayType DEF IInv, TypeOK, Today
<1>2. ASSUME NEW rs, records \subseteq rs, records' = Pruned(rs), now' = now
      PROVE  r.day < DayOf(now')
  <2>1. r.day < Today - RetentionDays
    BY <1>1, <1>2, TimeAssumption DEF Pruned
  <2> QED
    BY <1>1, <1>2, <2>1, TimeAssumption DEF Today
<1>3. ASSUME NEW i \in Ids, SettleHeld(i) PROVE r.day < DayOf(now')
  BY <1>2, <1>3 DEF SettleHeld
<1>4. ASSUME NEW i \in DirectIds, RecordSpend(i) PROVE r.day < DayOf(now')
  BY <1>2, <1>4 DEF RecordSpend
<1>5. CASE records' = records
  BY <1>5
<1> QED
  BY <1>3, <1>4, <1>5
  DEF Next, Settle, Tick, storeVars, vars, SetLimits, Reserve, RefuseDaily, Release, SettleExpired

THEOREM TodayStaysOnFile == Spec => TodayNeverForgotten
<1>1. IInv /\ [Next]_vars => [\A r \in records \ records' : r.day < DayOf(now')]_vars
  BY StepPruned
<1> QED
  BY <1>1, StoreInvariance, PTL DEF Spec, TodayNeverForgotten

-----------------------------------------------------------------------------
(* The ceiling: what reservations add to one day's budget stays under it,   *)
(* because every limit is clamped when it is read and a reservation that    *)
(* fits counts every other one that is settled or held.                     *)

Reserved(u, a, d) == (OnBudget(records, u, a, d) \cup OnBudget(LiveHolds, u, a, d)) \ DirectIds
CeilingInv ==
  /\ IsFiniteSet(issued)
  /\ \A u \in Users, a \in Assets, d \in Nat : Total(Reserved(u, a, d)) <= CeilingDaily

\* What is on a budget was handed out, so there is a sum over it.
LEMMA OnFileIsIssued ==
  ASSUME IInv, NEW u, NEW a, NEW d
  PROVE  /\ OnBudget(records, u, a, d) \subseteq issued
         /\ OnBudget(LiveHolds, u, a, d) \subseteq issued
         /\ Reserved(u, a, d) \subseteq issued
BY DEF IInv, Handed, OnBudget, LiveHolds, Reserved

LEMMA TotalsAreNat ==
  ASSUME IInv, IsFiniteSet(issued), NEW S \in SUBSET issued
  PROVE  IsFiniteSet(S) /\ Total(S) \in Nat /\ \A x \in S : AmountOf[x] \in Nat
<1>1. IsFiniteSet(S)
  BY FS_Subset
<1>2. \A x \in S : AmountOf[x] \in Nat
  BY PurchasesAssumption DEF IInv, TypeOK
<1> QED
  BY <1>1, <1>2, SumType DEF Total

\* With the operator's default on, every limit that is read is under the ceiling.
LEMMA ClampedLimit ==
  ASSUME TypeOK, NEW u \in Users, OperatorDaily # NoLimit, CeilingDaily # NoLimit
  PROVE  /\ LimitSettings(u).daily # NoLimit /\ LimitSettings(u).daily \in Nat
         /\ LimitSettings(u).daily <= CeilingDaily /\ CeilingDaily \in Nat
<1> DEFINE l == IF limits[u].daily # NoLimit THEN limits[u].daily ELSE OperatorDaily
<1>1. CeilingDaily \in Nat /\ OperatorDaily \in Nat /\ NoLimit \notin Nat
  BY LimitsAssumption
<1>2. limits[u].daily \in Limit
  BY DEF TypeOK
<1>3. l \in Nat /\ l # NoLimit
  BY <1>1, <1>2 DEF Limit
<1>4. LimitSettings(u).daily = Clamp(l, CeilingDaily)
  BY DEF LimitSettings
<1> HIDE DEF l
<1> QED
  BY <1>1, <1>3, <1>4 DEF Clamp

\* A step that adds nothing to any budget.
LEMMA NothingAdded ==
  ASSUME IInv, IInv', CeilingInv, CeilingDaily \in Nat, IsFiniteSet(issued'),
         NEW u \in Users, NEW a \in Assets, NEW d \in Nat,
         Reserved(u, a, d)' \subseteq Reserved(u, a, d)
  PROVE  Total(Reserved(u, a, d)') <= CeilingDaily
<1>1. /\ IsFiniteSet(Reserved(u, a, d)) /\ Total(Reserved(u, a, d)) \in Nat
      /\ \A x \in Reserved(u, a, d) : AmountOf[x] \in Nat
  BY OnFileIsIssued, TotalsAreNat DEF CeilingInv
<1>2. Total(Reserved(u, a, d)') <= Total(Reserved(u, a, d))
  BY <1>1, SumOfPart DEF Total
<1>3. Total(Reserved(u, a, d)') \in Nat
  <2>1. Reserved(u, a, d)' \in SUBSET issued
    BY OnFileIsIssued
  <2> QED
    BY <2>1, TotalsAreNat DEF CeilingInv
<1>4. Total(Reserved(u, a, d)) <= CeilingDaily
  BY DEF CeilingInv
<1> QED
  BY <1>1, <1>2, <1>3, <1>4

\* A reservation that fits.
LEMMA ReserveUnderCeiling ==
  ASSUME IInv, CeilingInv, OperatorDaily # NoLimit, CeilingDaily # NoLimit,
         NEW i \in Ids \ DirectIds, Reserve(i, LimitSettings(OwnerOf[i]))
  PROVE  CeilingInv'
<1> DEFINE lims == LimitSettings(OwnerOf[i])
<1>1. OwnerOf[i] \in Users /\ AssetOf[i] \in Assets /\ AmountOf[i] \in Nat
  BY PurchasesAssumption
<1>2. lims.daily # NoLimit /\ lims.daily \in Nat /\ lims.daily <= CeilingDaily /\ CeilingDaily \in Nat
  BY <1>1, ClampedLimit DEF IInv
<1>3. IInv' /\ issued' = issued \cup {i} /\ IsFiniteSet(issued') /\ i \notin issued
  BY ReserveKeeps, FS_AddElement DEF Reserve, CeilingInv
<1> SUFFICES ASSUME NEW u \in Users, NEW a \in Assets, NEW d \in Nat
             PROVE  Total(Reserved(u, a, d)') <= CeilingDaily
  BY <1>3 DEF CeilingInv, Total
<1>4. /\ records' = records /\ now' = now
      /\ holds' = LiveHolds \cup {[id |-> i, day |-> Today, expiresAt |-> now + HoldTTL]}
  BY DEF Reserve
<1>5. LiveHolds' \subseteq LiveHolds \cup {[id |-> i, day |-> Today, expiresAt |-> now + HoldTTL]}
  BY <1>4 DEF LiveHolds
<1>6. CASE u = OwnerOf[i] /\ a = AssetOf[i] /\ d = Today
  <2> DEFINE R == OnBudget(records, u, a, d)
             H == OnBudget(LiveHolds, u, a, d)
             old == Reserved(u, a, d)
             new == Reserved(u, a, d)'
  <2>1. new \subseteq old \cup {i} /\ old \subseteq R \cup H
    BY <1>4, <1>5 DEF Reserved, OnBudget
  <2>2. R \in SUBSET issued /\ H \in SUBSET issued /\ R \cup H \in SUBSET issued /\ old \in SUBSET issued
    BY OnFileIsIssued
  <2>3. i \notin old
    BY <1>3, <2>2
  <2>4. Total(R) + Total(H) + AmountOf[i] <= lims.daily
    BY <1>2, <1>6 DEF Reserve, FitsToday, SpentToday
  <2> HIDE DEF R, H, old, new, lims
  <2>5. /\ IsFiniteSet(R) /\ IsFiniteSet(H) /\ IsFiniteSet(R \cup H) /\ IsFiniteSet(old)
        /\ Total(R) \in Nat /\ Total(H) \in Nat /\ Total(R \cup H) \in Nat /\ Total(old) \in Nat
        /\ \A x \in R \cup H : AmountOf[x] \in Nat
    BY <2>2, TotalsAreNat DEF CeilingInv
  <2>6. Total(R \cup H) <= Total(R) + Total(H)
    BY <2>5, SumOfUnion DEF Total
  <2>7. Total(old) <= Total(R \cup H)
    BY <2>1, <2>5, SumOfPart DEF Total
  <2>8. Total(old \cup {i}) = AmountOf[i] + Total(old)
    <3>1. \A x \in old : AmountOf[x] \in Nat
      BY <2>1, <2>5
    <3> QED
      BY <1>1, <2>3, <2>5, <3>1, SumAdd DEF Total
  <2>9. Total(new) <= Total(old \cup {i})
    <3>1. IsFiniteSet(old \cup {i}) /\ \A x \in old \cup {i} : AmountOf[x] \in Nat
      BY <1>1, <2>1, <2>5, FS_AddElement
    <3> QED
      BY <2>1, <3>1, SumOfPart DEF Total
  <2>10. Total(new) \in Nat
    <3>1. new \in SUBSET issued'
      BY <1>3, <2>1, <2>2
    <3>2. IsFiniteSet(new) /\ \A x \in new : AmountOf[x] \in Nat
      BY <1>3, <3>1, FS_Subset, PurchasesAssumption DEF IInv, TypeOK
    <3> QED
      BY <3>2, SumType DEF Total
  <2>11. Total(new) <= CeilingDaily
    BY <1>1, <1>2, <2>4, <2>5, <2>6, <2>7, <2>8, <2>9, <2>10
  <2> QED
    BY <2>11 DEF new
<1>7. CASE ~(u = OwnerOf[i] /\ a = AssetOf[i] /\ d = Today)
  <2>1. Reserved(u, a, d)' \subseteq Reserved(u, a, d)
    BY <1>4, <1>5, <1>7 DEF Reserved, OnBudget
  <2> QED
    BY <1>2, <1>3, <2>1, NothingAdded
<1> QED
  BY <1>6, <1>7

\* Every other operation adds to no budget but with what a hold had on it.
LEMMA OthersAddNothing ==
  ASSUME IInv,
         \/ Tick \/ UNCHANGED vars
         \/ \E u \in Users, p, d \in LimitChoices : SetLimits(u, p, d)
         \/ \E i \in Ids \ DirectIds :
              RefuseDaily(i, LimitSettings(OwnerOf[i])) \/ Release(i) \/ Settle(i)
         \/ \E i \in DirectIds : RecordSpend(i),
         NEW u \in Users, NEW a \in Assets, NEW d \in Nat
  PROVE  Reserved(u, a, d)' \subseteq Reserved(u, a, d)
<1>1. ASSUME records' \subseteq records, LiveHolds' \subseteq LiveHolds
      PROVE  Reserved(u, a, d)' \subseteq Reserved(u, a, d)
  BY <1>1 DEF Reserved, OnBudget
<1>2. CASE Tick
  <2>1. records' = records /\ LiveHolds' \subseteq LiveHolds
    BY <1>2 DEF Tick, storeVars, LiveHolds, IInv, TypeOK
  <2> QED
    BY <1>1, <2>1
<1>3. CASE \/ UNCHANGED vars
           \/ \E v \in Users, p, e \in LimitChoices : SetLimits(v, p, e)
           \/ \E i \in Ids \ DirectIds :
                RefuseDaily(i, LimitSettings(OwnerOf[i])) \/ Release(i) \/ SettleExpired(i)
  <2>1. records' = records /\ LiveHolds' \subseteq LiveHolds
    BY <1>3 DEF vars, storeVars, SetLimits, RefuseDaily, Release, SettleExpired, LiveHolds
  <2> QED
    BY <1>1, <2>1
<1>4. ASSUME NEW i \in Ids, SettleHeld(i)
      PROVE  Reserved(u, a, d)' \subseteq Reserved(u, a, d)
  <2>1. PICK h \in LiveHolds :
          /\ h.id = i /\ holds' = LiveHolds \ {h} /\ now' = now
          /\ records' = Pruned(records \cup {[id |-> i, day |-> h.day]})
    BY <1>4 DEF SettleHeld
  <2>2. records' \subseteq records \cup {[id |-> h.id, day |-> h.day]} /\ LiveHolds' \subseteq LiveHolds
    BY <2>1, PrunedSubset DEF LiveHolds
  <2> QED
    BY <2>2 DEF Reserved, OnBudget
<1>5. ASSUME NEW i \in DirectIds, RecordSpend(i)
      PROVE  Reserved(u, a, d)' \subseteq Reserved(u, a, d)
  <2>1. /\ records' \subseteq records \cup {[id |-> i, day |-> Today]}
        /\ LiveHolds' = LiveHolds
    BY <1>5, PrunedSubset DEF RecordSpend, LiveHolds
  <2> QED
    BY <2>1 DEF Reserved, OnBudget
<1> QED
  BY <1>2, <1>3, <1>4, <1>5 DEF Settle

\* However users change their limits, what purchases reserve for one user and
\* asset on one day stays within the operator's ceiling, for as long as the
\* operator's daily default is on.
THEOREM CeilingHolds == OperatorDaily # NoLimit => (Spec => []ReservedWithinCeiling)
<1> SUFFICES ASSUME OperatorDaily # NoLimit PROVE Spec => []ReservedWithinCeiling
  OBVIOUS
<1> DEFINE Under == CeilingDaily # NoLimit => CeilingInv
<1>1. Init => Under
  <2> SUFFICES ASSUME Init, CeilingDaily # NoLimit PROVE CeilingInv
    OBVIOUS
  <2>1. CeilingDaily \in Nat
    BY LimitsAssumption
  <2>2. \A u, a, d : Reserved(u, a, d) = {}
    BY DEF Init, Reserved, OnBudget, LiveHolds
  <2>3. Total({}) = 0
    BY SumType, FS_EmptySet DEF Total
  <2> QED
    BY <2>1, <2>2, <2>3, FS_EmptySet DEF CeilingInv, Init
<1>2. IInv /\ Under /\ [Next]_vars => Under'
  <2> SUFFICES ASSUME IInv, CeilingInv, CeilingDaily # NoLimit, [Next]_vars
               PROVE  CeilingInv'
    OBVIOUS
  <2>1. CASE \E i \in Ids \ DirectIds : Reserve(i, LimitSettings(OwnerOf[i]))
    BY <2>1, ReserveUnderCeiling
  <2>2. CASE \/ Tick \/ UNCHANGED vars
             \/ \E u \in Users, p, d \in LimitChoices : SetLimits(u, p, d)
             \/ \E i \in Ids \ DirectIds :
                  RefuseDaily(i, LimitSettings(OwnerOf[i])) \/ Release(i) \/ Settle(i)
             \/ \E i \in DirectIds : RecordSpend(i)
    <3>1. IInv' /\ CeilingDaily \in Nat
      BY StepIInv, LimitsAssumption
    <3>2. IsFiniteSet(issued')
      <4>1. issued' = issued \/ \E i \in DirectIds : issued' = issued \cup {i}
        BY <2>2 DEF Tick, vars, storeVars, SetLimits, RefuseDaily, Release, Settle, SettleHeld,
                    SettleExpired, RecordSpend
      <4> QED
        BY <4>1, FS_AddElement DEF CeilingInv
    <3> SUFFICES ASSUME NEW u \in Users, NEW a \in Assets, NEW d \in Nat
                 PROVE  Total(Reserved(u, a, d)') <= CeilingDaily
      BY <3>2 DEF CeilingInv, Total
    <3>3. Reserved(u, a, d)' \subseteq Reserved(u, a, d)
      BY <2>2, OthersAddNothing
    <3> QED
      BY <3>1, <3>2, <3>3, NothingAdded
  <2> QED
    BY <2>1, <2>2 DEF Next
<1>3. IInv /\ Under => ReservedWithinCeiling
  <2> SUFFICES ASSUME IInv, CeilingInv, CeilingDaily # NoLimit,
                      NEW u \in Users, NEW a \in Assets, NEW d \in 0 .. Today
               PROVE  ReservedOn(u, a, d) <= CeilingDaily
    BY DEF ReservedWithinCeiling
  <2>1. d \in Nat
    BY DayType DEF Today, IInv, TypeOK
  <2> QED
    BY <2>1 DEF CeilingInv, ReservedOn, Reserved
<1> QED
  BY <1>1, <1>2, <1>3, StoreInvariance, PTL DEF Spec

-----------------------------------------------------------------------------
(* The purchases *)

\* A purchase that has not reserved has no id; one that is over holds nothing.
NotYet == \A i \in Attempts : step[i] \in {"idle", "scoped"} => i \notin issued
GivenBack ==
  \A i \in Attempts :
    \/ step[i] \in {"counted", "remembering"}
    \/ step[i] \in {"unclaiming", "ended"} /\ i \notin misled
    => \A h \in holds : h.id # i
Unclaimed ==
  \A i \in Attempts : step[i] \in {"idle", "scoped", "reserved", "asking"} => i \notin claimed
\* A claim is held by a thread that will settle it, or give it back, or died.
ClaimKept ==
  \A i \in Attempts :
    claims[Key(i)].state = "held" /\ claims[Key(i)].by = {i} =>
      /\ i \in claimed
      /\ step[i] \in {"approved", "paying", "paid", "counted", "releasing", "unclaiming", "dead"}
\* A payment that was made, and not reported as failed, is never released.
MovedForward ==
  \A i \in moved \ misled :
    step[i] \in {"paying", "paid", "counted", "remembering", "ended", "dead"}
\* A thread that may pay, or has paid, on its own claim, and when it took it.
OnClaim(i) == i \in claimed \ misled /\ (step[i] \in {"approved", "paying"} \/ i \in moved)
TakenAt(i) == IF step[i] = "approved" THEN now ELSE since[i]
\* Its claim is there, was settled, or has aged out; so the next one is later.
ClaimStands ==
  \A i \in Attempts : OnClaim(i) =>
    \/ claims[Key(i)] = [state |-> "held", at |-> TakenAt(i), by |-> {i}]
    \/ claims[Key(i)].state = "settled"
    \/ TakenAt(i) + ClaimTTL <= now
ClaimsApart ==
  \A i, j \in Attempts : OnClaim(i) /\ OnClaim(j) /\ i # j /\ Key(i) = Key(j) =>
    TakenAt(i) + ClaimTTL <= TakenAt(j) \/ TakenAt(j) + ClaimTTL <= TakenAt(i)

ToolInv ==
  /\ ToolTypeOK /\ Handed /\ CountedOnce
  /\ NotYet /\ GivenBack /\ Unclaimed /\ ClaimKept /\ MovedForward /\ ClaimStands /\ ClaimsApart

USE DEF Attempts

LEMMA KeyType == ASSUME NEW i \in Attempts PROVE Key(i) \in ClaimKey
  BY PurchasesAssumption, ToolAssumption DEF Key, ClaimKey

LEMMA UnlimitedType == Unlimited \in [perTx : Limit, daily : Limit]
  BY DEF Unlimited, Limit

LEMMA ScopeType ==
  ASSUME TypeOK, NEW u \in Users
  PROVE  LimitSettings(u) \in [perTx : Limit, daily : Limit]
<1> DEFINE Or(l, default) == IF l # NoLimit THEN l ELSE default
<1>1. \A l \in Limit, c \in Limit : Clamp(l, c) \in Limit
  BY DEF Clamp
<1>2. {OperatorPerTx, OperatorDaily, CeilingPerTx, CeilingDaily} \subseteq Limit
  BY LimitsAssumption DEF Limit
<1>3. limits[u].perTx \in Limit /\ limits[u].daily \in Limit
  BY DEF TypeOK
<1> QED
  BY <1>1, <1>2, <1>3 DEF LimitSettings

\* Where a thread goes.
LEMMA GotoStep ==
  ASSUME step \in [Attempts -> Steps], NEW i \in Attempts, NEW s \in Steps, Goto(i, s)
  PROVE  /\ step' \in [Attempts -> Steps] /\ step'[i] = s
         /\ \A j \in Attempts \ {i} : step'[j] = step[j]
  BY DEF Goto

LEMMA GoWaitStep ==
  ASSUME ToolTypeOK, NEW i \in Attempts, NEW s \in Steps, GoWait(i, s)
  PROVE  /\ step' \in [Attempts -> Steps] /\ step'[i] = s
         /\ \A j \in Attempts \ {i} : step'[j] = step[j]
         /\ since' \in [Attempts -> Nat] /\ since'[i] = now
         /\ \A j \in Attempts \ {i} : since'[j] = since[j]
  BY DEF GoWait, Goto, ToolTypeOK, TypeOK

\* A thread that moves on without a call to the store or to the claims.
Onward(i) ==
  /\ step' \in [Attempts -> Steps] /\ \A j \in Attempts \ {i} : step'[j] = step[j]
  /\ since' \in [Attempts -> Nat] /\ \A j \in Attempts \ {i} : since'[j] = since[j]
  /\ lim' \in [Attempts -> [perTx : Limit, daily : Limit]]
  /\ misled \subseteq misled' /\ misled' \subseteq misled \cup {i}
  /\ UNCHANGED <<vars, claimed, claims, moved, crashes>>
\* ... on a path of the handler
OnPath(i) ==
  LET from == step[i]
      to == step'[i]
  IN  /\ to \in {"reserved", "asking"} => from \in {"reserved", "asking"}
      /\ to \in {"idle", "scoped"} => from \in {"idle", "scoped"}
      /\ to \in {"counted", "remembering"} => from \in {"counted", "remembering"}
      /\ to \in {"unclaiming", "ended"} => from = "remembering"
      /\ from \in {"approved", "paying", "paid", "counted", "releasing", "unclaiming", "dead"} =>
           to \in {"approved", "paying", "paid", "counted", "releasing", "unclaiming", "dead"}
      /\ to \in {"approved", "paying"} => from \in {"asking", "approved"}
      /\ from = "approved" => (to = "paying" /\ since'[i] = now) \/ to = "releasing"
      /\ since'[i] = since[i] \/ from \in {"reserved", "approved"}
      /\ i \in moved => i \in misled' \/
           to \in {"paying", "paid", "counted", "remembering", "ended", "dead"}

LEMMA OnwardStep ==
  ASSUME ToolInv, NEW i \in Attempts, Onward(i), OnPath(i)
  PROVE  ToolInv'
<1> USE DEF ToolInv, Onward
<1>1. ToolTypeOK' /\ Handed' /\ CountedOnce'
  <2>1. IInv'
    BY UnchangedKeeps DEF IInv, ToolTypeOK
  <2> QED
    BY <2>1 DEF ToolTypeOK, IInv
<1>2. NotYet' /\ GivenBack' /\ Unclaimed'
  BY DEF NotYet, GivenBack, Unclaimed, OnPath, vars, storeVars
<1>3. ClaimKept'
  BY DEF ClaimKept, OnPath
<1>6. MovedForward'
  BY DEF MovedForward, OnPath, ToolTypeOK
<1>4. ASSUME NEW j \in Attempts, OnClaim(j)'
      PROVE  OnClaim(j) /\ TakenAt(j)' = TakenAt(j)
  <2>1. CASE j # i
    BY <1>4, <2>1 DEF OnClaim, TakenAt, vars
  <2>2. CASE j = i
    <3>1. i \in claimed \ misled /\ (step'[i] \in {"approved", "paying"} \/ i \in moved)
      BY <1>4, <2>2 DEF OnClaim
    <3>2. step[i] \notin {"idle", "scoped", "reserved", "asking"}
      BY <3>1 DEF Unclaimed
    <3>3. i \notin misled'
      BY <1>4, <2>2 DEF OnClaim
    <3>4. i \in moved => step[i] # "releasing" /\ step'[i] # "releasing"
      BY <3>1, <3>3 DEF MovedForward, OnPath
    <3> QED
      BY <2>2, <3>1, <3>2, <3>4 DEF OnClaim, TakenAt, OnPath, vars
  <2> QED
    BY <2>1, <2>2
<1>5. ClaimStands' /\ ClaimsApart'
  BY <1>4 DEF ClaimStands, ClaimsApart, vars
<1> QED
  BY <1>1, <1>2, <1>3, <1>5, <1>6

LEMMA OnwardActions ==
  ASSUME ToolInv, NEW i \in Attempts,
         \/ ReadScope(i) \/ AuthoriseAsk(i) \/ AuthoriseBlock(i) \/ Approve(i) \/ Decline(i)
         \/ Submit(i) \/ KeyUnavailable(i) \/ PayOk(i) \/ PayRaises(i)
         \/ RememberSettlement(i) \/ SettleRaises(i)
  PROVE  ToolInv'
<1>1. step \in [Attempts -> Steps] /\ ToolTypeOK /\ TypeOK
  BY DEF ToolInv, ToolTypeOK
<1>2. i \in moved => i \in misled \/
        step[i] \in {"paying", "paid", "counted", "remembering", "ended", "dead"}
  BY DEF ToolInv, MovedForward
<1>3. LimitSettings(OwnerOf[i]) \in [perTx : Limit, daily : Limit]
  BY <1>1, ScopeType, PurchasesAssumption
<1> USE <1>1, <1>2, GotoStep DEF Onward, OnPath, Steps
<1>4. CASE ReadScope(i)
  BY <1>3, <1>4, OnwardStep DEF ReadScope, ToolTypeOK
<1>5. CASE AuthoriseAsk(i)
  BY <1>5, GoWaitStep, OnwardStep DEF AuthoriseAsk, ToolTypeOK
<1>6. CASE AuthoriseBlock(i)
  BY <1>6, OnwardStep DEF AuthoriseBlock, ToolTypeOK
<1>7. CASE Approve(i)
  BY <1>7, OnwardStep DEF Approve, ToolTypeOK
<1>8. CASE Decline(i)
  BY <1>8, OnwardStep DEF Decline, ToolTypeOK
<1>9. CASE Submit(i)
  BY <1>9, GoWaitStep, OnwardStep DEF Submit, ToolTypeOK
<1>10. CASE KeyUnavailable(i)
  BY <1>10, OnwardStep DEF KeyUnavailable, ToolTypeOK
<1>11. CASE PayOk(i)
  BY <1>11, OnwardStep DEF PayOk, ToolTypeOK
<1>12. CASE PayRaises(i)
  BY <1>12, OnwardStep DEF PayRaises, ToolTypeOK
<1>13. CASE RememberSettlement(i)
  BY <1>13, OnwardStep DEF RememberSettlement, ToolTypeOK
<1>14. CASE SettleRaises(i)
  BY <1>14, OnwardStep DEF SettleRaises, ToolTypeOK
<1> QED
  BY <1>4, <1>5, <1>6, <1>7, <1>8, <1>9, <1>10, <1>11, <1>12, <1>13, <1>14

LEMMA ClaimsKept ==
  ASSUME ToolInv, UNCHANGED <<now, claims>>,
         \A j \in Attempts : OnClaim(j)' => OnClaim(j) /\ TakenAt(j)' = TakenAt(j)
  PROVE  ClaimStands' /\ ClaimsApart'
  BY DEF ToolInv, ClaimStands, ClaimsApart

LEMMA ReserveBudgetStep ==
  ASSUME ToolInv, NEW i \in Attempts, ReserveBudget(i)
  PROVE  ToolInv'
<1> USE DEF ToolInv
<1>1. /\ step[i] = "scoped" /\ step' \in [Attempts -> Steps] /\ step'[i] \in {"reserved", "ended"}
      /\ \A j \in Attempts \ {i} : step'[j] = step[j]
  BY GotoStep DEF ReserveBudget, ToolTypeOK, Steps
<1>2. IInv'
  BY ReserveKeeps, RefuseDailyKeeps, UnchangedKeeps
     DEF ReserveBudget, RefusePerTx, IInv, ToolTypeOK
<1>3. ToolTypeOK' /\ Handed' /\ CountedOnce'
  BY <1>1, <1>2, UnlimitedType DEF ReserveBudget, IInv, ToolTypeOK
<1>4. /\ i \notin issued /\ now' = now
      /\ \/ issued' = issued \cup {i} /\ step'[i] = "reserved"
            /\ \A h \in holds' : h \in holds \/ h.id = i
         \/ issued' = issued /\ step'[i] = "ended" /\ holds' \subseteq holds
  BY <1>1, GotoStep DEF ReserveBudget, Reserve, RefusePerTx, RefuseDaily, LiveHolds, NotYet, vars,
     storeVars, ToolTypeOK, Steps
<1>5. NotYet' /\ Unclaimed'
  BY <1>1, <1>4 DEF NotYet, Unclaimed, ReserveBudget
<1>6. GivenBack'
  <2>1. \A h \in holds : h.id # i
    BY <1>4 DEF Handed
  <2> QED
    BY <1>1, <1>4, <2>1 DEF GivenBack, ReserveBudget
<1>7. i \notin claimed /\ i \notin moved \ misled
  BY <1>1 DEF Unclaimed, MovedForward
<1>8. ClaimKept'
  BY <1>1, <1>7 DEF ClaimKept, ReserveBudget
<1>9. MovedForward'
  BY <1>1, <1>7 DEF MovedForward, ReserveBudget, ToolTypeOK
<1>10. ClaimStands' /\ ClaimsApart'
  BY <1>1, <1>4, <1>7, ClaimsKept DEF ReserveBudget, OnClaim, TakenAt
<1> QED
  BY <1>3, <1>5, <1>6, <1>8, <1>9, <1>10

LEMMA SettleHoldStep ==
  ASSUME ToolInv, NEW i \in Attempts, SettleHold(i)
  PROVE  ToolInv'
<1> USE DEF ToolInv
<1>1. /\ step[i] = "paid" /\ step' \in [Attempts -> Steps]
      /\ step'[i] = IF i \in claimed THEN "counted" ELSE "remembering"
      /\ \A j \in Attempts \ {i} : step'[j] = step[j]
  BY GotoStep DEF SettleHold, ToolTypeOK, Steps
<1>2. IInv'
  BY SettleKeeps DEF SettleHold, IInv, ToolTypeOK
<1>3. ToolTypeOK' /\ Handed' /\ CountedOnce'
  BY <1>1, <1>2 DEF SettleHold, IInv, ToolTypeOK
<1>4. /\ UNCHANGED <<issued, now>> /\ holds' \subseteq holds
      /\ \A h \in holds' : h.id # i
  BY DEF SettleHold, Settle, SettleHeld, SettleExpired, LiveHolds, CountedOnce
<1>5. NotYet' /\ Unclaimed' /\ GivenBack'
  BY <1>1, <1>4 DEF NotYet, Unclaimed, GivenBack, SettleHold
<1>6. ClaimKept'
  BY <1>1 DEF ClaimKept, SettleHold
<1>8. MovedForward'
  BY <1>1 DEF MovedForward, SettleHold, ToolTypeOK
<1>7. ClaimStands' /\ ClaimsApart'
  BY <1>1, <1>4, ClaimsKept DEF SettleHold, OnClaim, TakenAt
<1> QED
  BY <1>3, <1>5, <1>6, <1>7, <1>8

LEMMA ReleaseHoldStep ==
  ASSUME ToolInv, NEW i \in Attempts, ReleaseHold(i)
  PROVE  ToolInv'
<1> USE DEF ToolInv
<1>1. /\ step[i] = "releasing" /\ step' \in [Attempts -> Steps]
      /\ step'[i] = IF i \in claimed THEN "unclaiming" ELSE "ended"
      /\ \A j \in Attempts \ {i} : step'[j] = step[j]
  BY GotoStep DEF ReleaseHold, ToolTypeOK, Steps
<1>2. IInv'
  BY ReleaseKeeps, UnchangedKeeps DEF ReleaseHold, IInv, ToolTypeOK
<1>3. ToolTypeOK' /\ Handed' /\ CountedOnce'
  BY <1>1, <1>2 DEF ReleaseHold, IInv, ToolTypeOK
<1>4. /\ UNCHANGED <<issued, now>> /\ holds' \subseteq holds /\ misled \subseteq misled'
      /\ i \in misled' \/ \A h \in holds' : h.id # i
  BY DEF ReleaseHold, Release, LiveHolds, vars, storeVars
<1>5. NotYet' /\ Unclaimed' /\ GivenBack'
  BY <1>1, <1>4 DEF NotYet, Unclaimed, GivenBack, ReleaseHold
<1>6. i \notin moved \ misled
  BY <1>1 DEF MovedForward
<1>7. ClaimKept'
  BY <1>1 DEF ClaimKept, ReleaseHold
<1>9. MovedForward'
  BY <1>1, <1>4, <1>6 DEF MovedForward, ReleaseHold, ToolTypeOK
<1>8. ClaimStands' /\ ClaimsApart'
  BY <1>1, <1>4, <1>6, ClaimsKept DEF ReleaseHold, OnClaim, TakenAt
<1> QED
  BY <1>3, <1>5, <1>7, <1>8, <1>9

\* A claim is taken only when every claim it replaces has aged out.
LEMMA AuthorisePayStep ==
  ASSUME ToolInv, NEW i \in Attempts, AuthorisePay(i)
  PROVE  ToolInv'
<1> USE DEF ToolInv
<1> DEFINE taken == [state |-> "held", at |-> now, by |-> {i}]
<1>1. /\ step[i] = "reserved" /\ step' \in [Attempts -> Steps] /\ step'[i] = "approved"
      /\ \A j \in Attempts \ {i} : step'[j] = step[j]
  BY GotoStep DEF AuthorisePay, ToolTypeOK, Steps
<1>2. /\ claims' \in [ClaimKey -> [state : {"free", "held", "settled"}, at : Nat, by : SUBSET Attempts]]
      /\ claims'[Key(i)] = taken
      /\ \A k \in ClaimKey : k # Key(i) => claims'[k] = claims[k]
  BY KeyType DEF AuthorisePay, ToolTypeOK, TypeOK
<1>3. now' = now /\ now \in Nat /\ since' = since /\ since \in [Attempts -> Nat]
  BY DEF AuthorisePay, ToolTypeOK, TypeOK, vars
<1>4. ToolTypeOK' /\ Handed' /\ CountedOnce'
  <2>1. IInv'
    BY UnchangedKeeps DEF AuthorisePay, IInv, ToolTypeOK
  <2> QED
    BY <1>1, <1>2, <2>1 DEF AuthorisePay, IInv, ToolTypeOK
<1>5. NotYet' /\ Unclaimed' /\ GivenBack'
  BY <1>1 DEF NotYet, Unclaimed, GivenBack, AuthorisePay, vars, storeVars
<1>6. ClaimKept'
  <2> SUFFICES ASSUME NEW j \in Attempts, claims'[Key(j)].state = "held", claims'[Key(j)].by = {j}
               PROVE  /\ j \in claimed'
                      /\ step'[j] \in {"approved", "paying", "paid", "counted", "releasing",
                                       "unclaiming", "dead"}
    BY DEF ClaimKept
  <2>1. CASE j = i
    BY <1>1, <2>1 DEF AuthorisePay
  <2>2. CASE j # i
    <3>1. Key(j) # Key(i)
      BY <1>2, <2>2
    <3>2. claims'[Key(j)] = claims[Key(j)]
      BY <1>2, <3>1, KeyType
    <3> QED
      BY <1>1, <2>2, <3>2 DEF ClaimKept, AuthorisePay
  <2> QED
    BY <2>1, <2>2
<1>7. MovedForward'
  BY <1>1 DEF MovedForward, AuthorisePay, ToolTypeOK
<1>8. i \notin moved \ misled /\ i \notin claimed
  BY <1>1 DEF MovedForward, Unclaimed
<1>9. \A j \in Attempts \ {i} : OnClaim(j)' => OnClaim(j) /\ TakenAt(j)' = TakenAt(j)
  BY <1>1, <1>3 DEF AuthorisePay, OnClaim, TakenAt
<1>10. \A j \in Attempts : TakenAt(j) \in Nat
  BY <1>3 DEF TakenAt
<1>11. ASSUME NEW j \in Attempts \ {i}, OnClaim(j)', Key(j) = Key(i)
       PROVE  TakenAt(j) + ClaimTTL <= now
  <2>1. OnClaim(j)
    BY <1>9, <1>11
  <2>2. claims[Key(j)].state = "free" \/
          (claims[Key(j)].state = "held" /\ claims[Key(j)].at + ClaimTTL <= now)
    BY <1>11 DEF AuthorisePay, Claimable
  <2>3. \/ claims[Key(j)] = [state |-> "held", at |-> TakenAt(j), by |-> {j}]
        \/ claims[Key(j)].state = "settled"
        \/ TakenAt(j) + ClaimTTL <= now
    BY <2>1 DEF ClaimStands
  <2> QED
    BY <2>2, <2>3
<1>12. TakenAt(i)' = now
  BY <1>1, <1>3 DEF TakenAt
<1>13. ClaimStands'
  <2> SUFFICES ASSUME NEW j \in Attempts, OnClaim(j)'
               PROVE  \/ claims'[Key(j)] = [state |-> "held", at |-> TakenAt(j)', by |-> {j}]
                      \/ claims'[Key(j)].state = "settled"
                      \/ TakenAt(j)' + ClaimTTL <= now
    BY <1>3 DEF ClaimStands
  <2>1. CASE j = i
    BY <1>2, <1>12, <2>1
  <2>2. CASE j # i /\ Key(j) = Key(i)
    BY <1>9, <1>11, <2>2
  <2>3. CASE j # i /\ Key(j) # Key(i)
    BY <1>2, <1>9, <2>3, KeyType DEF ClaimStands
  <2> QED
    BY <2>1, <2>2, <2>3
<1>14. ClaimsApart'
  <2> SUFFICES ASSUME NEW j \in Attempts, NEW k \in Attempts, OnClaim(j)', OnClaim(k)', j # k,
                      Key(j) = Key(k)
               PROVE  TakenAt(j)' + ClaimTTL <= TakenAt(k)' \/ TakenAt(k)' + ClaimTTL <= TakenAt(j)'
    BY DEF ClaimsApart
  <2>1. CASE j = i
    BY <1>9, <1>11, <1>12, <2>1
  <2>2. CASE k = i
    BY <1>9, <1>11, <1>12, <2>2
  <2>3. CASE j # i /\ k # i
    BY <1>9, <2>3 DEF ClaimsApart
  <2> QED
    BY <2>1, <2>2, <2>3
<1> QED
  BY <1>4, <1>5, <1>6, <1>7, <1>13, <1>14

LEMMA MoneyMovesStep ==
  ASSUME ToolInv, NEW i \in Attempts, MoneyMoves(i)
  PROVE  ToolInv'
<1> USE DEF ToolInv, MoneyMoves
<1>1. ToolTypeOK' /\ Handed' /\ CountedOnce'
  <2>1. IInv'
    BY UnchangedKeeps DEF IInv, ToolTypeOK
  <2> QED
    BY <2>1 DEF IInv, ToolTypeOK, handlerVars
<1>2. NotYet' /\ Unclaimed' /\ GivenBack' /\ ClaimKept' /\ MovedForward'
  BY DEF NotYet, Unclaimed, GivenBack, ClaimKept, MovedForward, handlerVars, vars, storeVars
<1>3. ClaimStands' /\ ClaimsApart'
  BY ClaimsKept DEF OnClaim, TakenAt, handlerVars, vars
<1> QED
  BY <1>1, <1>2, <1>3

LEMMA SettleClaimStep ==
  ASSUME ToolInv, NEW i \in Attempts, SettleClaim(i)
  PROVE  ToolInv'
<1> USE DEF ToolInv
<1>1. /\ step[i] = "counted" /\ step' \in [Attempts -> Steps] /\ step'[i] = "remembering"
      /\ \A j \in Attempts \ {i} : step'[j] = step[j]
  BY GotoStep DEF SettleClaim, ToolTypeOK, Steps
<1>2. /\ claims' \in [ClaimKey -> [state : {"free", "held", "settled"}, at : Nat, by : SUBSET Attempts]]
      /\ claims'[Key(i)].state = "settled"
      /\ \A k \in ClaimKey : k # Key(i) => claims'[k] = claims[k]
  BY KeyType DEF SettleClaim, ToolTypeOK, TypeOK
<1>3. ToolTypeOK' /\ Handed' /\ CountedOnce'
  <2>1. IInv'
    BY UnchangedKeeps DEF SettleClaim, IInv, ToolTypeOK
  <2> QED
    BY <1>1, <1>2, <2>1 DEF SettleClaim, IInv, ToolTypeOK
<1>4. NotYet' /\ Unclaimed' /\ GivenBack'
  BY <1>1 DEF NotYet, Unclaimed, GivenBack, SettleClaim, vars, storeVars
<1>5. \A j \in Attempts : claims'[Key(j)] = claims[Key(j)] \/ claims'[Key(j)].state = "settled"
  BY <1>2, KeyType
<1>6. ClaimKept'
  <2>1. claims'[Key(i)].state # "held"
    BY <1>2
  <2> QED
    BY <1>1, <1>5, <2>1 DEF ClaimKept, SettleClaim
<1>7. MovedForward'
  BY <1>1 DEF MovedForward, SettleClaim, ToolTypeOK
<1>8. \A j \in Attempts : OnClaim(j)' => OnClaim(j) /\ TakenAt(j)' = TakenAt(j)
  BY <1>1 DEF SettleClaim, OnClaim, TakenAt, vars
<1>9. ClaimStands' /\ ClaimsApart'
  BY <1>5, <1>8 DEF ClaimStands, ClaimsApart, SettleClaim, vars
<1> QED
  BY <1>3, <1>4, <1>6, <1>7, <1>9

LEMMA ReleaseClaimStep ==
  ASSUME ToolInv, NEW i \in Attempts, ReleaseClaim(i)
  PROVE  ToolInv'
<1> USE DEF ToolInv
<1>1. /\ step[i] = "unclaiming" /\ step' \in [Attempts -> Steps] /\ step'[i] = "ended"
      /\ \A j \in Attempts \ {i} : step'[j] = step[j]
  BY GotoStep DEF ReleaseClaim, ToolTypeOK, Steps
<1>2. NoClaim \in [state : {"free", "held", "settled"}, at : Nat, by : SUBSET Attempts]
      /\ NoClaim.state = "free"
  BY DEF NoClaim
<1>3. /\ claims' \in [ClaimKey -> [state : {"free", "held", "settled"}, at : Nat, by : SUBSET Attempts]]
      /\ \/ claims' = claims /\ ~(claims[Key(i)].state = "held" /\ claims[Key(i)].by = {i})
         \/ /\ claims[Key(i)].state = "held" /\ claims[Key(i)].by = {i}
            /\ claims'[Key(i)].state = "free"
            /\ \A k \in ClaimKey : k # Key(i) => claims'[k] = claims[k]
  BY <1>2, KeyType DEF ReleaseClaim, ToolTypeOK
<1>4. ToolTypeOK' /\ Handed' /\ CountedOnce'
  <2>1. IInv'
    BY UnchangedKeeps DEF ReleaseClaim, IInv, ToolTypeOK
  <2> QED
    BY <1>1, <1>3, <2>1 DEF ReleaseClaim, IInv, ToolTypeOK
<1>5. NotYet' /\ Unclaimed' /\ GivenBack'
  BY <1>1 DEF NotYet, Unclaimed, GivenBack, ReleaseClaim, vars, storeVars
<1>6. \A j \in Attempts :
        \/ claims'[Key(j)] = claims[Key(j)]
        \/ claims[Key(j)].by = {i} /\ claims[Key(j)].state = "held" /\ claims'[Key(j)].state = "free"
  BY <1>3, KeyType
<1>7. ClaimKept'
  <2>1. ~(claims'[Key(i)].state = "held" /\ claims'[Key(i)].by = {i})
    BY <1>3
  <2> QED
    BY <1>1, <1>6, <2>1 DEF ClaimKept, ReleaseClaim
<1>8. i \notin moved \ misled
  BY <1>1 DEF MovedForward
<1>9. MovedForward'
  BY <1>1 DEF MovedForward, ReleaseClaim, ToolTypeOK
<1>10. \A j \in Attempts : OnClaim(j)' => j # i /\ OnClaim(j) /\ TakenAt(j)' = TakenAt(j)
  BY <1>1, <1>8 DEF ReleaseClaim, OnClaim, TakenAt, vars
<1>11. ClaimStands'
  <2> SUFFICES ASSUME NEW j \in Attempts, OnClaim(j)'
               PROVE  \/ claims'[Key(j)] = [state |-> "held", at |-> TakenAt(j), by |-> {j}]
                      \/ claims'[Key(j)].state = "settled"
                      \/ TakenAt(j) + ClaimTTL <= now
    BY <1>10 DEF ClaimStands, ReleaseClaim, vars
  <2>1. \/ claims[Key(j)] = [state |-> "held", at |-> TakenAt(j), by |-> {j}]
        \/ claims[Key(j)].state = "settled"
        \/ TakenAt(j) + ClaimTTL <= now
    BY <1>10 DEF ClaimStands
  <2>2. CASE claims'[Key(j)] = claims[Key(j)]
    BY <2>1, <2>2
  <2>3. CASE claims[Key(j)].by = {i} /\ claims[Key(j)].state = "held"
    <3>1. j # i
      BY <1>10
    <3> QED
      BY <2>1, <2>3, <3>1
  <2> QED
    BY <1>6, <2>2, <2>3
<1>12. ClaimsApart'
  BY <1>10 DEF ClaimsApart
<1> QED
  BY <1>4, <1>5, <1>7, <1>9, <1>11, <1>12

LEMMA CrashStep ==
  ASSUME ToolInv, Crash
  PROVE  ToolInv'
<1> USE DEF ToolInv, Crash
<1>1. /\ step' \in [Attempts -> Steps]
      /\ \A j \in Attempts :
           \/ step[j] \in {"idle", "ended"} /\ step'[j] = step[j]
           \/ step[j] \notin {"idle", "ended"} /\ step'[j] = "dead"
  BY DEF ToolTypeOK, Steps
<1>2. ToolTypeOK' /\ Handed' /\ CountedOnce'
  <2>1. IInv'
    BY UnchangedKeeps DEF IInv, ToolTypeOK
  <2>2. crashes' \in 0..MaxCrashes
    BY ToolAssumption DEF ToolTypeOK
  <2> QED
    BY <1>1, <2>1, <2>2 DEF IInv, ToolTypeOK
<1>3. NotYet' /\ Unclaimed' /\ GivenBack'
  BY <1>1 DEF NotYet, Unclaimed, GivenBack, vars, storeVars
<1>4. ClaimKept'
  BY <1>1 DEF ClaimKept
<1>5. MovedForward'
  BY <1>1 DEF MovedForward, ToolTypeOK
<1>6. \A j \in Attempts : OnClaim(j)' => OnClaim(j) /\ TakenAt(j)' = TakenAt(j)
  BY <1>1 DEF OnClaim, TakenAt, MovedForward, vars
<1>7. ClaimStands' /\ ClaimsApart'
  BY <1>6, ClaimsKept DEF vars
<1> QED
  BY <1>2, <1>3, <1>4, <1>5, <1>7

LEMMA PassStep ==
  ASSUME ToolInv, Pass
  PROVE  ToolInv'
<1> USE DEF ToolInv, Pass
<1>1. now \in Nat /\ now' = now + 1
  BY DEF Tick, ToolTypeOK, TypeOK
<1>2. ToolTypeOK' /\ Handed' /\ CountedOnce'
  <2>1. IInv'
    BY TickKeeps DEF IInv, ToolTypeOK
  <2> QED
    BY <2>1 DEF IInv, ToolTypeOK, handlerVars
<1>3. NotYet' /\ Unclaimed' /\ GivenBack' /\ ClaimKept' /\ MovedForward'
  BY DEF NotYet, Unclaimed, GivenBack, ClaimKept, MovedForward, handlerVars, Tick, storeVars
<1>4. \A j \in Attempts : step[j] # "approved" /\ since[j] \in Nat
  BY DEF ToolTypeOK
<1>5. \A j \in Attempts : OnClaim(j)' => OnClaim(j)
  BY DEF OnClaim, handlerVars
<1>6. \A j \in Attempts : TakenAt(j)' = since[j] /\ TakenAt(j) = since[j]
  BY <1>4 DEF TakenAt, handlerVars
<1>7. ClaimStands'
  BY <1>1, <1>4, <1>5, <1>6, ToolAssumption DEF ClaimStands
<1>8. ClaimsApart'
  BY <1>5, <1>6 DEF ClaimsApart
<1> QED
  BY <1>2, <1>3, <1>7, <1>8

\* Any change of the limits, and no step at all.
LEMMA StillStep ==
  ASSUME ToolInv, IInv', UNCHANGED <<now, records, holds, issued>>,
         UNCHANGED <<handlerVars, claims, moved, misled, crashes>>
  PROVE  ToolInv'
<1> USE DEF ToolInv
<1>1. ToolTypeOK' /\ Handed' /\ CountedOnce'
  BY DEF IInv, ToolTypeOK, handlerVars
<1>2. NotYet' /\ Unclaimed' /\ GivenBack' /\ ClaimKept' /\ MovedForward'
  BY DEF NotYet, Unclaimed, GivenBack, ClaimKept, MovedForward, handlerVars
<1>3. ClaimStands' /\ ClaimsApart'
  BY ClaimsKept DEF OnClaim, TakenAt, handlerVars
<1> QED
  BY <1>1, <1>2, <1>3

LEMMA ToolInitially == ToolInit => ToolInv
<1> SUFFICES ASSUME ToolInit PROVE ToolInv
  OBVIOUS
<1> USE DEF ToolInit, Init
<1>1. IInv
  BY InitIInv
<1>2. ToolTypeOK /\ Handed /\ CountedOnce
  BY <1>1, UnlimitedType, ToolAssumption DEF IInv, ToolTypeOK, Steps, NoClaim
<1>3. NotYet /\ GivenBack /\ Unclaimed /\ MovedForward
  BY DEF NotYet, GivenBack, Unclaimed, MovedForward
<1>4. ClaimKept
  BY KeyType DEF ClaimKept, NoClaim
<1>5. ClaimStands /\ ClaimsApart
  BY DEF ClaimStands, ClaimsApart, OnClaim
<1> QED
  BY <1>2, <1>3, <1>4, <1>5 DEF ToolInv

LEMMA ToolStep == ToolInv /\ [ToolNext]_toolVars => ToolInv'
<1> SUFFICES ASSUME ToolInv, [ToolNext]_toolVars PROVE ToolInv'
  OBVIOUS
<1>1. ASSUME NEW i \in Attempts, ReadScope(i) \/ MoneyMoves(i) \/ Handler(i) PROVE ToolInv'
  BY <1>1, OnwardActions, ReserveBudgetStep, AuthorisePayStep, MoneyMovesStep, SettleHoldStep,
     SettleClaimStep, ReleaseHoldStep, ReleaseClaimStep DEF Handler
<1>2. CASE Crash
  BY <1>2, CrashStep
<1>3. CASE Pass
  BY <1>3, PassStep
<1>4. CASE ChangeLimits
  <2>1. PICK u \in Users, p \in LimitChoices, d \in LimitChoices : SetLimits(u, p, d)
    BY <1>4 DEF ChangeLimits
  <2>2. IInv'
    BY <2>1, SetLimitsKeeps DEF IInv, ToolInv, ToolTypeOK
  <2> QED
    BY <1>4, <2>1, <2>2, StillStep DEF ChangeLimits, SetLimits
<1>5. CASE UNCHANGED toolVars
  <2>1. IInv'
    BY <1>5, UnchangedKeeps DEF toolVars, IInv, ToolInv, ToolTypeOK
  <2> QED
    BY <1>5, <2>1, StillStep DEF toolVars, vars, storeVars
<1> QED
  BY <1>1, <1>2, <1>3, <1>4, <1>5 DEF ToolNext

\* The invariant of the handler threads holds throughout.
THEOREM ToolInvariance == ToolSpec => []ToolInv
  BY ToolInitially, ToolStep, PTL DEF ToolSpec

\* Every variable of the handlers and of the store keeps its type.
THEOREM ToolTypeCorrect == ToolSpec => []ToolTypeOK
  BY ToolInvariance, PTL DEF ToolInv

\* A request that is over left no budget held and no claim taken, whichever of
\* the handler's paths it took.
THEOREM NothingLeftHeld == ToolSpec => []EndedHoldsNothing
<1>1. ToolInv => EndedHoldsNothing
  BY DEF ToolInv, EndedHoldsNothing, GivenBack, ClaimKept, HasHold, LiveHolds
<1> QED
  BY <1>1, ToolInvariance, PTL

\* Two automatic payments for one request are a claim's lifetime apart.
THEOREM AutoPaymentsApart == ToolSpec => []AutoPaidTwiceOnlyWhenClaimAged
<1>1. ToolInv => AutoPaidTwiceOnlyWhenClaimAged
  <2> SUFFICES ASSUME ToolInv, NEW i \in (moved \cap claimed) \ misled,
                      NEW j \in (moved \cap claimed) \ misled, i # j, Key(i) = Key(j)
               PROVE  since[i] + ClaimTTL <= since[j] \/ since[j] + ClaimTTL <= since[i]
    BY DEF AutoPaidTwiceOnlyWhenClaimAged
  <2>1. i \in Attempts /\ j \in Attempts /\ OnClaim(i) /\ OnClaim(j)
    BY DEF ToolInv, ToolTypeOK, OnClaim
  <2>2. TakenAt(i) = since[i] /\ TakenAt(j) = since[j]
    BY DEF ToolInv, MovedForward, TakenAt
  <2> QED
    BY <2>1, <2>2 DEF ToolInv, ClaimsApart
<1> QED
  BY <1>1, ToolInvariance, PTL

-----------------------------------------------------------------------------
(* Where the waits add up to less than the life of a hold *)

InTime == AskMax + PayMax < HoldTTL
UsesHold == {"reserved", "asking", "approved", "paying", "paid"}
Accounted == {"counted", "remembering", "ended"}

\* The earliest time at which the hold of a thread can have been made.
Earliest(i) ==
  IF step[i] = "reserved" THEN now
  ELSE IF step[i] = "asking" THEN since[i]
  ELSE IF step[i] = "approved" THEN now - AskMax ELSE since[i] - AskMax

WaitsWell(i) ==
  /\ since[i] <= now
  /\ step[i] = "asking" => now <= since[i] + AskMax
  /\ step[i] \in {"paying", "paid"} => now <= since[i] + PayMax
HeldWell(i) ==
  step[i] \in UsesHold => \E h \in holds : h.id = i /\ h.expiresAt - HoldTTL >= Earliest(i)
RecordedWell(i) ==
  i \in moved \ misled /\ step[i] \in Accounted /\ KeptOnFile(i) =>
    \E r \in records : r.id = i /\ r.day >= DayOf(since[i] - AskMax)
\* A hold counts on the day it was made.
Dated == \A h \in holds : h.day = DayOf(h.expiresAt - HoldTTL)

TimedInv ==
  /\ ToolInv /\ Dated
  /\ \A i \in Attempts : WaitsWell(i) /\ HeldWell(i) /\ RecordedWell(i)

LEMMA DayMonotone ==
  ASSUME NEW a \in Int, NEW b \in Int, a <= b
  PROVE  DayOf(a) \in Int /\ DayOf(b) \in Int /\ DayOf(a) <= DayOf(b)
  BY TimeAssumption DEF DayOf

\* The hold of a thread that uses it has not lapsed.
LEMMA StillLive ==
  ASSUME InTime, TimedInv, NEW i \in Attempts, step[i] \in UsesHold
  PROVE  \E h \in LiveHolds : h.id = i /\ h.expiresAt - HoldTTL >= Earliest(i)
<1>1. PICK h \in holds : h.id = i /\ h.expiresAt - HoldTTL >= Earliest(i)
  BY DEF TimedInv, HeldWell
<1>2. h.expiresAt \in Nat /\ now \in Nat /\ since[i] \in Nat
  BY DEF TimedInv, ToolInv, ToolTypeOK, TypeOK
<1>3. h.expiresAt > now
  BY <1>1, <1>2, TimeAssumption, ToolAssumption
     DEF TimedInv, WaitsWell, Earliest, InTime, UsesHold
<1> QED
  BY <1>1, <1>3 DEF LiveHolds

\* What a call of one thread to the store leaves to the others.
SparesOthers(i) ==
  /\ UNCHANGED now
  /\ \A j \in Attempts \ {i} :
       /\ step'[j] = step[j] /\ since'[j] = since[j]
       /\ j \in moved' \ misled' => j \in moved \ misled
  /\ \A h \in LiveHolds : h.id # i => h \in holds'
  /\ \A h \in holds' : h \in holds \/ (h.day = Today /\ h.expiresAt = now + HoldTTL)
  /\ \A r \in records : r.day >= Today - RetentionDays => r \in records'

LEMMA TimedStep ==
  ASSUME InTime, TimedInv, ToolInv', NEW i \in Attempts, SparesOthers(i),
         WaitsWell(i)', HeldWell(i)', RecordedWell(i)'
  PROVE  TimedInv'
<1>1. now \in Nat /\ Today \in Nat
  BY DayType DEF TimedInv, ToolInv, ToolTypeOK, TypeOK, Today
<1>2. Dated'
  <2> SUFFICES ASSUME NEW h \in holds' PROVE h.day = DayOf(h.expiresAt - HoldTTL)
    BY DEF Dated
  <2>1. CASE h \in holds
    BY <2>1 DEF Dated, TimedInv
  <2>2. CASE h.day = Today /\ h.expiresAt = now + HoldTTL
    <3>1. h.expiresAt - HoldTTL = now
      BY <1>1, <2>2, TimeAssumption
    <3> QED
      BY <2>2, <3>1 DEF Today
  <2> QED
    BY <2>1, <2>2 DEF SparesOthers
<1>3. ASSUME NEW j \in Attempts \ {i}
      PROVE  WaitsWell(j)' /\ HeldWell(j)' /\ RecordedWell(j)'
  <2>1. /\ step'[j] = step[j] /\ since'[j] = since[j] /\ now' = now
        /\ j \in moved' \ misled' => j \in moved \ misled
    BY DEF SparesOthers
  <2>2. WaitsWell(j)'
    BY <2>1 DEF WaitsWell, TimedInv
  <2>3. HeldWell(j)'
    <3>1. step[j] \in UsesHold =>
            \E h \in LiveHolds : h.id = j /\ h.expiresAt - HoldTTL >= Earliest(j)
      BY StillLive
    <3>2. Earliest(j)' = Earliest(j)
      BY <2>1 DEF Earliest
    <3>3. step[j] \in UsesHold =>
            \E h \in holds' : h.id = j /\ h.expiresAt - HoldTTL >= Earliest(j)
      BY <3>1 DEF SparesOthers
    <3> QED
      BY <2>1, <3>2, <3>3 DEF HeldWell
  <2>4. RecordedWell(j)'
    <3> SUFFICES ASSUME j \in moved \ misled, step[j] \in Accounted, KeptOnFile(j)
                 PROVE  \E r \in records' : r.id = j /\ r.day >= DayOf(since[j] - AskMax)
      BY <2>1 DEF RecordedWell, KeptOnFile, Today
    <3>1. PICK r \in records : r.id = j /\ r.day >= DayOf(since[j] - AskMax)
      BY DEF RecordedWell, TimedInv
    <3>2. since[j] \in Nat /\ r.day \in Nat
      BY DEF TimedInv, ToolInv, ToolTypeOK, TypeOK
    <3>3. DayOf(since[j] - AskMax) \in Int
      BY <3>2, DayMonotone, ToolAssumption
    <3>4. r.day >= Today - RetentionDays
      BY <1>1, <3>1, <3>2, <3>3, TimeAssumption DEF KeptOnFile
    <3> QED
      BY <3>1, <3>4 DEF SparesOthers
  <2> QED
    BY <2>2, <2>3, <2>4
<1> QED
  BY <1>2, <1>3 DEF TimedInv

LEMMA TimedReserve ==
  ASSUME InTime, TimedInv, NEW i \in Attempts, ReserveBudget(i)
  PROVE  TimedInv'
<1> USE DEF ReserveBudget
<1>1. ToolInv /\ ToolInv'
  BY ReserveBudgetStep DEF TimedInv
<1>2. /\ step[i] = "scoped" /\ UNCHANGED <<since, misled, moved>>
      /\ \A j \in Attempts \ {i} : step'[j] = step[j]
      /\ \/ step'[i] = "reserved" /\ Reserve(i, lim[i])
         \/ step'[i] = "ended" /\ (RefusePerTx(i, lim[i]) \/ RefuseDaily(i, lim[i]))
  BY <1>1, GotoStep DEF ToolInv, ToolTypeOK, Steps
<1>3. now \in Nat /\ now' = now /\ now + HoldTTL - HoldTTL >= now
  BY <1>1, TimeAssumption
     DEF ToolInv, ToolTypeOK, TypeOK, Reserve, RefusePerTx, RefuseDaily, vars
<1>4. SparesOthers(i)
  BY <1>2, <1>3 DEF SparesOthers, Reserve, RefusePerTx, RefuseDaily, LiveHolds, vars, storeVars
<1>5. WaitsWell(i)'
  BY <1>2, <1>3 DEF WaitsWell, TimedInv
<1>6. HeldWell(i)'
  <2> SUFFICES ASSUME step'[i] = "reserved" PROVE HeldWell(i)'
    BY <1>2 DEF HeldWell, UsesHold
  <2> DEFINE end == now + HoldTTL
             new == [id |-> i, day |-> Today, expiresAt |-> end]
  <2>1. new \in holds'
    BY <1>2 DEF Reserve
  <2>2. \E h \in holds' : h.id = i /\ h.expiresAt - HoldTTL >= now
    <3>1. end - HoldTTL >= now
      <4> HIDE DEF ReserveBudget
      <4>1. now \in Nat /\ HoldTTL \in Nat
        BY <1>3, TimeAssumption
      <4> QED
        BY <4>1
    <3> HIDE DEF end
    <3>2. new.id = i /\ new.expiresAt = end
      OBVIOUS
    <3> HIDE DEF new
    <3> QED
      BY <2>1, <3>1, <3>2
  <2>3. Earliest(i)' = now
    BY <1>3 DEF Earliest
  <2> QED
    BY <2>2, <2>3 DEF HeldWell
<1>7. RecordedWell(i)'
  BY <1>1, <1>2 DEF RecordedWell, ToolInv, MovedForward
<1> QED
  BY <1>1, <1>4, <1>5, <1>6, <1>7, TimedStep

LEMMA TimedSettle ==
  ASSUME InTime, TimedInv, NEW i \in Attempts, SettleHold(i)
  PROVE  TimedInv'
<1>1. ToolInv /\ ToolInv'
  BY SettleHoldStep DEF TimedInv
<1>2. /\ step[i] = "paid" /\ UNCHANGED <<since, misled, moved>>
      /\ step'[i] \in {"counted", "remembering"}
      /\ \A j \in Attempts \ {i} : step'[j] = step[j]
  BY <1>1, GotoStep DEF SettleHold, ToolInv, ToolTypeOK, Steps
<1>3. PICK h \in LiveHolds : h.id = i /\ h.expiresAt - HoldTTL >= Earliest(i)
  BY <1>2, StillLive DEF UsesHold
<1>4. SettleHeld(i)
  BY <1>3 DEF SettleHold, Settle, SettleExpired
<1>5. /\ UNCHANGED now /\ holds' = LiveHolds \ {h}
      /\ records' = Pruned(records \cup {[id |-> i, day |-> h.day]})
  BY <1>1, <1>3, <1>4 DEF SettleHeld, ToolInv, CountedOnce, LiveHolds
<1>6. SparesOthers(i)
  BY <1>2, <1>3, <1>5 DEF SparesOthers, LiveHolds, Pruned
<1>7. WaitsWell(i)' /\ HeldWell(i)'
  BY <1>2, <1>5 DEF WaitsWell, HeldWell, TimedInv, UsesHold
<1>8. RecordedWell(i)'
  <2> SUFFICES ASSUME KeptOnFile(i)
               PROVE  \E r \in records' : r.id = i /\ r.day >= DayOf(since[i] - AskMax)
    BY <1>2, <1>5 DEF RecordedWell, KeptOnFile, Today
  <2>1. since[i] \in Nat /\ h.expiresAt \in Nat /\ now \in Nat
    BY <1>1, <1>3 DEF ToolInv, ToolTypeOK, TypeOK, LiveHolds
  <2>2. h.day = DayOf(h.expiresAt - HoldTTL) /\ h.day \in Nat
    BY <1>1, <1>3 DEF TimedInv, Dated, LiveHolds, ToolInv, ToolTypeOK, TypeOK
  <2>3. since[i] - AskMax <= h.expiresAt - HoldTTL
    BY <1>2, <1>3, <2>1, ToolAssumption, TimeAssumption DEF Earliest
  <2>4. /\ DayOf(since[i] - AskMax) \in Int
        /\ DayOf(since[i] - AskMax) <= DayOf(h.expiresAt - HoldTTL)
    BY <2>1, <2>3, DayMonotone, ToolAssumption, TimeAssumption
  <2>5. Today \in Nat
    BY <2>1, DayType DEF Today
  <2>6. h.day >= DayOf(since[i] - AskMax) /\ h.day >= Today - RetentionDays
    BY <2>2, <2>4, <2>5, TimeAssumption DEF KeptOnFile
  <2>7. [id |-> i, day |-> h.day] \in records'
    BY <1>5, <2>6 DEF Pruned
  <2> QED
    BY <2>6, <2>7
<1> QED
  BY <1>1, <1>6, <1>7, <1>8, TimedStep

LEMMA TimedRelease ==
  ASSUME InTime, TimedInv, NEW i \in Attempts, ReleaseHold(i)
  PROVE  TimedInv'
<1>1. ToolInv /\ ToolInv'
  BY ReleaseHoldStep DEF TimedInv
<1>2. /\ step[i] = "releasing" /\ UNCHANGED <<since, moved>> /\ misled \subseteq misled'
      /\ step'[i] \in {"unclaiming", "ended"}
      /\ \A j \in Attempts \ {i} : step'[j] = step[j]
  BY <1>1, GotoStep DEF ReleaseHold, ToolInv, ToolTypeOK, Steps
<1>3. UNCHANGED now
  BY DEF ReleaseHold, Release, vars
<1>4. SparesOthers(i)
  BY <1>2 DEF ReleaseHold, Release, SparesOthers, LiveHolds, vars, storeVars
<1>5. WaitsWell(i)' /\ HeldWell(i)'
  BY <1>2, <1>3 DEF WaitsWell, HeldWell, TimedInv, UsesHold
<1>6. RecordedWell(i)'
  BY <1>1, <1>2 DEF RecordedWell, ToolInv, MovedForward
<1> QED
  BY <1>1, <1>4, <1>5, <1>6, TimedStep

\* A step that leaves the store alone, and moves the hold on if at all.
LEMMA TimedOnward ==
  ASSUME InTime, TimedInv, ToolInv', NEW i \in Attempts, UNCHANGED vars,
         \A j \in Attempts \ {i} :
           /\ step'[j] = step[j] /\ since'[j] = since[j]
           /\ j \in moved' \ misled' => j \in moved \ misled,
         WaitsWell(i)',
         step'[i] \in UsesHold => step[i] \in UsesHold /\ Earliest(i)' <= Earliest(i),
         step'[i] \in Accounted /\ i \in moved' \ misled' =>
           step[i] \in Accounted /\ i \in moved \ misled /\ since'[i] = since[i]
  PROVE  TimedInv'
<1>1. SparesOthers(i)
  BY DEF SparesOthers, LiveHolds, vars, storeVars
<1>2. HeldWell(i)'
  <2> SUFFICES ASSUME step'[i] \in UsesHold
               PROVE  \E h \in holds : h.id = i /\ h.expiresAt - HoldTTL >= Earliest(i)'
    BY DEF HeldWell, vars, storeVars
  <2>1. PICK h \in holds : h.id = i /\ h.expiresAt - HoldTTL >= Earliest(i)
    BY DEF TimedInv, HeldWell
  <2>2. h.expiresAt \in Nat /\ now \in Nat /\ since[i] \in Nat /\ now' = now /\ since'[i] \in Nat
    BY DEF TimedInv, ToolInv, ToolTypeOK, TypeOK, vars
  <2>3. Earliest(i) \in Int /\ Earliest(i)' \in Int
    BY <2>2, ToolAssumption DEF Earliest
  <2> QED
    BY <2>1, <2>2, <2>3, TimeAssumption
<1>3. RecordedWell(i)'
  <2> SUFFICES ASSUME i \in moved' \ misled', step'[i] \in Accounted, KeptOnFile(i)'
               PROVE  \E r \in records : r.id = i /\ r.day >= DayOf(since'[i] - AskMax)
    BY DEF RecordedWell, vars, storeVars
  <2>1. KeptOnFile(i)
    BY DEF KeptOnFile, Today, vars
  <2> QED
    BY <2>1 DEF RecordedWell, TimedInv
<1> QED
  BY <1>1, <1>2, <1>3, TimedStep

LEMMA TimedActions ==
  ASSUME InTime, TimedInv, NEW i \in Attempts,
         ReadScope(i) \/ MoneyMoves(i) \/ Handler(i)
  PROVE  TimedInv'
<1>1. ToolInv /\ ToolInv'
  BY OnwardActions, ReserveBudgetStep, AuthorisePayStep, MoneyMovesStep, SettleHoldStep,
     SettleClaimStep, ReleaseHoldStep, ReleaseClaimStep DEF Handler, TimedInv
<1>2. step \in [Attempts -> Steps] /\ ToolTypeOK /\ now \in Nat /\ since[i] \in Nat
  BY <1>1 DEF ToolInv, ToolTypeOK, TypeOK
<1>3. WaitsWell(i) /\ (i \in moved \ misled => step[i] \in
        {"paying", "paid", "counted", "remembering", "ended", "dead"})
  BY <1>1 DEF TimedInv, ToolInv, MovedForward
<1> USE <1>2, <1>3, GotoStep, ToolAssumption DEF Steps, WaitsWell, Earliest, UsesHold, Accounted
<1>4. CASE ReadScope(i)
  BY <1>1, <1>4, TimedOnward DEF ReadScope, vars
<1>5. CASE MoneyMoves(i)
  BY <1>1, <1>5, TimedOnward DEF MoneyMoves, handlerVars, vars
<1>6. CASE ReserveBudget(i)
  BY <1>6, TimedReserve
<1>7. CASE AuthorisePay(i)
  BY <1>1, <1>7, TimedOnward DEF AuthorisePay, vars
<1>8. CASE AuthoriseAsk(i)
  BY <1>1, <1>8, GoWaitStep, TimedOnward DEF AuthoriseAsk, vars
<1>9. CASE AuthoriseBlock(i)
  BY <1>1, <1>9, TimedOnward DEF AuthoriseBlock, vars
<1>10. CASE Approve(i)
  BY <1>1, <1>10, TimedOnward DEF Approve, vars
<1>11. CASE Decline(i)
  BY <1>1, <1>11, TimedOnward DEF Decline, vars
<1>12. CASE Submit(i)
  BY <1>1, <1>12, GoWaitStep, TimedOnward DEF Submit, vars
<1>13. CASE KeyUnavailable(i)
  BY <1>1, <1>13, TimedOnward DEF KeyUnavailable, vars
<1>14. CASE PayOk(i)
  BY <1>1, <1>14, TimedOnward DEF PayOk, vars
<1>15. CASE PayRaises(i)
  BY <1>1, <1>15, TimedOnward DEF PayRaises, vars
<1>16. CASE SettleHold(i)
  BY <1>16, TimedSettle
<1>17. CASE SettleClaim(i)
  BY <1>1, <1>17, TimedOnward DEF SettleClaim, vars
<1>18. CASE RememberSettlement(i)
  BY <1>1, <1>18, TimedOnward DEF RememberSettlement, vars
<1>19. CASE SettleRaises(i)
  BY <1>1, <1>19, TimedOnward DEF SettleRaises, vars
<1>20. CASE ReleaseHold(i)
  BY <1>20, TimedRelease
<1>21. CASE ReleaseClaim(i)
  BY <1>1, <1>21, TimedOnward DEF ReleaseClaim, vars
<1> QED
  BY <1>4, <1>5, <1>6, <1>7, <1>8, <1>9, <1>10, <1>11, <1>12, <1>13, <1>14, <1>15, <1>16, <1>17,
     <1>18, <1>19, <1>20, <1>21 DEF Handler

LEMMA TimedCrash ==
  ASSUME InTime, TimedInv, Crash
  PROVE  TimedInv'
<1>1. ToolInv /\ ToolInv'
  BY CrashStep DEF TimedInv
<1>2. \A j \in Attempts :
        \/ step[j] \in {"idle", "ended"} /\ step'[j] = step[j]
        \/ step'[j] = "dead"
  BY DEF Crash
<1>3. UNCHANGED <<vars, since, moved, misled>>
  BY DEF Crash
<1>4. \A j \in Attempts : WaitsWell(j)' /\ HeldWell(j)' /\ RecordedWell(j)'
  BY <1>2, <1>3 DEF TimedInv, WaitsWell, HeldWell, RecordedWell, KeptOnFile, Today, UsesHold,
     Accounted, vars, storeVars
<1> QED
  BY <1>1, <1>3, <1>4 DEF TimedInv, Dated, vars, storeVars

LEMMA TimedPass ==
  ASSUME InTime, TimedInv, Pass
  PROVE  TimedInv'
<1>1. ToolInv /\ ToolInv'
  BY PassStep DEF TimedInv
<1>2. now \in Nat /\ now' = now + 1 /\ UNCHANGED <<storeVars, handlerVars, moved, misled>>
  BY <1>1 DEF Pass, Tick, ToolInv, ToolTypeOK, TypeOK
<1>3. Dated'
  BY <1>2 DEF TimedInv, Dated, storeVars
<1>4. ASSUME NEW j \in Attempts PROVE WaitsWell(j)' /\ HeldWell(j)' /\ RecordedWell(j)'
  <2>1. since[j] \in Nat /\ since'[j] = since[j] /\ step'[j] = step[j]
    BY <1>1, <1>2 DEF handlerVars, ToolInv, ToolTypeOK
  <2>2. WaitsWell(j)'
    BY <1>2, <2>1, ToolAssumption DEF Pass, TimedInv, WaitsWell
  <2>3. HeldWell(j)'
    <3>1. step[j] \notin {"reserved", "approved", "paid"}
      BY DEF Pass
    <3>2. Earliest(j)' = Earliest(j)
      BY <2>1, <3>1 DEF Earliest
    <3> QED
      BY <1>2, <2>1, <3>2 DEF TimedInv, HeldWell, storeVars
  <2>4. RecordedWell(j)'
    <3>1. Today \in Nat /\ Today' \in Nat /\ Today <= Today'
      BY <1>2, DayType, DayMonotone DEF Today
    <3>2. DayOf(since[j] - AskMax) \in Int
      BY <2>1, DayMonotone, ToolAssumption
    <3>3. KeptOnFile(j)' => KeptOnFile(j)
      BY <2>1, <3>1, <3>2, TimeAssumption DEF KeptOnFile
    <3> QED
      BY <1>2, <2>1, <3>3 DEF TimedInv, RecordedWell, storeVars
  <2> QED
    BY <2>2, <2>3, <2>4
<1> QED
  BY <1>1, <1>3, <1>4 DEF TimedInv

LEMMA TimedStill ==
  ASSUME InTime, TimedInv, ToolInv', UNCHANGED <<now, records, holds>>,
         UNCHANGED <<handlerVars, moved, misled>>
  PROVE  TimedInv'
<1>1. \A j \in Attempts : WaitsWell(j)' /\ HeldWell(j)' /\ RecordedWell(j)'
  BY DEF TimedInv, WaitsWell, HeldWell, RecordedWell, KeptOnFile, Today, Earliest, handlerVars
<1> QED
  BY <1>1 DEF TimedInv, Dated

LEMMA TimedInitially == ToolInit => TimedInv
<1> SUFFICES ASSUME ToolInit PROVE TimedInv
  OBVIOUS
<1>1. ToolInv
  BY ToolInitially
<1>2. \A i \in Attempts : step[i] = "idle" /\ since[i] = 0 /\ now = 0 /\ holds = {}
  BY DEF ToolInit, Init
<1>3. Dated
  BY DEF ToolInit, Init, Dated
<1> QED
  BY <1>1, <1>2, <1>3 DEF TimedInv, WaitsWell, HeldWell, RecordedWell, UsesHold, Accounted

LEMMA TimedNext == InTime => (TimedInv /\ [ToolNext]_toolVars => TimedInv')
<1> SUFFICES ASSUME InTime, TimedInv, [ToolNext]_toolVars PROVE TimedInv'
  OBVIOUS
<1>1. ToolInv'
  BY ToolStep DEF TimedInv
<1>2. ASSUME ChangeLimits \/ UNCHANGED toolVars PROVE TimedInv'
  BY <1>1, <1>2, TimedStill DEF ChangeLimits, SetLimits, toolVars, vars, storeVars
<1> QED
  BY <1>2, TimedActions, TimedCrash, TimedPass DEF ToolNext

\* With bounded waits the amount of a purchase stays held from the decision to
\* the accounting.
THEOREM HeldUntilSettled == InTime => (ToolSpec => []PaysUnderHold)
<1> SUFFICES ASSUME InTime PROVE ToolSpec => []PaysUnderHold
  OBVIOUS
<1>1. TimedInv => PaysUnderHold
  BY StillLive DEF PaysUnderHold, HasHold, UsesHold
<1>2. TimedInv /\ [ToolNext]_toolVars => TimedInv'
  BY TimedNext
<1> QED
  BY <1>1, <1>2, TimedInitially, PTL DEF ToolSpec

\* ... and money that left a wallet is counted, as a hold or as a record.
THEOREM MoneyStaysCounted == InTime => (ToolSpec => []MovedIsCounted)
<1> SUFFICES ASSUME InTime PROVE ToolSpec => []MovedIsCounted
  OBVIOUS
<1>1. TimedInv => MovedIsCounted
  <2> SUFFICES ASSUME TimedInv, NEW i \in moved \ misled, step[i] # "dead", KeptOnFile(i)
               PROVE  HasHold(i) \/ HasRecord(i)
    BY DEF MovedIsCounted
  <2>1. /\ i \in Attempts
        /\ step[i] \in {"paying", "paid"} \/ step[i] \in Accounted
    BY DEF TimedInv, ToolInv, ToolTypeOK, MovedForward, Accounted
  <2>2. CASE step[i] \in {"paying", "paid"}
    BY <2>1, <2>2, StillLive DEF HasHold, UsesHold
  <2>3. CASE step[i] \in Accounted
    BY <2>1, <2>3 DEF TimedInv, RecordedWell, HasRecord
  <2> QED
    BY <2>1, <2>2, <2>3
<1>2. TimedInv /\ [ToolNext]_toolVars => TimedInv'
  BY TimedNext
<1> QED
  BY <1>1, <1>2, TimedInitially, PTL DEF ToolSpec
=============================================================================
