-------------------------- MODULE OperatorLaneProofs --------------------------
(***************************************************************************)
(* The safety properties of OperatorLane for any number of requests,        *)
(* policies, offers and restarts.  The invariant says who works alone (the  *)
(* holder of the lock), what that request may rely on between the check of  *)
(* the policy and the record of the payment, and what is left of a payment  *)
(* afterwards.  The budget comes last: the total in the book stays within   *)
(* it, and is the sum of what was recorded.                                 *)
(***************************************************************************)
EXTENDS OperatorLane, FiniteSums, TLAPS

Inside == {"locked", "asking", "approved", "paid", "result", "closing"}
BeforePayment == {"idle", "looked", "locked", "asking", "approved"}
AfterRecord == {"result", "closing", "done"}

\* Whoever is inside holds the lock.
LockOwner == \A r \in Requests : pc[r] \in Inside => lock = r

\* What a purchase may rely on while it waits: it is about an offer, whose
\* intent no payment on record has had.
Pending ==
  \A r \in Buyers :
    /\ pc[r] \in {"asking", "approved", "paid"} => chosen[r] \in Subjects
    /\ pc[r] \in {"asking", "approved"} =>
         chosen[r].offer.intent \notin book[chosen[r].policy].intents

\* An approved purchase has a press that no payment has used.
PressLeft ==
  \A r \in Buyers : pc[r] = "approved" => Cardinality(PaidFor(chosen[r])) < yes[chosen[r]]

\* A request pays when it is past its approval, and has no payment before.
PaidLate == \A n \in PaymentNos : pc[payments[n].by] \notin BeforePayment

\* Until the payment is recorded it is the last one, and that of its request.
LastPaid ==
  \A r \in Requests : pc[r] = "paid" =>
    /\ r \in Buyers /\ Len(payments) > 0
    /\ payments[Len(payments)].by = r
    /\ payments[Len(payments)].policy = chosen[r].policy
    /\ payments[Len(payments)].offer = chosen[r].offer
    /\ \A n \in PaymentNos : payments[n].by = r => n = Len(payments)

\* What is recorded is in the book, and stays there.
Booked ==
  /\ \A n \in PaymentNos : payments[n].by \in recorded =>
       payments[n].offer.intent \in book[payments[n].policy].intents
  /\ \A r \in recorded : pc[r] \in AfterRecord

Inv ==
  /\ TypeOK /\ LockOwner /\ Pending /\ PaidLate /\ LastPaid /\ Booked /\ PressLeft
  /\ PaidAgainOnlyUnrecorded /\ PaidWithConsent

USE DEF store, device

LEMMA OfferTypes ==
  ASSUME NEW r \in Requests \ PolicyReqs
  PROVE  /\ OffersOf[r] \subseteq Offers
         /\ \A o \in OffersOf[r] : o.amount \in Nat
BY DataAssumption DEF Offers

\* What is asked of the device is a hash, for a purchase of an offer whose
\* intent is not in the book.
LEMMA AskableTypes ==
  ASSUME NEW r \in Requests, NEW h \in Askable(r)
  PROVE  /\ h \in Hashes
         /\ r \in Buyers => h \in Subjects /\ h.offer.intent \notin book[h.policy].intents
<1>1. CASE r \in PolicyReqs
  BY <1>1, DataAssumption, KindsAssumption DEF Askable, Hashes, Buyers
<1>2. CASE r \in ApproveReqs
  BY <1>2, OfferTypes, KindsAssumption DEF Askable, Hashes, Subjects, Buyers
<1>3. CASE r \in Buyers
  <2>1. r \in Requests \ PolicyReqs /\ r \notin ApproveReqs
    BY <1>3, KindsAssumption DEF Buyers
  <2>2. /\ h \in [policy : Policies, offer : OffersOf[r]]
        /\ h.offer.intent \notin book[h.policy].intents
    BY <2>1 DEF Askable, Allows
  <2>3. h \in Subjects
    BY <2>1, <2>2, OfferTypes DEF Subjects
  <2> QED
    BY <2>2, <2>3 DEF Hashes
<1> QED
  BY <1>1, <1>2, <1>3, KindsAssumption DEF Buyers

LEMMA KeyTypes == \A r \in ToolReqs : KeyOf[r] \in Keys
BY DEF Keys

LEMMA Kinds ==
  /\ PolicyReqs \subseteq Requests /\ Buyers \subseteq Requests /\ ToolReqs \subseteq Buyers
  /\ Buyers \cap PolicyReqs = {}
BY KindsAssumption DEF Buyers

\* A payment was made by a request, and that request is past its approval.
LEMMA Payers ==
  ASSUME Inv, NEW n \in PaymentNos
  PROVE  /\ payments[n].by \in Requests /\ payments[n].policy \in Policies
         /\ pc[payments[n].by] \notin BeforePayment
<1> DEFINE Entry == [by : Requests, policy : Policies, offer : Offers, charged : Nat]
<1>1. payments \in Seq(Entry) /\ n \in 1 .. Len(payments)
  BY DEF Inv, TypeOK, PaymentNos
<1>2. payments[n] \in Entry
  <2> HIDE DEF Entry
  <2> QED
    BY <1>1
<1>3. pc[payments[n].by] \notin BeforePayment
  BY DEF Inv, PaidLate
<1> QED
  BY <1>2, <1>3

LEMMA PaidForFinite ==
  ASSUME TypeOK
  PROVE  \A h : IsFiniteSet(PaidFor(h)) /\ Cardinality(PaidFor(h)) \in Nat
<1>1. PaymentNos = 1 .. Len(payments) /\ Len(payments) \in Nat
  BY DEF TypeOK, PaymentNos
<1>2. IsFiniteSet(PaymentNos)
  BY <1>1, FS_Interval
<1>3. \A h : PaidFor(h) \in SUBSET PaymentNos
  BY DEF PaidFor
<1> QED
  BY <1>2, <1>3, FS_Subset, FS_CardinalityType

\* The safety properties concern payments, their record and what was pressed:
\* steps that leave those alone, and approve no purchase, keep them.
LEMMA PropertiesKept ==
  ASSUME Inv, UNCHANGED <<payments, recorded, yes>>,
         \A r \in Buyers :
           pc'[r] = "approved" => pc[r] = "approved" /\ chosen'[r] = chosen[r]
  PROVE  PressLeft' /\ PaidAgainOnlyUnrecorded' /\ PaidWithConsent'
<1>1. PaidAgainOnlyUnrecorded'
  BY DEF Inv, PaidAgainOnlyUnrecorded, PaymentNos
<1>2. \A h : PaidFor(h)' = PaidFor(h)
  BY DEF PaidFor, PaymentNos
<1>3. PressLeft' /\ PaidWithConsent'
  BY <1>2 DEF Inv, PressLeft, PaidWithConsent
<1> QED
  BY <1>1, <1>3

LEMMA Initially == Init => Inv
<1> SUFFICES ASSUME Init PROVE Inv
  OBVIOUS
<1>1. TypeOK
  BY DEF Init, TypeOK
<1>2. PaymentNos = {} /\ recorded = {}
  BY DEF Init, PaymentNos
<1>3. LockOwner /\ Pending /\ LastPaid /\ PressLeft
  BY Kinds DEF Init, LockOwner, Inside, Pending, LastPaid, PressLeft
<1>4. PaidWithConsent
  <2>1. \A h : PaidFor(h) = {}
    BY <1>2 DEF PaidFor
  <2>2. \A h \in Subjects : yes[h] = 0
    BY DEF Init, Hashes
  <2> QED
    BY <2>1, <2>2, FS_EmptySet DEF PaidWithConsent
<1> QED
  BY <1>1, <1>2, <1>3, <1>4 DEF Inv, PaidLate, Booked, PaidAgainOnlyUnrecorded

LEMMA LookStep ==
  ASSUME Inv, NEW r \in Requests, Look(r)
  PROVE  Inv'
<1> USE Kinds DEF Inv, Look, Goto
<1>1. TypeOK'
  BY DEF TypeOK
<1>2. LockOwner' /\ Pending' /\ LastPaid'
  BY <1>1 DEF LockOwner, Inside, Pending, LastPaid, PaymentNos, TypeOK
<1>3. PaidLate' /\ Booked'
  BY <1>1 DEF PaidLate, Booked, PaymentNos, BeforePayment, AfterRecord, TypeOK
<1> QED
  BY <1>1, <1>2, <1>3, PropertiesKept DEF TypeOK

\* The lock is taken only when nobody has it.
LEMMA AcquireStep ==
  ASSUME Inv, NEW r \in Requests, Acquire(r)
  PROVE  Inv'
<1> USE Kinds DEF Inv, Acquire, Goto
<1>1. TypeOK'
  BY DEF TypeOK
<1>2. LockOwner'
  <2>1. CASE lock = None
    BY <2>1, DataAssumption DEF LockOwner, Inside, TypeOK
  <2>2. CASE lock # None
    BY <2>2 DEF LockOwner, Inside, TypeOK
  <2> QED
    BY <2>1, <2>2
<1>3. Pending' /\ LastPaid'
  BY <1>1 DEF Pending, LastPaid, PaymentNos, TypeOK
<1>4. PaidLate'
  <2> SUFFICES ASSUME NEW n \in PaymentNos PROVE pc'[payments[n].by] \notin BeforePayment
    BY DEF PaidLate, PaymentNos
  <2>1. payments[n].by # r
    BY Payers DEF BeforePayment
  <2> QED
    BY <2>1, Payers DEF TypeOK
<1>5. Booked'
  BY <1>1 DEF Booked, PaymentNos, AfterRecord, TypeOK
<1> QED
  BY <1>1, <1>2, <1>3, <1>4, <1>5, PropertiesKept DEF TypeOK

\* The policy is checked with the lock held.
LEMMA AskStep ==
  ASSUME Inv, NEW r \in Requests, Ask(r)
  PROVE  Inv'
<1> USE Kinds DEF Inv, Ask, Goto
<1>1. PICK h \in Askable(r) : chosen' = [chosen EXCEPT ![r] = h] /\ prompts' = prompts \cup {h}
  OBVIOUS
<1>2. TypeOK'
  BY <1>1, AskableTypes DEF TypeOK
<1>3. LockOwner' /\ LastPaid'
  BY <1>2 DEF LockOwner, Inside, LastPaid, PaymentNos, TypeOK
<1>4. Pending'
  BY <1>1, AskableTypes DEF Pending, TypeOK
<1>5. PaidLate' /\ Booked'
  BY <1>2 DEF PaidLate, Booked, PaymentNos, BeforePayment, AfterRecord, TypeOK
<1> QED
  BY <1>2, <1>3, <1>4, <1>5, PropertiesKept

LEMMA FailStep ==
  ASSUME Inv, NEW r \in Requests, Fail(r)
  PROVE  Inv'
<1> USE Kinds DEF Inv, Fail, Goto
<1>1. TypeOK'
  BY DEF TypeOK
<1>2. LockOwner' /\ Pending' /\ LastPaid'
  BY <1>1 DEF LockOwner, Inside, Pending, LastPaid, PaymentNos, TypeOK
<1>3. PaidLate' /\ Booked'
  BY <1>1 DEF PaidLate, Booked, PaymentNos, BeforePayment, AfterRecord, TypeOK
<1> QED
  BY <1>1, <1>2, <1>3, PropertiesKept DEF TypeOK

\* A yes counts for the request it is compared with only when it is to the
\* hash that request chose.
LEMMA ApprovedStep ==
  ASSUME Inv, NEW r \in Requests, Approved(r)
  PROVE  Inv'
<1> USE Kinds DEF Inv, Approved, Goto
<1>1. PICK h \in prompts :
        /\ prompts' = prompts \ {h} /\ yes' = [yes EXCEPT ![h] = @ + 1]
        /\ Goto(r, IF ~IsFor(h, r) \/ r \in ApproveReqs THEN "closing" ELSE "approved")
  OBVIOUS
<1>2. TypeOK'
  BY <1>1 DEF TypeOK
<1>3. LockOwner' /\ LastPaid' /\ Pending'
  BY <1>2 DEF LockOwner, Inside, LastPaid, Pending, PaymentNos, TypeOK
<1>4. PaidLate' /\ Booked'
  BY <1>2 DEF PaidLate, Booked, PaymentNos, BeforePayment, AfterRecord, TypeOK
<1>5. \A g : PaidFor(g)' = PaidFor(g)
  BY DEF PaidFor, PaymentNos
<1>6. /\ \A g \in Hashes : yes[g] \in Nat /\ yes[g] <= yes'[g]
      /\ yes'[h] = yes[h] + 1
  BY <1>1 DEF TypeOK
<1>7. Subjects \subseteq Hashes
  BY DEF Hashes
<1>8. PaidWithConsent'
  BY <1>2, <1>5, <1>6, <1>7, PaidForFinite DEF PaidWithConsent, TypeOK
<1>9. PressLeft'
  <2> SUFFICES ASSUME NEW q \in Buyers, pc'[q] = "approved"
               PROVE  Cardinality(PaidFor(chosen[q])) < yes'[chosen[q]]
    BY <1>5 DEF PressLeft
  <2>1. CASE q = r
    <3>1. chosen[r] = h /\ h \in Subjects
      BY <1>1, <2>1, KindsAssumption DEF IsFor, Pending, TypeOK, Buyers
    <3> QED
      BY <2>1, <3>1, <1>6, <1>7, PaidForFinite DEF PaidWithConsent
  <2>2. CASE q # r
    <3>1. pc[q] = "approved" /\ chosen[q] \in Subjects
      BY <1>1, <2>2 DEF Pending, TypeOK
    <3> QED
      BY <3>1, <1>2, <1>6, <1>7, PaidForFinite DEF PressLeft, TypeOK
  <2> QED
    BY <2>1, <2>2
<1>10. PaidAgainOnlyUnrecorded'
  BY DEF PaidAgainOnlyUnrecorded, PaymentNos
<1> QED
  BY <1>2, <1>3, <1>4, <1>8, <1>9, <1>10

LEMMA DeclinedStep ==
  ASSUME Inv, NEW r \in Requests, Declined(r)
  PROVE  Inv'
<1> USE Kinds DEF Inv, Declined, Goto
<1>1. TypeOK'
  BY DEF TypeOK
<1>2. LockOwner' /\ Pending' /\ LastPaid'
  BY <1>1 DEF LockOwner, Inside, Pending, LastPaid, PaymentNos, TypeOK
<1>3. PaidLate' /\ Booked'
  BY <1>1 DEF PaidLate, Booked, PaymentNos, BeforePayment, AfterRecord, TypeOK
<1> QED
  BY <1>1, <1>2, <1>3, PropertiesKept DEF TypeOK

LEMMA WritePolicyStep ==
  ASSUME Inv, NEW r \in Requests, WritePolicy(r)
  PROVE  Inv'
<1> USE Kinds DEF Inv, WritePolicy, Goto
<1>1. PolicyOf[r] \in Policies
  BY DataAssumption
<1>2. TypeOK'
  BY <1>1 DEF TypeOK
<1>3. LockOwner' /\ Pending' /\ LastPaid'
  BY <1>2 DEF LockOwner, Inside, Pending, LastPaid, PaymentNos, TypeOK
<1>4. PaidLate' /\ Booked'
  BY <1>2 DEF PaidLate, Booked, PaymentNos, BeforePayment, AfterRecord, TypeOK
<1> QED
  BY <1>2, <1>3, <1>4, PropertiesKept

\* The new payment is the first of its request; its intent is in no book, so
\* no payment of it was recorded, and it is what a person pressed yes to.
LEMMA PayStep ==
  ASSUME Inv, NEW r \in Requests, Pay(r)
  PROVE  Inv'
<1> USE Kinds DEF Inv, Pay, Goto
<1>1. /\ r \in Buyers /\ chosen[r] \in Subjects
      /\ chosen[r].offer.intent \notin book[chosen[r].policy].intents
  BY DEF Pending
<1>2. PICK c \in Charge(r) : payments' = Append(payments,
        [by |-> r, policy |-> chosen[r].policy, offer |-> chosen[r].offer, charged |-> c])
  OBVIOUS
<1>3. /\ chosen[r].policy \in Policies /\ chosen[r].offer \in Offers
      /\ chosen[r] = [policy |-> chosen[r].policy, offer |-> chosen[r].offer]
  BY <1>1 DEF Subjects
<1>4. c \in Nat
  BY <1>3, DataAssumption DEF Charge
<1> DEFINE new == [by |-> r, policy |-> chosen[r].policy, offer |-> chosen[r].offer, charged |-> c]
<1>5. new \in [by : Requests, policy : Policies, offer : Offers, charged : Nat]
  BY <1>3, <1>4
<1>6. /\ payments \in Seq([by : Requests, policy : Policies, offer : Offers, charged : Nat])
      /\ payments' = Append(payments, new)
  BY <1>2 DEF TypeOK
<1>7. /\ Len(payments') = Len(payments) + 1 /\ PaymentNos' = 1 .. Len(payments')
      /\ PaymentNos = 1 .. Len(payments) /\ Len(payments) \in Nat
      /\ payments'[Len(payments')] = new
      /\ \A n \in PaymentNos : payments'[n] = payments[n]
  <2> HIDE DEF new
  <2> QED
    BY <1>5, <1>6 DEF PaymentNos
<1>8. \A n \in PaymentNos : payments[n].by # r
  BY Payers DEF BeforePayment
<1>9. \A n \in PaymentNos' : n \in PaymentNos \/ n = Len(payments')
  BY <1>7
<1>10. pc'[r] \in {"paid", "closing"} /\ \A s \in Requests \ {r} : pc'[s] = pc[s]
  BY DEF TypeOK
<1>11. TypeOK'
  <2>1. payments' \in Seq([by : Requests, policy : Policies, offer : Offers, charged : Nat])
    <3> HIDE DEF new
    <3> QED
      BY <1>5, <1>6
  <2> QED
    BY <2>1 DEF TypeOK
<1>12. LockOwner' /\ Pending'
  BY <1>10, <1>11 DEF LockOwner, Inside, Pending, TypeOK
<1>13. PaidLate'
  BY <1>7, <1>9, <1>10, Payers DEF PaidLate, BeforePayment
<1>14. LastPaid'
  <2>1. \A s \in Requests \ {r} : pc'[s] # "paid"
    BY <1>10 DEF LockOwner, Inside
  <2>2. \A n \in PaymentNos' : payments'[n].by = r => n = Len(payments')
    BY <1>7, <1>8, <1>9
  <2> QED
    BY <2>1, <2>2, <1>1, <1>7 DEF LastPaid
<1>15. r \notin recorded
  BY DEF Booked, AfterRecord
<1>16. Booked'
  <2>1. \A n \in PaymentNos' : payments'[n].by \in recorded =>
          payments'[n].offer.intent \in book[payments'[n].policy].intents
    BY <1>7, <1>9, <1>15 DEF Booked
  <2>2. \A s \in recorded : pc'[s] \in AfterRecord
    BY <1>10, <1>15 DEF Booked, TypeOK
  <2> QED
    BY <2>1, <2>2 DEF Booked
<1>17. PaidAgainOnlyUnrecorded'
  <2> SUFFICES ASSUME NEW m \in PaymentNos', NEW n \in PaymentNos', m < n,
                      payments'[m].policy = payments'[n].policy,
                      payments'[m].offer.intent = payments'[n].offer.intent
               PROVE  payments'[m].by \notin recorded
    BY DEF PaidAgainOnlyUnrecorded
  <2>1. m \in PaymentNos
    BY <1>7, <1>9
  <2>2. CASE n \in PaymentNos
    BY <2>1, <2>2, <1>7 DEF PaidAgainOnlyUnrecorded
  <2>3. CASE n = Len(payments')
    <3>1. payments[m].policy = chosen[r].policy /\ payments[m].offer.intent = chosen[r].offer.intent
      BY <2>1, <2>3, <1>7
    <3> QED
      BY <3>1, <2>1, <1>1, <1>7 DEF Booked
  <2> QED
    BY <2>2, <2>3, <1>9
<1>18. PaidWithConsent'
  <2> SUFFICES ASSUME NEW h \in Subjects PROVE Cardinality(PaidFor(h)') <= yes[h]
    BY DEF PaidWithConsent
  <2>1. CASE h = chosen[r]
    <3>1. PaidFor(h)' = PaidFor(h) \cup {Len(payments')}
      BY <2>1, <1>3, <1>7, <1>9 DEF PaidFor
    <3>2. Len(payments') \notin PaidFor(h)
      BY <1>7 DEF PaidFor
    <3>3. Cardinality(PaidFor(h)') = Cardinality(PaidFor(h)) + 1
      BY <3>1, <3>2, PaidForFinite, FS_AddElement
    <3>4. Cardinality(PaidFor(h)) < yes[h] /\ yes[h] \in Nat
      BY <1>1, <2>1 DEF PressLeft, TypeOK, Hashes
    <3> QED
      BY <3>3, <3>4, PaidForFinite
  <2>2. CASE h # chosen[r]
    <3>1. PaidFor(h)' = PaidFor(h)
      BY <2>2, <1>3, <1>7, <1>9 DEF PaidFor
    <3> QED
      BY <3>1 DEF PaidWithConsent
  <2> QED
    BY <2>1, <2>2
<1>19. PressLeft'
  <2>1. \A s \in Requests : pc'[s] # "approved"
    BY <1>10 DEF LockOwner, Inside
  <2> QED
    BY <2>1 DEF PressLeft
<1> QED
  BY <1>11, <1>12, <1>13, <1>14, <1>16, <1>17, <1>18, <1>19

\* The payment that is recorded is the last one, so nothing of its intent
\* comes after it; whoever else waits has no lock, so nobody waits.
LEMMA RecordStep ==
  ASSUME Inv, NEW r \in Requests, Record(r)
  PROVE  Inv'
<1> USE Kinds DEF Inv, Record, Goto
<1> DEFINE h == chosen[r]
<1>1. /\ r \in Buyers /\ h \in Subjects
      /\ \A n \in PaymentNos : payments[n].by = r =>
           n = Len(payments) /\ payments[n].policy = h.policy /\ payments[n].offer = h.offer
  BY DEF LastPaid, Pending
<1>2. h.policy \in Policies /\ h.offer \in Offers
  BY <1>1 DEF Subjects
<1>3. h.offer.amount \in Nat /\ h.offer.intent \in {o.intent : o \in Offers}
  BY <1>2, DataAssumption
<1>4. /\ book' = [book EXCEPT ![h.policy] = [spent |-> @.spent + h.offer.amount,
                                            intents |-> @.intents \cup {h.offer.intent}]]
      /\ pc' = [pc EXCEPT ![r] = "result"] /\ recorded' = recorded \cup {r}
  OBVIOUS
<1> HIDE DEF h
<1>5. book' \in [Policies -> [spent : Nat, intents : SUBSET {o.intent : o \in Offers}]]
  <2> DEFINE Entry == [spent : Nat, intents : SUBSET {o.intent : o \in Offers}]
             e == [spent |-> book[h.policy].spent + h.offer.amount,
                   intents |-> book[h.policy].intents \cup {h.offer.intent}]
  <2>1. book \in [Policies -> Entry]
    BY DEF TypeOK
  <2>2. book[h.policy].spent \in Nat
    BY <1>2, <2>1
  <2>3. book[h.policy].intents \subseteq {o.intent : o \in Offers}
    BY <1>2, <2>1
  <2>4. e \in Entry
    BY <1>3, <2>2, <2>3
  <2>5. book' = [book EXCEPT ![h.policy] = e]
    BY <1>4
  <2> HIDE DEF Entry, e
  <2>6. book' \in [Policies -> Entry]
    BY <2>1, <2>4, <2>5
  <2> QED
    BY <2>6 DEF Entry
<1>6. TypeOK'
  BY <1>1, <1>4, <1>5 DEF TypeOK
<1>7. /\ h.offer.intent \in book'[h.policy].intents
      /\ \A p \in Policies : book[p].intents \subseteq book'[p].intents
  BY <1>2, <1>4 DEF TypeOK
<1>8. \A s \in Requests \ {r} : pc'[s] = pc[s] /\ pc[s] \notin Inside
  BY <1>4 DEF LockOwner, Inside, TypeOK
<1>9. pc'[r] = "result"
  BY <1>4 DEF TypeOK
<1>10. LockOwner' /\ Pending' /\ LastPaid'
  BY <1>8, <1>9 DEF LockOwner, Inside, Pending, LastPaid
<1>11. PaidLate'
  BY <1>8, <1>9, Payers DEF PaidLate, PaymentNos, BeforePayment
<1>12. Booked'
  <2>1. \A n \in PaymentNos : payments[n].policy \in Policies
    BY Payers
  <2>2. \A n \in PaymentNos : payments[n].by \in recorded \cup {r} =>
          payments[n].offer.intent \in book'[payments[n].policy].intents
    BY <2>1, <1>1, <1>7 DEF Booked
  <2>3. \A s \in recorded \cup {r} : pc'[s] \in AfterRecord
    BY <1>8, <1>9 DEF Booked, AfterRecord, TypeOK
  <2> QED
    BY <2>2, <2>3, <1>4 DEF Booked, PaymentNos
<1>13. PaidAgainOnlyUnrecorded'
  <2> SUFFICES ASSUME NEW m \in PaymentNos, NEW n \in PaymentNos, m < n,
                      payments[m].policy = payments[n].policy,
                      payments[m].offer.intent = payments[n].offer.intent
               PROVE  payments[m].by \notin recorded \cup {r}
    BY <1>4 DEF PaidAgainOnlyUnrecorded, PaymentNos
  <2>1. payments[m].by \notin recorded
    BY DEF PaidAgainOnlyUnrecorded
  <2>2. payments[m].by # r
    BY <1>1 DEF PaymentNos, TypeOK
  <2> QED
    BY <2>1, <2>2
<1>14. PaidWithConsent' /\ PressLeft'
  <2>1. \A g : PaidFor(g)' = PaidFor(g)
    BY DEF PaidFor, PaymentNos
  <2>2. \A s \in Requests : pc'[s] # "approved"
    BY <1>8, <1>9 DEF Inside
  <2> QED
    BY <2>1, <2>2 DEF PaidWithConsent, PressLeft
<1> QED
  BY <1>6, <1>10, <1>11, <1>12, <1>13, <1>14

LEMMA AnswerStep ==
  ASSUME Inv, NEW r \in Requests, Answer(r)
  PROVE  Inv'
<1> USE Kinds DEF Inv, Answer, Goto
<1>1. TypeOK'
  BY KeyTypes DEF TypeOK
<1>2. LockOwner' /\ Pending' /\ LastPaid'
  BY <1>1 DEF LockOwner, Inside, Pending, LastPaid, PaymentNos, TypeOK
<1>3. PaidLate' /\ Booked'
  BY <1>1 DEF PaidLate, Booked, PaymentNos, BeforePayment, AfterRecord, TypeOK
<1> QED
  BY <1>1, <1>2, <1>3, PropertiesKept DEF TypeOK

LEMMA ReleaseStep ==
  ASSUME Inv, NEW r \in Requests, Release(r)
  PROVE  Inv'
<1> USE Kinds DEF Inv, Release, Goto
<1>1. TypeOK'
  BY DEF TypeOK
<1>2. LockOwner' /\ Pending' /\ LastPaid'
  BY <1>1 DEF LockOwner, Inside, Pending, LastPaid, PaymentNos, TypeOK
<1>3. PaidLate' /\ Booked'
  BY <1>1 DEF PaidLate, Booked, PaymentNos, BeforePayment, AfterRecord, TypeOK
<1> QED
  BY <1>1, <1>2, <1>3, PropertiesKept DEF TypeOK

LEMMA ExpireStep ==
  ASSUME Inv, NEW k \in Keys, Expire(k)
  PROVE  Inv'
<1> USE Kinds DEF Inv, Expire
<1>1. TypeOK'
  BY DEF TypeOK
<1>2. LockOwner' /\ Pending' /\ LastPaid' /\ PaidLate' /\ Booked'
  BY DEF LockOwner, Pending, LastPaid, PaidLate, Booked, PaymentNos
<1> QED
  BY <1>1, <1>2, PropertiesKept DEF TypeOK

LEMMA CrashStep ==
  ASSUME Inv, Crash
  PROVE  Inv'
<1> USE Kinds DEF Inv, Crash
<1>1. TypeOK'
  BY DEF TypeOK
<1>2. \A r \in Requests : pc'[r] \in {"idle", "done"} /\ (pc'[r] = "idle" <=> pc[r] = "idle")
  OBVIOUS
<1>3. LockOwner' /\ Pending' /\ LastPaid'
  BY <1>2 DEF LockOwner, Inside, Pending, LastPaid
<1>4. PaidLate'
  BY <1>2, Payers DEF PaidLate, PaymentNos, BeforePayment
<1>5. Booked'
  BY <1>2 DEF Booked, PaymentNos, AfterRecord, TypeOK
<1> QED
  BY <1>1, <1>3, <1>4, <1>5, PropertiesKept DEF TypeOK

LEMMA StutterStep == Inv /\ UNCHANGED vars => Inv'
<1> SUFFICES ASSUME Inv, UNCHANGED vars PROVE Inv'
  OBVIOUS
<1>1. PressLeft' /\ PaidAgainOnlyUnrecorded' /\ PaidWithConsent'
  BY PropertiesKept DEF vars
<1> QED
  BY <1>1 DEF vars, Inv, TypeOK, LockOwner, Pending, PaidLate, LastPaid, Booked, PaymentNos

LEMMA Inductive == Inv /\ [Next]_vars => Inv'
BY LookStep, AcquireStep, AskStep, FailStep, ApprovedStep, DeclinedStep, WritePolicyStep,
   PayStep, RecordStep, AnswerStep, ReleaseStep, ExpireStep, CrashStep, StutterStep
   DEF Next, Step

-----------------------------------------------------------------------------
LEMMA Invariance == Spec => []Inv
BY Initially, Inductive, PTL DEF Spec

\* The variables keep their types.
THEOREM TypeCorrect == Spec => []TypeOK
<1>1. Inv => TypeOK
  BY DEF Inv
<1> QED
  BY <1>1, Invariance, PTL

\* Nothing leaves the operator's accounts more often than a person pressed yes
\* to it, whatever late answers are on the line.
THEOREM ConsentForEveryPayment == Spec => []PaidWithConsent
<1>1. Inv => PaidWithConsent
  BY DEF Inv
<1> QED
  BY <1>1, Invariance, PTL

\* A recorded intent is never paid again under its policy.
THEOREM RecordedPaidOnce == Spec => []PaidAgainOnlyUnrecorded
<1>1. Inv => PaidAgainOnlyUnrecorded
  BY DEF Inv
<1> QED
  BY <1>1, Invariance, PTL

\* The device serves one request at a time.
THEOREM OneAtTheDevice ==
  Spec => [](\A r, s \in Requests : pc[r] \in Inside /\ pc[s] \in Inside => r = s)
<1>1. Inv => \A r, s \in Requests : pc[r] \in Inside /\ pc[s] \in Inside => r = s
  BY DEF Inv, LockOwner
<1> QED
  BY <1>1, Invariance, PTL

-----------------------------------------------------------------------------
(* The budget: the running total that record_payment adds to never exceeds  *)
(* it, and is the sum of the payments on record.                            *)

BookWithinBudget == \A p \in Policies : book[p].spent > 0 => book[p].spent <= Budget[p]

\* What a purchase was allowed minutes ago still fits: the book of its policy
\* did not change while it waited.
StillFits ==
  \A r \in Buyers : pc[r] \in {"asking", "approved", "paid"} =>
    book[chosen[r].policy].spent + chosen[r].offer.amount <= Budget[chosen[r].policy]

LEMMA AskableFits ==
  ASSUME NEW r \in Buyers, NEW h \in Askable(r)
  PROVE  book[h.policy].spent + h.offer.amount <= Budget[h.policy]
<1>1. r \notin PolicyReqs /\ r \notin ApproveReqs
  BY KindsAssumption DEF Buyers
<1> QED
  BY <1>1 DEF Askable, Allows

LEMMA AskFits ==
  ASSUME Inv, StillFits, NEW r \in Requests, Ask(r)
  PROVE  StillFits'
<1> USE DEF Inv, Ask, Goto
<1>1. /\ book' = book /\ chosen' \in [Requests -> Hashes \cup {None}]
      /\ \A q \in Requests \ {r} : pc'[q] = pc[q] /\ chosen'[q] = chosen[q]
  BY AskableTypes DEF TypeOK
<1>2. chosen'[r] \in Askable(r)
  BY DEF TypeOK
<1> SUFFICES ASSUME NEW q \in Buyers, pc'[q] \in {"asking", "approved", "paid"}
             PROVE  book[chosen'[q].policy].spent + chosen'[q].offer.amount
                      <= Budget[chosen'[q].policy]
  BY <1>1 DEF StillFits
<1>3. CASE q = r
  BY <1>2, <1>3, AskableFits
<1>4. CASE q # r
  BY <1>1, <1>4, Kinds DEF StillFits
<1> QED
  BY <1>3, <1>4

\* Only one purchase is between its check and its record: the one that records
\* leaves nobody waiting with an older total.
LEMMA RecordFits ==
  ASSUME Inv, StillFits, BookWithinBudget, NEW r \in Requests, Record(r)
  PROVE  StillFits' /\ BookWithinBudget'
<1> USE Kinds DEF Inv, Record, Goto
<1>1. /\ r \in Buyers /\ chosen[r] \in Subjects /\ pc[r] = "paid"
      /\ chosen[r].policy \in Policies
  BY DEF LastPaid, Pending, Subjects
<1>2. /\ book \in [Policies -> [spent : Nat, intents : SUBSET {o.intent : o \in Offers}]]
      /\ chosen' = chosen /\ pc' = [pc EXCEPT ![r] = "result"]
  BY DEF TypeOK
<1>3. /\ book'[chosen[r].policy].spent = book[chosen[r].policy].spent + chosen[r].offer.amount
      /\ \A p \in Policies \ {chosen[r].policy} : book'[p] = book[p]
  BY <1>1, <1>2
<1>4. BookWithinBudget'
  BY <1>1, <1>3 DEF StillFits, BookWithinBudget
<1>5. \A q \in Requests : pc'[q] \notin {"asking", "approved", "paid"}
  BY <1>1, <1>2 DEF LockOwner, Inside, TypeOK
<1> QED
  BY <1>4, <1>5 DEF StillFits

\* The other steps leave the book alone, and who stays between the check and
\* the record keeps its policy and offer.
LEMMA OtherStepsFit ==
  ASSUME Inv, StillFits, book' = book,
         \A q \in Buyers : pc'[q] \in {"asking", "approved", "paid"} =>
           pc[q] \in {"asking", "approved", "paid"} /\ chosen'[q] = chosen[q]
  PROVE  StillFits'
BY DEF StillFits

LEMMA FitStep ==
  ASSUME Inv, StillFits, BookWithinBudget, [Next]_vars
  PROVE  StillFits' /\ BookWithinBudget'
<1>1. CASE \E r \in Requests : Ask(r)
  <2>1. StillFits'
    BY <1>1, AskFits
  <2>2. book' = book
    BY <1>1 DEF Ask
  <2> QED
    BY <2>1, <2>2 DEF BookWithinBudget
<1>2. CASE \E r \in Requests : Record(r)
  BY <1>2, RecordFits
<1>3. CASE \E r \in Requests : Look(r) \/ Acquire(r) \/ Fail(r) \/ Answer(r) \/ Release(r)
  <2>1. book' = book
    BY <1>3 DEF Look, Acquire, Fail, Answer, Release
  <2>2. \A q \in Buyers : pc'[q] \in {"asking", "approved", "paid"} =>
          pc[q] \in {"asking", "approved", "paid"} /\ chosen'[q] = chosen[q]
    BY <1>3, Kinds DEF Inv, TypeOK, Look, Acquire, Fail, Answer, Release, Goto
  <2> QED
    BY <2>1, <2>2, OtherStepsFit DEF BookWithinBudget
<1>4. CASE \E r \in Requests : Approved(r) \/ Declined(r) \/ WritePolicy(r) \/ Pay(r)
  <2>1. book' = book
    BY <1>4 DEF Approved, Declined, WritePolicy, Pay
  <2>2. \A q \in Buyers : pc'[q] \in {"asking", "approved", "paid"} =>
          pc[q] \in {"asking", "approved", "paid"} /\ chosen'[q] = chosen[q]
    BY <1>4, Kinds DEF Inv, TypeOK, Approved, Declined, WritePolicy, Pay, Goto
  <2> QED
    BY <2>1, <2>2, OtherStepsFit DEF BookWithinBudget
<1>5. CASE (\E k \in Keys : Expire(k)) \/ Crash \/ UNCHANGED vars
  <2>1. book' = book
    BY <1>5 DEF Expire, Crash, vars
  <2>2. \A q \in Buyers : pc'[q] \in {"asking", "approved", "paid"} =>
          pc[q] \in {"asking", "approved", "paid"} /\ chosen'[q] = chosen[q]
    BY <1>5, Kinds DEF Inv, TypeOK, Expire, Crash, vars
  <2> QED
    BY <2>1, <2>2, OtherStepsFit DEF BookWithinBudget
<1> QED
  BY <1>1, <1>2, <1>3, <1>4, <1>5 DEF Next, Step

\* The total policySpend keeps of a policy never exceeds the budget the device
\* was asked about, though the check and the record are minutes apart.
THEOREM TotalWithinBudget == Spec => []BookWithinBudget
<1>1. Init => StillFits /\ BookWithinBudget
  BY Kinds DEF Init, StillFits, BookWithinBudget
<1>2. Inv /\ StillFits /\ BookWithinBudget /\ [Next]_vars => StillFits' /\ BookWithinBudget'
  BY FitStep
<1> QED
  BY <1>1, <1>2, Invariance, PTL DEF Spec

\* policySpend is the sum of what was recorded: a payment enters the sum when
\* it is written down, and once.
BookIsSum ==
  \A p \in Policies : SumFunctionOnSet(AmountAt, RecordedUnder(p)) = book[p].spent

LEMMA PaymentTypes ==
  ASSUME Inv
  PROVE  /\ IsFiniteSet(PaymentNos) /\ PaymentNos = 1 .. Len(payments) /\ Len(payments) \in Nat
         /\ \A n \in PaymentNos : payments[n].offer \in Offers /\ AmountAt[n] \in Nat
         /\ \A p : RecordedUnder(p) \subseteq PaymentNos /\ IsFiniteSet(RecordedUnder(p))
<1> DEFINE Entry == [by : Requests, policy : Policies, offer : Offers, charged : Nat]
<1>1. payments \in Seq(Entry)
  BY DEF Inv, TypeOK
<1>2. PaymentNos = 1 .. Len(payments) /\ Len(payments) \in Nat
  <2> HIDE DEF Entry
  <2> QED
    BY <1>1 DEF PaymentNos
<1>3. \A n \in PaymentNos : payments[n] \in Entry
  <2> HIDE DEF Entry
  <2> QED
    BY <1>1 DEF PaymentNos
<1>4. \A n \in PaymentNos : payments[n].offer \in Offers /\ AmountAt[n] \in Nat
  BY <1>3, DataAssumption DEF AmountAt
<1>5. IsFiniteSet(PaymentNos)
  BY <1>2, FS_Interval
<1>6. \A p : RecordedUnder(p) \in SUBSET PaymentNos
  BY DEF RecordedUnder
<1> QED
  BY <1>2, <1>4, <1>5, <1>6, FS_Subset

LEMMA PaySum ==
  ASSUME Inv, BookIsSum, NEW r \in Requests, Pay(r)
  PROVE  BookIsSum'
<1>1. r \notin recorded /\ book' = book /\ recorded' = recorded /\ r \in Buyers
  BY DEF Inv, Booked, AfterRecord, Pay
<1>2. PICK c \in Charge(r) : payments' = Append(payments,
        [by |-> r, policy |-> chosen[r].policy, offer |-> chosen[r].offer, charged |-> c])
  BY DEF Pay
<1>3. /\ Len(payments') = Len(payments) + 1
      /\ \A n \in 1 .. Len(payments) : payments'[n] = payments[n]
      /\ payments'[Len(payments) + 1].by = r
      /\ PaymentNos' = 1 .. Len(payments) + 1
  <2>1. payments \in Seq([by : Requests, policy : Policies, offer : Offers, charged : Nat])
    BY DEF Inv, TypeOK
  <2> QED
    BY <1>2, <2>1 DEF PaymentNos
<1> SUFFICES ASSUME NEW p \in Policies
             PROVE  SumFunctionOnSet(AmountAt', RecordedUnder(p)') = book'[p].spent
  BY DEF BookIsSum
<1>4. RecordedUnder(p)' = RecordedUnder(p)
  <2>1. PaymentNos = 1 .. Len(payments) /\ Len(payments) \in Nat
    BY PaymentTypes
  <2> QED
    BY <1>1, <1>3, <2>1 DEF RecordedUnder
<1>5. \A n \in RecordedUnder(p) : AmountAt[n] = AmountAt'[n] /\ AmountAt[n] \in Nat
  BY <1>3, PaymentTypes DEF AmountAt
<1>6. SumFunctionOnSet(AmountAt, RecordedUnder(p)) = SumFunctionOnSet(AmountAt', RecordedUnder(p))
  BY <1>5, PaymentTypes, SumSame
<1> QED
  BY <1>1, <1>4, <1>6, Zenon DEF BookIsSum

LEMMA RecordSum ==
  ASSUME Inv, BookIsSum, NEW r \in Requests, Record(r)
  PROVE  BookIsSum'
<1> DEFINE n == Len(payments)
<1>1. /\ payments' = payments /\ recorded' = recorded \cup {r} /\ r \notin recorded
      /\ pc[r] = "paid" /\ chosen[r] \in Subjects
      /\ n \in PaymentNos /\ payments[n].by = r /\ payments[n].policy = chosen[r].policy
      /\ payments[n].offer = chosen[r].offer
      /\ \A m \in PaymentNos : payments[m].by = r => m = n
  <2>1. pc[r] = "paid" /\ payments' = payments /\ recorded' = recorded \cup {r}
    BY DEF Record
  <2> QED
    BY <2>1, PaymentTypes DEF Inv, LastPaid, Booked, AfterRecord, Pending
<1>2. /\ chosen[r].policy \in Policies /\ AmountAt[n] = chosen[r].offer.amount
      /\ AmountAt' = AmountAt /\ PaymentNos' = PaymentNos
  BY <1>1 DEF AmountAt, PaymentNos, Subjects
<1>3. /\ book'[chosen[r].policy].spent = book[chosen[r].policy].spent + chosen[r].offer.amount
      /\ \A p \in Policies \ {chosen[r].policy} : book'[p] = book[p]
  BY <1>2 DEF Record, Inv, TypeOK
<1> HIDE DEF n
<1> SUFFICES ASSUME NEW p \in Policies
             PROVE  SumFunctionOnSet(AmountAt, RecordedUnder(p)') = book'[p].spent
  BY <1>2 DEF BookIsSum
<1>4. SumFunctionOnSet(AmountAt, RecordedUnder(p)) = book[p].spent /\ book[p].spent \in Nat
  BY DEF BookIsSum, Inv, TypeOK
<1>5. CASE p = chosen[r].policy
  <2>1. RecordedUnder(p)' = RecordedUnder(p) \cup {n} /\ n \notin RecordedUnder(p)
    BY <1>1, <1>2, <1>5 DEF RecordedUnder
  <2>2. AmountAt[n] \in Nat /\ \A m \in RecordedUnder(p) : AmountAt[m] \in Nat
    BY <1>1, PaymentTypes
  <2>3. IsFiniteSet(RecordedUnder(p))
    BY PaymentTypes
  <2>4. SumFunctionOnSet(AmountAt, RecordedUnder(p) \cup {n})
          = AmountAt[n] + SumFunctionOnSet(AmountAt, RecordedUnder(p))
    BY <2>1, <2>2, <2>3, SumAdd
  <2>5. SumFunctionOnSet(AmountAt, RecordedUnder(p)') = AmountAt[n] + book[p].spent
    BY <1>4, <2>1, <2>4
  <2> QED
    BY <1>2, <1>3, <1>4, <1>5, <2>2, <2>5
<1>6. CASE p # chosen[r].policy
  <2>1. RecordedUnder(p)' = RecordedUnder(p)
    BY <1>1, <1>2, <1>6 DEF RecordedUnder
  <2> QED
    BY <1>3, <1>4, <1>6, <2>1
<1> QED
  BY <1>5, <1>6

LEMMA SumStep == Inv /\ BookIsSum /\ [Next]_vars => BookIsSum'
<1> SUFFICES ASSUME Inv, BookIsSum, [Next]_vars PROVE BookIsSum'
  OBVIOUS
<1>1. CASE \E r \in Requests : Pay(r)
  BY <1>1, PaySum
<1>2. CASE \E r \in Requests : Record(r)
  BY <1>2, RecordSum
<1>3. CASE UNCHANGED <<payments, recorded, book>>
  <2>1. AmountAt' = AmountAt /\ \A p : RecordedUnder(p)' = RecordedUnder(p)
    BY <1>3 DEF AmountAt, RecordedUnder, PaymentNos
  <2> QED
    BY <1>3, <2>1 DEF BookIsSum
<1> QED
  BY <1>1, <1>2, <1>3
     DEF Next, Step, vars, Look, Acquire, Fail, Answer, Release, Approved, Declined, WritePolicy,
         Ask, Expire, Crash

LEMMA SumInitially == Init => BookIsSum
<1> SUFFICES ASSUME Init, NEW p \in Policies
             PROVE  SumFunctionOnSet(AmountAt, RecordedUnder(p)) = book[p].spent
  BY DEF BookIsSum
<1>1. RecordedUnder(p) = {} /\ book[p].spent = 0
  BY DEF Init, RecordedUnder
<1>2. SumFunctionOnSet(AmountAt, {}) = 0
  BY SumType, FS_EmptySet
<1> QED
  BY <1>1, <1>2

\* What was paid and recorded under a policy adds up to its budget at most.  A
\* budget is an amount: the code parses any integer, and one below 0 lets
\* nothing through, but the empty sum exceeds it.
THEOREM BudgetHolds == Budget \in [Policies -> Nat] => (Spec => []BudgetKept)
<1> SUFFICES ASSUME Budget \in [Policies -> Nat] PROVE Spec => []BudgetKept
  OBVIOUS
<1>1. Inv /\ BookIsSum /\ BookWithinBudget => BudgetKept
  <2> SUFFICES ASSUME Inv, BookIsSum, BookWithinBudget, NEW p \in Policies
               PROVE  SumFunctionOnSet(AmountAt, RecordedUnder(p)) <= Budget[p]
    BY DEF BudgetKept
  <2>1. SumFunctionOnSet(AmountAt, RecordedUnder(p)) = book[p].spent /\ book[p].spent \in Nat
    BY DEF BookIsSum, Inv, TypeOK
  <2>2. book[p].spent > 0 => book[p].spent <= Budget[p]
    BY DEF BookWithinBudget
  <2> QED
    BY <2>1, <2>2
<1> QED
  BY <1>1, Invariance, SumInitially, SumStep, TotalWithinBudget, PTL DEF Spec

=============================================================================
