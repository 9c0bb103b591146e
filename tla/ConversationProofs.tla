-------------------------- MODULE ConversationProofs --------------------------
(***************************************************************************)
(* What is proved about the conversations with a user, over the phone and  *)
(* over Telegram: pairing codes, links and approvals for any users, phones,*)
(* codes, approvals, times to live and sidecars, and the Telegram wizards  *)
(* for any number of messages and threads.  The links come first, under    *)
(* LinksSpec; a step of the approval service is one of theirs or leaves    *)
(* them alone, so their invariant carries over.  The wizards, which share  *)
(* no state with either, come last.                                        *)
(*                                                                         *)
(* The three invariants of the links lean on each other: a link for        *)
(* iMessage is refused unless neither side has one (OneLinkEachWay), which *)
(* with LegacyInSync says that the old table has no row to replace.        *)
(***************************************************************************)
EXTENDS ApprovalService, TelegramSessions, SequenceTheorems, TLAPS

linksState == <<now, linkVars>>

\* A code that was given out belongs to a user.
OwnedCodes ==
  \A k \in Codes : pairings[k].state # "unused" => pairings[k].user \in Users

LinksInv ==
  /\ LinksTypeOK
  /\ OwnedCodes
  /\ OneLinkEachWay
  /\ LegacyInSync
  /\ OneActivePairing

Pairing == [user : Users \cup {Nothing}, channel : Channels,
            state : {"unused", "active", "expired", "consumed"}, expiresAt : Nat]

LEMMA InitLinks == LinksInit => LinksInv
  BY LinksAssumption
     DEF LinksInit, LinksInv, LinksTypeOK, OwnedCodes, OneLinkEachWay, LegacyInSync,
         OneActivePairing, NoPairing, Channels

\* Ageing a code changes its state only, from active to expired.
LEMMA AgedShape ==
  ASSUME LinksTypeOK
  PROVE  /\ Aged \in [Codes -> Pairing]
         /\ \A k \in Codes :
              /\ Aged[k].user = pairings[k].user
              /\ Aged[k].channel = pairings[k].channel
              /\ Aged[k].state = "unused" <=> pairings[k].state = "unused"
              /\ Aged[k].state = "active" =>
                   pairings[k].state = "active" /\ now < pairings[k].expiresAt
  BY DEF Aged, LinksTypeOK, Pairing

LEMMA ConsumedShape ==
  ASSUME LinksTypeOK, NEW k \in Codes, Aged[k].state = "active", Consume(k)
  PROVE  /\ pairings' \in [Codes -> Pairing]
         /\ pairings'[k].state = "consumed"
         /\ \A j \in Codes :
              /\ pairings'[j].user = pairings[j].user
              /\ pairings'[j].channel = pairings[j].channel
              /\ pairings'[j].state = "unused" <=> pairings[j].state = "unused"
              /\ pairings'[j].state = "active" => pairings[j].state = "active"
<1>1. pairings' = [j \in Codes |-> IF j = k THEN [Aged[k] EXCEPT !.state = "consumed"] ELSE Aged[j]]
  BY AgedShape DEF Consume
<1> QED
  BY <1>1, AgedShape DEF Pairing

\* Codes that only age, or are used up, stay owned and alone.
LEMMA CodesKept ==
  ASSUME LinksInv,
         \A j \in Codes :
           /\ pairings'[j].user = pairings[j].user
           /\ pairings'[j].channel = pairings[j].channel
           /\ pairings'[j].state = "unused" <=> pairings[j].state = "unused"
           /\ pairings'[j].state = "active" => pairings[j].state = "active"
  PROVE  OwnedCodes' /\ OneActivePairing'
  BY DEF LinksInv, OwnedCodes, OneActivePairing

LEMMA StepLinks == LinksInv /\ [LinksNext]_linksState => LinksInv'
<1> SUFFICES ASSUME LinksInv, [LinksNext]_linksState PROVE LinksInv'
  OBVIOUS
<1> USE LinksAssumption
<1>1. ASSUME NEW u \in Users, NEW c \in Channels, NEW k \in Codes, CreatePairing(u, c, k)
      PROVE  LinksInv'
  <2>1. pairings' \in [Codes -> Pairing]
    BY <1>1 DEF CreatePairing, LinksInv, LinksTypeOK, Pairing
  <2>2. OwnedCodes'
    BY <1>1, <2>1 DEF CreatePairing, LinksInv, LinksTypeOK, OwnedCodes, Pairing
  <2>3. OneActivePairing'
    BY <1>1, <2>1 DEF CreatePairing, LinksInv, LinksTypeOK, OneActivePairing, Pairing
  <2> QED
    BY <1>1, <2>1, <2>2, <2>3
       DEF CreatePairing, LinksInv, LinksTypeOK, OneLinkEachWay, LegacyInSync, Pairing
<1>2. ASSUME NEW k \in Codes, NEW c \in Channels, LinkFails(k, c) PROVE LinksInv'
  <2>1. OwnedCodes' /\ OneActivePairing' /\ pairings' \in [Codes -> Pairing]
    BY <1>2, AgedShape, CodesKept DEF LinkFails, LinksInv
  <2> QED
    BY <1>2, <2>1 DEF LinkFails, LinksInv, LinksTypeOK, OneLinkEachWay, LegacyInSync, Pairing
<1>3. ASSUME NEW k \in Codes, NEW s \in Senders, NEW c \in Channels, LinkRefused(k, s, c)
      PROVE  LinksInv'
  <2>1. OwnedCodes' /\ OneActivePairing' /\ pairings' \in [Codes -> Pairing]
    BY <1>3, ConsumedShape, CodesKept DEF LinkRefused, Good, LinksInv
  <2> QED
    BY <1>3, <2>1 DEF LinkRefused, LinksInv, LinksTypeOK, OneLinkEachWay, LegacyInSync, Pairing
<1>4. ASSUME NEW k \in Codes, NEW s \in Senders, NEW c \in Channels, LinkSender(k, s, c)
      PROVE  LinksInv'
  <2> DEFINE u == pairings[k].user
  <2>1. OwnedCodes' /\ OneActivePairing' /\ pairings' \in [Codes -> Pairing]
    BY <1>4, ConsumedShape, CodesKept DEF LinkSender, Good, LinksInv
  <2>2. u \in Users
    BY <1>4, AgedShape DEF LinkSender, Good, LinksInv, OwnedCodes
  <2>3. OneLinkEachWay'
    BY <1>4 DEF LinkSender, Conflict, LinksInv, OneLinkEachWay
  <2>4. LegacyInSync'
    <3>1. CASE c = "imessage"
      <4>1. \A l \in legacy : l.user # u
        BY <1>4, <3>1 DEF LinkSender, Conflict, LinksInv, LegacyInSync
      <4>2. legacy' = legacy \cup {[user |-> u, sender |-> s]}
        BY <1>4, <3>1, <4>1 DEF LinkSender
      <4>3. {m \in links' : m.channel = "imessage"} =
              {m \in links : m.channel = "imessage"}
                \cup {[user |-> u, channel |-> c, sender |-> s]}
        BY <1>4, <3>1 DEF LinkSender
      <4> DEFINE F == {m \in links : m.channel = "imessage"}
                 new == [user |-> u, channel |-> c, sender |-> s]
                 Row(l) == [user |-> l.user, sender |-> l.sender]
      <4>4. {Row(l) : l \in F \cup {new}} = {Row(l) : l \in F} \cup {Row(new)}
        OBVIOUS
      <4>5. Row(new) = [user |-> u, sender |-> s]
        OBVIOUS
      <4>6. legacy = {Row(l) : l \in F}
        BY DEF LinksInv, LegacyInSync
      <4>7. legacy' = {Row(l) : l \in {m \in links' : m.channel = "imessage"}}
        BY <4>2, <4>3, <4>4, <4>5, <4>6
      <4> QED
        BY <4>7 DEF LegacyInSync
    <3>2. CASE c # "imessage"
      <4>1. {m \in links' : m.channel = "imessage"} = {m \in links : m.channel = "imessage"}
        BY <1>4, <3>2 DEF LinkSender
      <4> QED
        BY <1>4, <3>2, <4>1 DEF LinkSender, LinksInv, LegacyInSync
    <3> QED
      BY <3>1, <3>2
  <2>5. LinksTypeOK'
    <3>1. legacy' \subseteq [user : Users, sender : Senders]
      BY <1>4, <2>2 DEF LinkSender, LinksInv, LinksTypeOK
    <3>2. links' \subseteq Link
      BY <1>4, <2>2 DEF LinkSender, LinksInv, LinksTypeOK, Link
    <3> QED
      BY <1>4, <2>1, <2>2, <3>1, <3>2 DEF LinkSender, LinksInv, LinksTypeOK, Pairing
  <2> QED
    BY <2>1, <2>3, <2>4, <2>5 DEF LinksInv
<1>5. ASSUME NEW u \in Users, NEW c \in Channels, SelectChannel(u, c) PROVE LinksInv'
  BY <1>5 DEF SelectChannel, LinksInv, LinksTypeOK, OwnedCodes, OneLinkEachWay, LegacyInSync,
              OneActivePairing
<1>6. ASSUME NEW u \in Users, UnlinkUser(u) PROVE LinksInv'
  <2>1. LegacyInSync'
    BY <1>6 DEF UnlinkUser, LinksOf, LinksInv, LegacyInSync
  <2> QED
    BY <1>6, <2>1 DEF UnlinkUser, LinksOf, LinksInv, LinksTypeOK, OwnedCodes, OneLinkEachWay,
                      OneActivePairing
<1>7. ASSUME NEW s \in Senders, UnlinkPhone(s) PROVE LinksInv'
  <2>1. LegacyInSync'
    BY <1>7 DEF UnlinkPhone, LinksInv, LegacyInSync
  <2> QED
    BY <1>7, <2>1 DEF UnlinkPhone, LinksInv, LinksTypeOK, OwnedCodes, OneLinkEachWay,
                      OneActivePairing
<1>8. CASE OpenStore
  <2>1. links' = links
    BY <1>8 DEF OpenStore, Missing, LinksInv, LegacyInSync
  <2> QED
    BY <1>8, <2>1 DEF OpenStore, LinksInv, LinksTypeOK, OwnedCodes, OneLinkEachWay,
                      LegacyInSync, OneActivePairing
<1>9. CASE Tick
  BY <1>9 DEF Tick, linkVars, LinksInv, LinksTypeOK, OwnedCodes, OneLinkEachWay,
              LegacyInSync, OneActivePairing
<1>10. CASE UNCHANGED linksState
  BY <1>10 DEF linksState, linkVars, LinksInv, LinksTypeOK, OwnedCodes, OneLinkEachWay,
               LegacyInSync, OneActivePairing
<1> QED
  BY <1>1, <1>2, <1>3, <1>4, <1>5, <1>6, <1>7, <1>8, <1>9, <1>10
     DEF LinksNext, LinksChange

THEOREM LinksInvariance == LinksSpec => []LinksInv
<1>1. LinksInit => LinksInv
  BY InitLinks
<1>2. LinksInv /\ [LinksNext]_linksState => LinksInv'
  BY StepLinks
<1> QED
  BY <1>1, <1>2, PTL DEF LinksSpec, linksState

\* A phone speaks for one user and a user listens to one phone, per channel.
THEOREM LinksAreOneToOne == LinksSpec => []OneLinkEachWay
  BY LinksInvariance, PTL DEF LinksInv

\* The table of the earlier version never disagrees with the links.
THEOREM LegacyAgrees == LinksSpec => []LegacyInSync
  BY LinksInvariance, PTL DEF LinksInv

\* One good code for a user and channel.
THEOREM OneCodeAtATime == LinksSpec => []OneActivePairing
  BY LinksInvariance, PTL DEF LinksInv

\* A link appears only by using up a good code of its user: a restart that
\* copies the old table back adds nothing.
LEMMA StepLinked ==
  ASSUME LinksInv, LinksNext
  PROVE  \A l \in links' \ links :
           \E k \in Codes :
             /\ pairings[k].state = "active" /\ now < pairings[k].expiresAt
             /\ pairings[k].user = l.user /\ pairings[k].channel = l.channel
             /\ pairings'[k].state = "consumed"
<1> SUFFICES ASSUME NEW l \in links' \ links
             PROVE  \E k \in Codes :
                      /\ pairings[k].state = "active" /\ now < pairings[k].expiresAt
                      /\ pairings[k].user = l.user /\ pairings[k].channel = l.channel
                      /\ pairings'[k].state = "consumed"
  OBVIOUS
<1>1. ~OpenStore
  BY DEF OpenStore, Missing, LinksInv, LegacyInSync
<1>2. PICK k \in Codes, s \in Senders, c \in Channels : LinkSender(k, s, c)
  BY <1>1 DEF LinksNext, LinksChange, Tick, linkVars, SelectChannel, CreatePairing, LinkFails,
              LinkRefused, UnlinkUser, UnlinkPhone
<1>3. l = [user |-> pairings[k].user, channel |-> c, sender |-> s]
  BY <1>2 DEF LinkSender
<1> QED
  BY <1>2, <1>3, AgedShape, ConsumedShape DEF LinkSender, Good, LinksInv

THEOREM RestartLinksNobody == LinksSpec => LinkedByPairingOnly
<1>1. LinksInv /\ [LinksNext]_linksState =>
        [\A l \in links' \ links :
           \E k \in Codes :
             /\ pairings[k].state = "active" /\ now < pairings[k].expiresAt
             /\ pairings[k].user = l.user /\ pairings[k].channel = l.channel
             /\ pairings'[k].state = "consumed"]_linksState
  BY StepLinked DEF linksState
<1> QED
  BY <1>1, LinksInvariance, PTL DEF LinksSpec, LinkedByPairingOnly, linksState

-----------------------------------------------------------------------------
(* Approvals *)

StatusSet == {"none", "pending", "approved", "denied", "expired", "delivery_failed"}
Pending(a) == status[a] = "pending" /\ now < expiresAt[a]

\* How far the thread of an approval is, and what that says of its row.
Stages ==
  \A a \in Approvals :
    /\ waiter[a] = "none" <=> status[a] = "none"
    /\ waiter[a] # "returned" => answer[a] = "none"
    /\ answer[a] = "pending" => a \in Tests
    /\ waiter[a] = "returned" /\ answer[a] \notin {"pending", "raised"} => status[a] # "pending"
    /\ answer[a] = "approved" => status[a] = "approved"
    /\ addressee[a] # Nothing => status[a] # "none"
    /\ \A m \in shown : m.about = a => status[a] # "none"

\* Where a decision comes from.
Origin(d) ==
  /\ [about |-> d.about, sender |-> d.sender, channel |-> d.channel] \in shown
  /\ d.channel = "whatsapp" => d.id = d.about
Evidence ==
  /\ \A d \in decisions : Origin(d)
  /\ \A a \in Approvals : status[a] = "approved" => decidedBy[a] # Nothing /\ decidedBy[a].yes
  /\ \A a \in Approvals : decidedBy[a] # Nothing => Origin(decidedBy[a])
  /\ \A a \in Approvals : status[a] \in {"none", "pending"} => decidedBy[a] = Nothing

Decided == ButtonDecidesItsOwn /\ StrayReplyIsLate

IInv == TypeOK /\ LinksInv /\ OnePendingPerUser /\ Stages /\ Evidence /\ Decided

LEMMA SweptShape ==
  ASSUME TypeOK
  PROVE  /\ Swept \in [Approvals -> StatusSet]
         /\ \A a \in Approvals :
              /\ Swept[a] = "pending" <=> Pending(a)
              /\ Swept[a] = "none" <=> status[a] = "none"
              /\ Swept[a] = "approved" <=> status[a] = "approved"
              /\ status[a] # "pending" => Swept[a] = status[a]
              /\ status[a] = "pending" => Swept[a] \in {"pending", "expired"}
  BY DEF Swept, Lapsed, TypeOK, StatusSet, Pending, LinksTypeOK

LEMMA SweptPrime ==
  ASSUME TypeOK'
  PROVE  \A a \in Approvals : Swept'[a] = "pending" <=> Pending(a)'
  BY DEF Swept, Lapsed, TypeOK, Pending, LinksTypeOK

LEMMA OnePendingForm ==
  ASSUME TypeOK
  PROVE  OnePendingPerUser <=>
           \A a, b \in Approvals :
             OwnerOf[a] = OwnerOf[b] /\ Pending(a) /\ Pending(b) => a = b
  BY SweptShape DEF OnePendingPerUser
LEMMA OnePendingFormPrime ==
  ASSUME TypeOK'
  PROVE  OnePendingPerUser' <=>
           \A a, b \in Approvals :
             OwnerOf[a] = OwnerOf[b] /\ Pending(a)' /\ Pending(b)' => a = b
  BY SweptPrime DEF OnePendingPerUser

\* Nothing that only ends approvals gives a user a second one.
LEMMA PendingKept ==
  ASSUME IInv, TypeOK', \A a \in Approvals : Pending(a)' => Pending(a)
  PROVE  OnePendingPerUser'
  BY OnePendingForm, OnePendingFormPrime DEF IInv

LEMMA InitIInv == Init => IInv
<1> SUFFICES ASSUME Init PROVE IInv
  OBVIOUS
<1>1. LinksInv
  BY InitLinks DEF Init
<1>2. TypeOK
  BY <1>1, ApprovalAssumption DEF Init, TypeOK, LinksInv
<1> QED
  BY <1>1, <1>2, SweptShape
     DEF Init, IInv, OnePendingPerUser, Stages, Evidence, Decided, ButtonDecidesItsOwn,
         StrayReplyIsLate

\* The links, as every step of the service leaves them.
LEMMA LinksKept ==
  ASSUME IInv, [Next]_vars
  PROVE  LinksInv'
<1>1. CASE UNCHANGED <<now, linkVars>>
  BY <1>1, StepLinks DEF IInv, linksState
<1>2. CASE LinksChange \/ Tick \/ OpenStore
  BY <1>2, StepLinks DEF IInv, LinksNext
<1>3. CASE Crash
  BY <1>3, <1>2 DEF Crash
<1> QED
  BY <1>1, <1>2, <1>3
     DEF Next, Thread, Request, RequestRefused, Arrive, SendOk, SendFails, SendRaises,
         MarkUndelivered, Poll, Deadline, ReleasePending, ReplyYesNo, PressButton, RecordDecision, NoPending,
         vars

\* The step invariant but for the links: the part an action of the service
\* can disturb.
OwnInv == OnePendingPerUser /\ Stages /\ Evidence /\ Decided

LEMMA StepTypeOK ==
  ASSUME IInv, Next
  PROVE  TypeOK'
<1> USE ApprovalAssumption
<1> USE DEF IInv, TypeOK
<1>0. LinksTypeOK'
  BY LinksKept DEF LinksInv
<1>1. ASSUME NEW a \in Approvals, Request(a) PROVE TypeOK'
  <2>1. status' \in [Approvals -> StatusSet]
    BY <1>1, SweptShape DEF Request, StatusSet
  <2>2. expiresAt' \in [Approvals -> Nat]
    BY <1>1 DEF Request, LinksTypeOK
  <2>3. addressee' \in [Approvals -> Link \cup {Nothing}]
    BY <1>1 DEF Request, Reachable, LinksOf, LinksTypeOK
  <2> QED
    BY <1>0, <1>1, <2>1, <2>2, <2>3 DEF Request, StatusSet
<1>2. ASSUME NEW a \in Approvals, RequestRefused(a) PROVE TypeOK'
  BY <1>0, <1>2, SweptShape DEF RequestRefused, waitVars, StatusSet
<1>3. ASSUME NEW a \in Approvals, Arrive(a) PROVE TypeOK'
  <2>1. addressee[a] \in Link
    BY <1>3 DEF Arrive
  <2> QED
    BY <1>0, <1>3, <2>1 DEF Arrive, waitVars, Link
<1>4. ASSUME NEW a \in Approvals, SendOk(a) PROVE TypeOK'
  BY <1>0, <1>4 DEF SendOk, Return, Goto
<1>5. ASSUME NEW a \in Approvals, SendFails(a) PROVE TypeOK'
  BY <1>0, <1>5 DEF SendFails, Goto
<1>16. ASSUME NEW a \in Approvals, SendRaises(a) PROVE TypeOK'
  BY <1>0, <1>16 DEF SendRaises, Return
<1>6. ASSUME NEW a \in Approvals, MarkUndelivered(a) PROVE TypeOK'
  BY <1>0, <1>6 DEF MarkUndelivered, Return
<1>7. ASSUME NEW a \in Approvals, Poll(a) PROVE TypeOK'
  <2>1. Swept[a] \in StatusSet
    BY SweptShape
  <2> QED
    BY <1>0, <1>7, <2>1, SweptShape DEF Poll, Return, StatusSet
<1>8. ASSUME NEW a \in Approvals, Deadline(a) PROVE TypeOK'
  BY <1>0, <1>8 DEF Deadline, Goto
<1>9. ASSUME NEW a \in Approvals, ReleasePending(a) PROVE TypeOK'
  BY <1>0, <1>9 DEF ReleasePending, Return
<1>10. ASSUME NEW m \in shown, NEW yes \in BOOLEAN, ReplyYesNo(m, yes) PROVE TypeOK'
  <2>1. PICK a \in UNION {Open(u) : u \in SpeaksFor(m.sender, m.channel)} :
          Call([about |-> m.about, sender |-> m.sender, channel |-> m.channel,
                id |-> IF EchoId THEN a ELSE Nothing, yes |-> yes])
    BY <1>10 DEF ReplyYesNo
  <2>2. a \in Approvals
    BY <2>1 DEF Open
  <2>3. decisions' \subseteq Decision
    BY <2>1, <2>2 DEF Call, Decision
  <2> QED
    BY <1>0, <1>10, <2>3, SweptShape DEF ReplyYesNo, waitVars, StatusSet
<1>11. ASSUME NEW m \in shown, NEW yes \in BOOLEAN, PressButton(m, yes) PROVE TypeOK'
  BY <1>0, <1>11 DEF PressButton, Call, Decision, waitVars
<1>12. ASSUME NEW d \in decisions, RecordDecision(d) PROVE TypeOK'
  <2>1. PICK a \in Named(d) :
          /\ status' = [Swept EXCEPT ![a] = IF d.yes THEN "approved" ELSE "denied"]
          /\ decidedBy' = [decidedBy EXCEPT ![a] = d]
    BY <1>12 DEF RecordDecision
  <2>2. a \in Approvals
    BY <2>1 DEF Named, Open
  <2> QED
    BY <1>0, <1>12, <2>1, <2>2, SweptShape DEF RecordDecision, waitVars, StatusSet
<1>13. ASSUME NEW d \in decisions, NoPending(d) PROVE TypeOK'
  BY <1>0, <1>13, SweptShape DEF NoPending, waitVars, StatusSet
<1>14. CASE Crash
  BY <1>0, <1>14 DEF Crash
<1>15. CASE (LinksChange \/ Tick) /\ UNCHANGED approvalVars
  BY <1>0, <1>15 DEF approvalVars, waitVars
<1> HIDE DEF IInv, TypeOK
<1> QED
  BY <1>1, <1>2, <1>3, <1>4, <1>5, <1>6, <1>7, <1>8, <1>9, <1>10, <1>11, <1>12, <1>13,
     <1>14, <1>15, <1>16 DEF Next, Thread

\* A step that decides nothing keeps what is said of the decisions, and one
\* that takes nothing back besides, the record of where they come from.
LEMMA DecidedKept ==
  ASSUME IInv, UNCHANGED decidedBy,
         \A a \in Approvals :
           status'[a] \in {"none", "pending"} => status[a] \in {"none", "pending"}
  PROVE  Decided'
<1>1. \A a \in Approvals : decidedBy[a] # Nothing => decidedBy[a].about \in Approvals
  BY DEF IInv, TypeOK, Decision
<1> QED
  BY <1>1 DEF IInv, Decided, StrayReplyIsLate, ButtonDecidesItsOwn
LEMMA EvidenceKept ==
  ASSUME IInv, shown \subseteq shown', decisions' \subseteq decisions, UNCHANGED decidedBy,
         \A a \in Approvals :
           /\ status'[a] = "approved" => status[a] = "approved"
           /\ status'[a] \in {"none", "pending"} => status[a] \in {"none", "pending"}
  PROVE  Evidence' /\ Decided'
<1>1. Evidence'
  BY DEF IInv, Evidence, Origin
<1> QED
  BY <1>1, DecidedKept

LEMMA StepOwnInv ==
  ASSUME IInv, Next
  PROVE  OwnInv'
<1> USE ApprovalAssumption DEF OwnInv
<1>0. TypeOK' /\ TypeOK
  BY StepTypeOK DEF IInv
<1>1. ASSUME NEW a \in Approvals, Request(a) PROVE OwnInv'
  <2>1. \A b \in Approvals : b # a => status'[b] = Swept[b] /\ expiresAt'[b] = expiresAt[b]
    BY <1>1, <1>0, SweptShape DEF Request, TypeOK
  <2>2. status'[a] = "pending"
    BY <1>1, <1>0, SweptShape DEF Request
  <2>3. \A b \in Approvals : b # a /\ Pending(b)' => Pending(b) /\ OwnerOf[b] # OwnerOf[a]
    BY <1>1, <1>0, <2>1, SweptShape DEF Request, Open, Pending
  <2>4. OnePendingPerUser'
    BY <2>3, <1>0, OnePendingForm, OnePendingFormPrime DEF IInv
  <2>5. Stages'
    BY <1>1, <1>0, <2>1, <2>2, SweptShape DEF Request, IInv, Stages, TypeOK
  <2>6. Evidence' /\ Decided'
    BY <1>1, <1>0, <2>1, <2>2, SweptShape, EvidenceKept DEF Request, IInv, Stages
  <2> QED
    BY <2>4, <2>5, <2>6
<1>2. ASSUME NEW a \in Approvals, RequestRefused(a) PROVE OwnInv'
  BY <1>2, <1>0, SweptShape, PendingKept, EvidenceKept
     DEF RequestRefused, waitVars, IInv, Stages, Pending
<1>3. ASSUME NEW a \in Approvals, Arrive(a) PROVE OwnInv'
  BY <1>3, <1>0, PendingKept, EvidenceKept DEF Arrive, waitVars, IInv, Stages, Pending
<1>4. ASSUME NEW a \in Approvals, SendOk(a) PROVE OwnInv'
  <2>1. OnePendingPerUser' /\ Evidence' /\ Decided'
    BY <1>4, <1>0, PendingKept, EvidenceKept DEF SendOk, Pending
  <2>2. Stages'
    BY <1>4, <1>0 DEF SendOk, Return, Goto, IInv, Stages, TypeOK
  <2> QED
    BY <2>1, <2>2
<1>5. ASSUME NEW a \in Approvals, SendFails(a) PROVE OwnInv'
  <2>1. OnePendingPerUser' /\ Evidence' /\ Decided'
    BY <1>5, <1>0, PendingKept, EvidenceKept DEF SendFails, Pending
  <2>2. Stages'
    BY <1>5, <1>0 DEF SendFails, Goto, IInv, Stages, TypeOK
  <2> QED
    BY <2>1, <2>2
<1>16. ASSUME NEW a \in Approvals, SendRaises(a) PROVE OwnInv'
  <2>1. OnePendingPerUser' /\ Evidence' /\ Decided'
    BY <1>16, <1>0, PendingKept, EvidenceKept DEF SendRaises, Pending
  <2>2. Stages'
    BY <1>16, <1>0 DEF SendRaises, Return, IInv, Stages, TypeOK
  <2> QED
    BY <2>1, <2>2
<1>6. ASSUME NEW a \in Approvals, MarkUndelivered(a) PROVE OwnInv'
  <2>1. OnePendingPerUser' /\ Evidence' /\ Decided'
    BY <1>6, <1>0, PendingKept, EvidenceKept DEF MarkUndelivered, Pending, TypeOK
  <2>2. Stages'
    BY <1>6, <1>0 DEF MarkUndelivered, Return, IInv, Stages, TypeOK
  <2> QED
    BY <2>1, <2>2
<1>7. ASSUME NEW a \in Approvals, Poll(a) PROVE OwnInv'
  <2>1. OnePendingPerUser' /\ Evidence' /\ Decided'
    BY <1>7, <1>0, SweptShape, PendingKept, EvidenceKept DEF Poll, Pending, TypeOK
  <2>2. Stages'
    BY <1>7, <1>0, SweptShape DEF Poll, Return, IInv, Stages, TypeOK
  <2> QED
    BY <2>1, <2>2
<1>8. ASSUME NEW a \in Approvals, Deadline(a) PROVE OwnInv'
  <2>1. OnePendingPerUser' /\ Evidence' /\ Decided'
    BY <1>8, <1>0, PendingKept, EvidenceKept DEF Deadline, Pending
  <2>2. Stages'
    BY <1>8, <1>0 DEF Deadline, Goto, IInv, Stages, TypeOK
  <2> QED
    BY <2>1, <2>2
<1>9. ASSUME NEW a \in Approvals, ReleasePending(a) PROVE OwnInv'
  <2>1. OnePendingPerUser' /\ Evidence' /\ Decided'
    BY <1>9, <1>0, PendingKept, EvidenceKept DEF ReleasePending, Pending, TypeOK
  <2>2. Stages'
    BY <1>9, <1>0 DEF ReleasePending, Return, IInv, Stages, TypeOK
  <2> QED
    BY <2>1, <2>2
<1>10. ASSUME NEW m \in shown, NEW yes \in BOOLEAN, ReplyYesNo(m, yes) PROVE OwnInv'
  <2>1. OnePendingPerUser' /\ Stages'
    BY <1>10, <1>0, SweptShape, PendingKept DEF ReplyYesNo, waitVars, IInv, Stages, Pending
  <2>2. \A d \in decisions' \ decisions :
          d.about = m.about /\ d.sender = m.sender /\ d.channel = m.channel
    BY <1>10 DEF ReplyYesNo, Call
  <2>3. m = [about |-> m.about, sender |-> m.sender, channel |-> m.channel]
    BY <1>0 DEF TypeOK
  <2>4. Evidence'
    BY <1>10, <1>0, <2>2, <2>3, SweptShape DEF ReplyYesNo, IInv, Evidence, Origin
  <2>5. Decided'
    BY <1>10, <1>0, SweptShape, DecidedKept DEF ReplyYesNo
  <2> QED
    BY <2>1, <2>4, <2>5
<1>11. ASSUME NEW m \in shown, NEW yes \in BOOLEAN, PressButton(m, yes) PROVE OwnInv'
  <2>1. OnePendingPerUser' /\ Stages'
    BY <1>11, <1>0, PendingKept DEF PressButton, waitVars, IInv, Stages, Pending
  <2>2. \A d \in decisions' \ decisions :
          /\ d.about = m.about /\ d.sender = m.sender /\ d.channel = m.channel
          /\ d.id = d.about
    BY <1>11 DEF PressButton, Call
  <2>3. m = [about |-> m.about, sender |-> m.sender, channel |-> m.channel]
    BY <1>0 DEF TypeOK
  <2>4. Evidence'
    BY <1>11, <2>2, <2>3 DEF PressButton, IInv, Evidence, Origin
  <2>5. Decided'
    BY <1>11, DecidedKept DEF PressButton
  <2> QED
    BY <2>1, <2>4, <2>5
<1>12. ASSUME NEW d \in decisions, RecordDecision(d) PROVE OwnInv'
  <2>1. PICK a \in Named(d) :
          /\ status' = [Swept EXCEPT ![a] = IF d.yes THEN "approved" ELSE "denied"]
          /\ decidedBy' = [decidedBy EXCEPT ![a] = d]
    BY <1>12 DEF RecordDecision
  <2>2. a \in Approvals /\ Pending(a) /\ (d.channel = "whatsapp" => d.id = a)
    BY <2>1, <1>0, SweptShape DEF Named, Open
  <2>3. /\ status'[a] = IF d.yes THEN "approved" ELSE "denied"
        /\ decidedBy'[a] = d
        /\ \A b \in Approvals : b # a => status'[b] = Swept[b] /\ decidedBy'[b] = decidedBy[b]
    BY <2>1, <2>2, <1>0, SweptShape DEF TypeOK
  <2>4. OnePendingPerUser'
    BY <1>12, <1>0, <2>2, <2>3, SweptShape, PendingKept DEF RecordDecision, Pending
  <2>5. Stages'
    BY <1>12, <1>0, <2>2, <2>3, SweptShape DEF RecordDecision, waitVars, IInv, Stages, Pending
  <2>6. d # Nothing
    BY <1>0, DecisionAssumption DEF TypeOK
  <2>7. Evidence' /\ Decided'
    <3>1. Origin(d)
      BY DEF IInv, Evidence
    <3>2. UNCHANGED shown /\ decisions' \subseteq decisions
      BY <1>12 DEF RecordDecision
    <3>3. \A b \in Approvals : decidedBy'[b] # Nothing => Origin(decidedBy'[b])
      BY <2>3, <3>1 DEF IInv, Evidence
    <3>4. \A b \in Approvals :
            status'[b] = "approved" => decidedBy'[b] # Nothing /\ decidedBy'[b].yes
      BY <1>0, <2>3, <2>6, SweptShape DEF IInv, Evidence
    <3>5. \A b \in Approvals : status'[b] \in {"none", "pending"} => decidedBy'[b] = Nothing
      BY <1>0, <2>3, SweptShape DEF IInv, Evidence, Pending
    <3>6. ButtonDecidesItsOwn'
      BY <2>2, <2>3, <3>1 DEF Origin, IInv, Decided, ButtonDecidesItsOwn
    <3>7. ASSUME d.about # a, OwnerOf[d.about] = OwnerOf[a]
          PROVE  status'[d.about] \notin {"none", "pending"}
      <4>1. d.about \in Approvals
        BY <1>0 DEF TypeOK, Decision
      <4>2. status[d.about] # "none"
        BY <3>1, <4>1 DEF Origin, IInv, Stages
      <4>3. ~Pending(d.about)
        BY <1>0, <2>2, <3>7, <4>1, OnePendingForm DEF IInv
      <4> QED
        BY <1>0, <2>3, <3>7, <4>1, <4>2, <4>3, SweptShape
    <3>8. StrayReplyIsLate'
      <4>1. ASSUME NEW b \in Approvals, b # a, decidedBy[b] # Nothing, decidedBy[b].about # b,
                   OwnerOf[decidedBy[b].about] = OwnerOf[b]
            PROVE  status'[decidedBy[b].about] \notin {"none", "pending"}
        <5>1. /\ decidedBy[b].about \in Approvals
              /\ status[decidedBy[b].about] \notin {"none", "pending"}
          BY <1>0, <4>1 DEF IInv, Decided, StrayReplyIsLate, TypeOK, Decision
        <5> QED
          BY <1>0, <2>2, <2>3, <5>1, SweptShape DEF Pending
      <4> QED
        BY <2>3, <3>7, <4>1 DEF StrayReplyIsLate
    <3> QED
      BY <3>1, <3>2, <3>3, <3>4, <3>5, <3>6, <3>8 DEF IInv, Evidence, Origin, Decided
  <2> QED
    BY <2>4, <2>5, <2>7
<1>13. ASSUME NEW d \in decisions, NoPending(d) PROVE OwnInv'
  BY <1>13, <1>0, SweptShape, PendingKept, EvidenceKept
     DEF NoPending, waitVars, IInv, Stages, Pending
<1>14. CASE Crash
  <2>1. OnePendingPerUser' /\ Evidence' /\ Decided'
    BY <1>14, <1>0, PendingKept, EvidenceKept DEF Crash, OpenStore, Pending
  <2>2. Stages'
    BY <1>14, <1>0 DEF Crash, IInv, Stages, TypeOK
  <2> QED
    BY <2>1, <2>2
<1>15. CASE (LinksChange \/ Tick) /\ UNCHANGED approvalVars
  <2>1. now' \in Nat /\ now <= now'
    BY <1>15, <1>0
       DEF LinksChange, SelectChannel, CreatePairing, LinkFails, LinkRefused, LinkSender,
           UnlinkUser, UnlinkPhone, Tick, TypeOK, LinksTypeOK
  <2>2. OnePendingPerUser'
    BY <1>15, <1>0, <2>1, PendingKept DEF approvalVars, Pending, TypeOK, LinksTypeOK
  <2> QED
    BY <1>15, <2>2, EvidenceKept DEF approvalVars, waitVars, IInv, Stages
<1> QED
  BY <1>1, <1>2, <1>3, <1>4, <1>5, <1>6, <1>7, <1>8, <1>9, <1>10, <1>11, <1>12, <1>13,
     <1>14, <1>15, <1>16 DEF Next, Thread

LEMMA StepIInv == IInv /\ [Next]_vars => IInv'
<1> SUFFICES ASSUME IInv, [Next]_vars PROVE IInv'
  OBVIOUS
<1>1. CASE Next
  BY <1>1, StepTypeOK, StepOwnInv, LinksKept DEF IInv, OwnInv
<1>2. CASE UNCHANGED vars
  <2>1. TypeOK' /\ LinksInv'
    BY <1>2, LinksKept DEF vars, approvalVars, waitVars, IInv, TypeOK, LinksInv
  <2>2. OnePendingPerUser'
    BY <1>2, <2>1, PendingKept DEF vars, approvalVars, Pending
  <2> QED
    BY <1>2, <2>1, <2>2, EvidenceKept DEF vars, approvalVars, waitVars, IInv, Stages
<1> QED
  BY <1>1, <1>2

THEOREM Invariance == Spec => []IInv
<1>1. Init => IInv
  BY InitIInv
<1>2. IInv /\ [Next]_vars => IInv'
  BY StepIInv
<1> QED
  BY <1>1, <1>2, PTL DEF Spec

\* The tables and the threads keep their shape.
THEOREM TypeCorrect == Spec => []TypeOK
  BY Invariance, PTL DEF IInv

\* A user never has two approvals that can still be decided.
THEOREM OneOpenApproval == Spec => []OnePendingPerUser
  BY Invariance, PTL DEF IInv

\* A caller that was answered, and not only sent an exception of the notifier,
\* leaves nothing to approve.
THEOREM NothingOpenBehindAnAnswer == Spec => []AnsweredIsClosed
<1>1. IInv => AnsweredIsClosed
  BY SweptShape DEF IInv, Stages, AnsweredIsClosed, Pending
<1> QED
  BY <1>1, Invariance, PTL

\* "approved" is returned only for a YES from a phone that received a message.
THEOREM ApprovalHadAYes == Spec => []ApprovedByAReply
<1>1. IInv => ApprovedByAReply
  BY DEF IInv, Stages, Evidence, Origin, ApprovedByAReply
<1> QED
  BY <1>1, Invariance, PTL

\* A button decides its own approval.
THEOREM ButtonsStayBound == Spec => []ButtonDecidesItsOwn
<1>1. IInv => ButtonDecidesItsOwn
  BY DEF IInv, Decided
<1> QED
  BY <1>1, Invariance, PTL

\* A reply decides another approval of the user than the one it answers only
\* when that one is over.
THEOREM OnlyLateRepliesStray == Spec => []StrayReplyIsLate
<1>1. IInv => StrayReplyIsLate
  BY DEF IInv, Decided
<1> QED
  BY <1>1, Invariance, PTL

\* A decision, an expiry or a failed delivery is never overwritten.
LEMMA StepFinal ==
  ASSUME IInv, Next, NEW a \in Approvals, status[a] \notin {"none", "pending"}
  PROVE  status'[a] = status[a]
<1>0. TypeOK
  BY DEF IInv
<1>1. Swept[a] = status[a]
  BY <1>0, SweptShape
<1>2. ASSUME NEW b \in Approvals, Request(b) PROVE status'[a] = status[a]
  <2>1. a # b
    BY <1>2 DEF Request, IInv, Stages
  <2> QED
    BY <1>0, <1>1, <1>2, <2>1, SweptShape DEF Request
<1>3. ASSUME NEW d \in decisions, RecordDecision(d) PROVE status'[a] = status[a]
  <2>1. PICK b \in Named(d) :
          status' = [Swept EXCEPT ![b] = IF d.yes THEN "approved" ELSE "denied"]
    BY <1>3 DEF RecordDecision
  <2>2. a # b
    BY <1>1, <2>1 DEF Named, Open
  <2> QED
    BY <1>0, <1>1, <2>1, <2>2, SweptShape
<1>4. ASSUME NEW b \in Approvals, MarkUndelivered(b) \/ ReleasePending(b)
      PROVE  status'[a] = status[a]
  BY <1>0, <1>4 DEF MarkUndelivered, ReleasePending, TypeOK
<1> QED
  BY <1>1, <1>2, <1>3, <1>4
     DEF Next, Thread, RequestRefused, Arrive, SendOk, SendFails, SendRaises, Poll, Deadline,
         ReplyYesNo, PressButton, NoPending, Crash, approvalVars

THEOREM DecisionsAreFinal == Spec => DecisionIsFinal
<1>1. IInv /\ [Next]_vars =>
        [\A a \in Approvals :
           status[a] \notin {"none", "pending"} => status'[a] = status[a]]_vars
  BY StepFinal
<1> QED
  BY <1>1, Invariance, PTL DEF Spec, DecisionIsFinal

-----------------------------------------------------------------------------
\* The refinement: what the mapping says of a row.
LEMMA QuestionShape ==
  ASSUME TypeOK, NEW a \in Approvals
  PROVE  /\ Question(a) \in {"none", "open", "yes", "no", "void"}
         /\ Question(a) = "open" <=> Pending(a)
         /\ Question(a) = "none" <=> status[a] = "none"
         /\ Question(a) = "yes" <=> status[a] = "approved"
         /\ Question(a) = "no" <=> status[a] = "denied"
  BY DEF TypeOK, LinksTypeOK, Lapsed, Pending, Question
LEMMA QuestionPrime ==
  ASSUME TypeOK', NEW a \in Approvals
  PROVE  /\ Question(a)' \in {"none", "open", "yes", "no", "void"}
         /\ Question(a)' = "open" <=> Pending(a)'
         /\ Question(a)' = "none" <=> status'[a] = "none"
         /\ Question(a)' = "yes" <=> status'[a] = "approved"
         /\ Question(a)' = "no" <=> status'[a] = "denied"
  BY DEF TypeOK, LinksTypeOK, Lapsed, Pending, Question

\* An approval whose row means the same is the same question.
LEMMA SameQuestion ==
  ASSUME TypeOK, TypeOK', NEW a \in Approvals,
         Pending(a)' <=> Pending(a),
         status'[a] = "none" <=> status[a] = "none",
         status'[a] = "approved" <=> status[a] = "approved",
         status'[a] = "denied" <=> status[a] = "denied"
  PROVE  Question(a)' = Question(a)
  BY QuestionShape, QuestionPrime

LEMMA SameHeard ==
  ASSUME UNCHANGED answer, NEW a \in Approvals
  PROVE  Heard(a)' = Heard(a)
  BY DEF Heard

\* A step that answers no caller, and opens, decides and ends nothing, changes
\* nothing the callers can see.
LEMMA SilentStep ==
  ASSUME TypeOK, TypeOK', \A a \in Approvals : Heard(a)' = Heard(a),
         \A a \in Approvals :
           /\ Pending(a)' <=> Pending(a)
           /\ status'[a] = "none" <=> status[a] = "none"
           /\ status'[a] = "approved" <=> status[a] = "approved"
           /\ status'[a] = "denied" <=> status[a] = "denied"
  PROVE  UNCHANGED Consent!vars
<1>1. \A a \in Approvals : Question(a)' = Question(a)
  BY SameQuestion
<1> QED
  BY <1>1 DEF Consent!vars

\* Sweeping is not seen by the callers.
LEMMA SweepUnseen ==
  ASSUME TypeOK, TypeOK', NEW a \in Approvals,
         status'[a] = Swept[a], expiresAt'[a] = expiresAt[a], UNCHANGED now
  PROVE  /\ Pending(a)' <=> Pending(a)
         /\ status'[a] = "none" <=> status[a] = "none"
         /\ status'[a] = "approved" <=> status[a] = "approved"
         /\ status'[a] = "denied" <=> status[a] = "denied"
         /\ Question(a)' = Question(a)
<1>1. Pending(a)' <=> Pending(a)
  BY SweptShape DEF Pending
<1>2. /\ status'[a] = "none" <=> status[a] = "none"
      /\ status'[a] = "approved" <=> status[a] = "approved"
      /\ status'[a] = "denied" <=> status[a] = "denied"
  BY SweptShape
<1> QED
  BY <1>1, <1>2, SameQuestion

\* The maps, where one approval changes.
LEMMA OneQuestion ==
  ASSUME NEW a \in Approvals, \A b \in Approvals \ {a} : Question(b)' = Question(b)
  PROVE  [b \in Approvals |-> Question(b)]' =
           [[b \in Approvals |-> Question(b)] EXCEPT ![a] = Question(a)']
  OBVIOUS
LEMMA OneHeard ==
  ASSUME NEW a \in Approvals, \A b \in Approvals \ {a} : Heard(b)' = Heard(b)
  PROVE  [b \in Approvals |-> Heard(b)]' =
           [[b \in Approvals |-> Heard(b)] EXCEPT ![a] = Heard(a)']
  OBVIOUS
LEMMA SameHeardMap ==
  ASSUME \A b \in Approvals : Heard(b)' = Heard(b)
  PROVE  [b \in Approvals |-> Heard(b)]' = [b \in Approvals |-> Heard(b)]
  OBVIOUS
LEMMA SameQuestionMap ==
  ASSUME \A b \in Approvals : Question(b)' = Question(b)
  PROVE  [b \in Approvals |-> Question(b)]' = [b \in Approvals |-> Question(b)]
  OBVIOUS

LEMMA RequestAsks ==
  ASSUME IInv, TypeOK', NEW a \in Approvals, Request(a)
  PROVE  Consent!Ask(a)
<1>0. TypeOK
  BY DEF IInv
<1>1. status[a] = "none"
  BY DEF Request, IInv, Stages
<1>2. \A b \in Approvals : OwnerOf[b] = OwnerOf[a] => ~Pending(b)
  BY <1>0, SweptShape DEF Request, Open
<1>3. Pending(a)'
  BY <1>0, SweptShape, ApprovalAssumption DEF Request, Pending, TypeOK, LinksTypeOK
<1>4. \A b \in Approvals \ {a} : Question(b)' = Question(b)
  BY <1>0, SweptShape, SweepUnseen DEF Request, TypeOK
<1>5. Question(a)' = "open"
  BY <1>3, QuestionPrime
<1>6. \A b \in Approvals : Question(b) = "open" => OwnerOf[b] # OwnerOf[a]
  BY <1>0, <1>2, QuestionShape
<1>7. \A b \in Approvals : Heard(b)' = Heard(b)
  BY SameHeard DEF Request
<1> QED
  BY <1>0, <1>1, <1>4, <1>5, <1>6, <1>7, QuestionShape, OneQuestion, SameHeardMap
     DEF Consent!Ask

\* A caller returns: its question ends with it, or was over already.
LEMMA ReturnHears ==
  ASSUME IInv, TypeOK', NEW a \in Approvals, NEW r,
         r \in {"delivery_failed", "timeout", "approved", "denied", "expired"},
         waiter[a] \notin {"none", "returned"}, Return(a, r),
         r = "approved" => status[a] = "approved",
         ~Pending(a)', UNCHANGED <<now, expiresAt>>,
         \A b \in Approvals :
           /\ status'[b] = "none" <=> status[b] = "none"
           /\ status'[b] = "approved" <=> status[b] = "approved"
           /\ status'[b] = "denied" <=> status[b] = "denied"
           /\ b # a => (Pending(b)' <=> Pending(b))
  PROVE  Consent!Hear(a, IF r = "approved" THEN "yes" ELSE "no") \/ Consent!GiveUp(a)
<1> DEFINE v == IF r = "approved" THEN "yes" ELSE "no"
<1>0. TypeOK
  BY DEF IInv
<1>1. Heard(a) = "nothing"
  BY DEF IInv, Stages, Heard
<1>2. Heard(a)' = v
  BY <1>0 DEF Return, Heard, TypeOK
<1>3. \A b \in Approvals \ {a} : Heard(b)' = Heard(b)
  BY <1>0 DEF Return, Heard, TypeOK
<1>4. \A b \in Approvals \ {a} : Question(b)' = Question(b)
  BY <1>0, SameQuestion
<1>5. Question(a) # "none"
  BY <1>0, QuestionShape DEF IInv, Stages
<1>6. CASE Pending(a)
  <2>1. Question(a) = "open"
    BY <1>0, <1>6, QuestionShape
  <2>2. Question(a)' = "void"
    BY <1>0, <1>6, QuestionPrime DEF Pending
  <2>3. v = "no"
    BY <1>6 DEF Pending
  <2> QED
    BY <1>1, <1>2, <1>3, <1>4, <2>1, <2>2, <2>3, OneQuestion, OneHeard DEF Consent!GiveUp
<1>7. CASE ~Pending(a)
  <2>1. \A b \in Approvals : Question(b)' = Question(b)
    BY <1>0, <1>4, <1>7, SameQuestion
  <2>2. Question(a) # "open"
    BY <1>0, <1>7, QuestionShape
  <2>3. v = "yes" => Question(a) = "yes"
    BY <1>0, QuestionShape
  <2> QED
    BY <1>1, <1>2, <1>3, <1>5, <2>1, <2>2, <2>3, SameQuestionMap, OneHeard DEF Consent!Hear
<1> QED
  BY <1>6, <1>7

LEMMA DecisionAnswers ==
  ASSUME IInv, TypeOK', NEW d \in decisions, RecordDecision(d)
  PROVE  \E a \in Approvals, v \in {"yes", "no"} : Consent!Answer(a, v)
<1>0. TypeOK
  BY DEF IInv
<1>1. PICK a \in Named(d) :
        status' = [Swept EXCEPT ![a] = IF d.yes THEN "approved" ELSE "denied"]
  BY DEF RecordDecision
<1>2. a \in Approvals /\ Pending(a)
  BY <1>0, <1>1, SweptShape DEF Named, Open
<1> DEFINE v == IF d.yes THEN "yes" ELSE "no"
<1>3. Question(a)' = v
  BY <1>0, <1>1, <1>2, SweptShape, QuestionPrime
<1>4. \A b \in Approvals \ {a} : Question(b)' = Question(b)
  BY <1>0, <1>1, <1>2, SweptShape, SweepUnseen DEF RecordDecision
<1>5. \A b \in Approvals : Heard(b)' = Heard(b)
  BY SameHeard DEF RecordDecision, waitVars
<1>6. Question(a) = "open"
  BY <1>0, <1>2, QuestionShape
<1>7. Consent!Answer(a, v)
  BY <1>2, <1>3, <1>4, <1>5, <1>6, OneQuestion, SameHeardMap DEF Consent!Answer
<1> QED
  BY <1>2, <1>7

\* An exception of the notifier ends the caller and not the question.
LEMMA RaiseFails ==
  ASSUME IInv, TypeOK', NEW a \in Approvals, SendRaises(a)
  PROVE  Consent!Fail(a)
<1>0. TypeOK
  BY DEF IInv
<1>1. Heard(a) = "nothing" /\ Heard(a)' = "failed"
  BY <1>0 DEF SendRaises, Return, Heard, IInv, Stages, TypeOK
<1>2. \A b \in Approvals \ {a} : Heard(b)' = Heard(b)
  BY <1>0 DEF SendRaises, Return, Heard, TypeOK
<1>3. \A b \in Approvals : Question(b)' = Question(b)
  BY <1>0, SameQuestion DEF SendRaises, Pending
<1>4. Question(a) # "none"
  BY <1>0, QuestionShape DEF SendRaises, IInv, Stages
<1> QED
  BY <1>1, <1>2, <1>3, <1>4, SameQuestionMap, OneHeard DEF Consent!Fail

\* Time makes questions void.
LEMMA TickVoids ==
  ASSUME IInv, TypeOK', Tick, UNCHANGED approvalVars
  PROVE  \E S \in SUBSET Approvals : Consent!Void(S)
<1>0. TypeOK
  BY DEF IInv
<1> DEFINE S == {a \in Approvals : Pending(a) /\ ~Pending(a)'}
<1>1. \A a \in S : Question(a) = "open" /\ Question(a)' = "void"
  BY <1>0, QuestionShape, QuestionPrime DEF Pending, approvalVars
<1>2. \A a \in Approvals \ S : Question(a)' = Question(a)
  <2>1. \A a \in Approvals : Pending(a)' => Pending(a)
    BY <1>0 DEF Tick, Pending, approvalVars, TypeOK, LinksTypeOK
  <2> QED
    BY <1>0, <2>1, SameQuestion DEF approvalVars
<1>3. \A b \in Approvals : Heard(b)' = Heard(b)
  BY SameHeard DEF approvalVars, waitVars
<1>4. Consent!Void(S)
  BY <1>1, <1>2, <1>3, SameHeardMap DEF Consent!Void
<1> QED
  BY <1>4

LEMMA StepRefines ==
  ASSUME IInv, [Next]_vars
  PROVE  [Consent!Next]_(Consent!vars)
<1>0. TypeOK /\ TypeOK'
  BY StepIInv DEF IInv
<1>1. ASSUME NEW a \in Approvals, Request(a) PROVE Consent!Next
  BY <1>0, <1>1, RequestAsks DEF Consent!Next
<1>2. ASSUME NEW a \in Approvals, MarkUndelivered(a) PROVE Consent!Next
  <2>1. /\ ~Pending(a)'
        /\ \A b \in Approvals :
             /\ status'[b] = "none" <=> status[b] = "none"
             /\ status'[b] = "approved" <=> status[b] = "approved"
             /\ status'[b] = "denied" <=> status[b] = "denied"
             /\ b # a => (Pending(b)' <=> Pending(b))
    BY <1>0, <1>2 DEF MarkUndelivered, Pending, TypeOK
  <2> QED
    BY <1>0, <1>2, <2>1, ReturnHears DEF MarkUndelivered, Consent!Next
<1>3. ASSUME NEW a \in Approvals, ReleasePending(a) PROVE Consent!Next
  <2>1. /\ ~Pending(a)'
        /\ \A b \in Approvals :
             /\ status'[b] = "none" <=> status[b] = "none"
             /\ status'[b] = "approved" <=> status[b] = "approved"
             /\ status'[b] = "denied" <=> status[b] = "denied"
             /\ b # a => (Pending(b)' <=> Pending(b))
    BY <1>0, <1>3 DEF ReleasePending, Pending, TypeOK
  <2> QED
    BY <1>0, <1>3, <2>1, ReturnHears DEF ReleasePending, Consent!Next
<1>4. ASSUME NEW a \in Approvals, Poll(a) PROVE Consent!Next
  <2>1. /\ ~Pending(a)'
        /\ \A b \in Approvals :
             /\ status'[b] = "none" <=> status[b] = "none"
             /\ status'[b] = "approved" <=> status[b] = "approved"
             /\ status'[b] = "denied" <=> status[b] = "denied"
             /\ b # a => (Pending(b)' <=> Pending(b))
    BY <1>0, <1>4, SweptShape, SweepUnseen DEF Poll, Pending
  <2>2. Swept[a] \in {"delivery_failed", "approved", "denied", "expired"}
    BY <1>0, <1>4, SweptShape DEF Poll, StatusSet, IInv, Stages
  <2>3. Swept[a] = "approved" => status[a] = "approved"
    BY <1>0, SweptShape
  <2> QED
    BY <1>0, <1>4, <2>1, <2>2, <2>3, ReturnHears DEF Poll, Consent!Next
<1>5. ASSUME NEW d \in decisions, RecordDecision(d) PROVE Consent!Next
  BY <1>0, <1>5, DecisionAnswers DEF Consent!Next
<1>6. CASE Tick /\ UNCHANGED approvalVars
  BY <1>0, <1>6, TickVoids DEF Consent!Next
<1>7. CASE UNCHANGED <<now, expiresAt, answer>> /\ (status' = status \/ status' = Swept)
  <2>1. \A b \in Approvals : Heard(b)' = Heard(b)
    BY <1>7, SameHeard
  <2>2. CASE status' = status
    BY <1>0, <1>7, <2>1, <2>2, SilentStep DEF Pending
  <2>3. CASE status' = Swept
    BY <1>0, <1>7, <2>1, <2>3, SweepUnseen, SilentStep
  <2> QED
    BY <1>7, <2>2, <2>3
<1>8. ASSUME NEW a \in Approvals, SendOk(a) PROVE UNCHANGED Consent!vars
  <2>1. \A b \in Approvals : Heard(b)' = Heard(b)
    BY <1>0, <1>8 DEF SendOk, Return, Goto, Heard, IInv, Stages, TypeOK
  <2> QED
    BY <1>0, <1>8, <2>1, SilentStep DEF SendOk, Pending
<1>10. ASSUME NEW a \in Approvals, SendRaises(a) PROVE Consent!Next
  BY <1>0, <1>10, RaiseFails DEF Consent!Next
<1>9. CASE LinksChange /\ UNCHANGED approvalVars
  <2>1. UNCHANGED now
    BY <1>9 DEF LinksChange, SelectChannel, CreatePairing, LinkFails, LinkRefused, LinkSender,
                UnlinkUser, UnlinkPhone
  <2> QED
    BY <1>7, <1>9, <2>1 DEF approvalVars, waitVars
<1> QED
  BY <1>1, <1>2, <1>3, <1>4, <1>5, <1>6, <1>7, <1>8, <1>9, <1>10
     DEF Next, Thread, RequestRefused, Arrive, SendFails, Deadline, ReplyYesNo, PressButton,
         NoPending, Crash, OpenStore, Goto, waitVars, vars, approvalVars

\* Whoever asks for an approval can rely on HumanConsent.
THEOREM ServiceImplementsConsent == Spec => ImplementsConsent
<1>1. Init => Consent!Init
  BY DEF Init, Consent!Init, Question, Heard
<1>2. IInv /\ [Next]_vars => [Consent!Next]_(Consent!vars)
  BY StepRefines
<1> QED
  BY <1>1, <1>2, Invariance, PTL DEF Spec, ImplementsConsent, Consent!Spec

-----------------------------------------------------------------------------
(* The Telegram wizards *)

TaskType == [kind : Kinds, back : ChoosingStages \cup {"none"},
             outcome : {"ok", "empty", "failed"},
             pc : {"never", "work", "write", "buying", "finish", "done"}]

\* The thread of that number is one that will still replace what is shown, or
\* there never was one, or the user turned away from it; before it looks it is
\* the reserved one.
Awaits(gen, kinds) ==
    /\ gen \in 1 .. Len(tasks)
    /\ \/ gen \in left
       \/ /\ tasks[gen].kind \in kinds
          /\ tasks[gen].pc \in {"write", "never"} \/ (tasks[gen].pc = "work" /\ gen = active)

\* The purchase that is shown is under way, broke off or was turned away from.
Purchasing(gen) ==
    /\ gen \in 1 .. Len(tasks)
    /\ \/ gen \in left
       \/ tasks[gen].outcome = "failed" /\ (tasks[gen].kind = "purchase" \/ tasks[gen].pc = "done")
       \/ tasks[gen].kind = "purchase" /\ tasks[gen].pc \in {"work", "buying"}

LoadingAwaited ==
    /\ shop.stage \in LoadingStages => Awaits(shop.gen, Reads \ {"assets"})
    /\ wallet.step = "loading" => Awaits(wallet.gen, {"assets"})

PurchaseShown == shop.stage = "purchasing" => Purchasing(shop.gen)

\* A purchase under way is the reserved operation or one turned away from.
PurchaseWanted ==
    \A t \in 1 .. Len(tasks) :
        tasks[t].kind = "purchase" /\ tasks[t].pc \in {"work", "buying"} => t = active \/ t \in left

\* The reserved operation is one whose thread gives the reservation back.
Reserved ==
    /\ Len(tasks) <= MaxTasks
    /\ active # 0 => tasks[active].kind \notin {"direct", "transfer"}

SessionInv == SessionTypeOK /\ LoadingAwaited /\ PurchaseShown /\ PurchaseWanted /\ Reserved

LEMMA SessionInitially == SessionInit => SessionInv
<1> SUFFICES ASSUME SessionInit PROVE SessionInv
  OBVIOUS
<1>1. tasks \in Seq(TaskType) /\ Len(tasks) = 0
  BY DEF SessionInit
<1>2. SessionTypeOK
  <2>1. PICK stage \in Opening : shop = [stage |-> stage, gen |-> 0, back |-> "none"]
    BY DEF SessionInit, At
  <2>2. shop \in [stage : WizardStages, gen : 0 .. MaxTasks, back : ChoosingStages \cup {"none"}]
    BY <2>1, OpeningAssumption, BoundsAssumption DEF WizardStages
  <2>3. tasks \in Seq(TaskType) /\ active \in 0 .. Len(tasks) /\ active = 0 /\ left \subseteq 1 .. Len(tasks)
    BY <1>1 DEF SessionInit
  <2>4. wallet \in [step : Steps, gen : 0 .. MaxTasks]
    BY BoundsAssumption DEF SessionInit, Step, Steps
  <2>5. phone \in BOOLEAN /\ chat \in BOOLEAN /\ budget \in BOOLEAN /\ offered \in BOOLEAN
    BY DEF SessionInit
  <2>6. messages \in 0 .. MaxMessages
    BY BoundsAssumption DEF SessionInit
  <2> QED
    BY <2>2, <2>3, <2>4, <2>5, <2>6 DEF SessionTypeOK, TaskType
<1>3. LoadingAwaited
  BY OpeningAssumption DEF SessionInit, LoadingAwaited, At, Step, LoadingStages, ChoosingStages
<1>4. PurchaseWanted /\ Reserved
  BY <1>1, BoundsAssumption DEF SessionInit, PurchaseWanted, Reserved
<1>5. PurchaseShown
  BY OpeningAssumption DEF SessionInit, PurchaseShown, At, ChoosingStages
<1> QED
  BY <1>2, <1>3, <1>4, <1>5 DEF SessionInv

\* What a message of the user may do: it starts a thread at most, and turns
\* away from what was reserved or leaves it alone.
LEMMA HookStep ==
  ASSUME SessionInv,
         tasks' \in Seq(TaskType), Len(tasks') \in {Len(tasks), Len(tasks) + 1},
         Len(tasks') <= MaxTasks,
         \A j \in 1 .. Len(tasks) : tasks'[j] = tasks[j],
         \/ active' = active /\ left' = left
         \/ /\ left' = Superseded
            /\ active' = 0 \/ (active' = Len(tasks) + 1 /\ Len(tasks') = Len(tasks) + 1),
         Len(tasks') # Len(tasks) =>
           /\ tasks'[Len(tasks) + 1].pc \in {"work", "never"}
           /\ tasks'[Len(tasks) + 1].kind = "purchase" /\ tasks'[Len(tasks) + 1].pc = "work" =>
                active' = Len(tasks) + 1
           /\ active' = Len(tasks) + 1 =>
                tasks'[Len(tasks) + 1].kind \notin {"direct", "transfer"},
         shop' \in [stage : WizardStages, gen : 0 .. MaxTasks, back : ChoosingStages \cup {"none"}],
         \/ shop' = shop
         \/ shop'.stage \notin LoadingStages \cup {"purchasing"}
         \/ /\ shop'.gen = Len(tasks) + 1 /\ Len(tasks') = Len(tasks) + 1
            /\ active' = Len(tasks) + 1 \/ tasks'[Len(tasks) + 1].pc = "never"
            /\ tasks'[Len(tasks) + 1].kind \in Reads \ {"assets"}
            /\ shop'.stage # "purchasing"
         \/ /\ shop'.gen = Len(tasks) + 1 /\ Len(tasks') = Len(tasks) + 1
            /\ shop'.stage = "purchasing"
            /\ tasks'[Len(tasks) + 1].kind = "purchase" /\ tasks'[Len(tasks) + 1].pc = "work",
         wallet' \in [step : Steps, gen : 0 .. MaxTasks],
         \/ wallet' = wallet
         \/ wallet'.step # "loading"
         \/ /\ wallet'.gen = Len(tasks) + 1 /\ Len(tasks') = Len(tasks) + 1
            /\ active' = Len(tasks) + 1 \/ tasks'[Len(tasks) + 1].pc = "never"
            /\ tasks'[Len(tasks) + 1].kind = "assets",
         phone' \in BOOLEAN, chat' \in BOOLEAN, budget' \in BOOLEAN, offered' \in BOOLEAN,
         messages' \in 0 .. MaxMessages
  PROVE  SessionInv'
<1> DEFINE n == Len(tasks)
           grown == Len(tasks') # Len(tasks)
<1>1. n \in Nat /\ Len(tasks') \in Nat /\ active \in 0 .. n /\ left \subseteq 1 .. n
  BY DEF SessionInv, SessionTypeOK
<1>2. active \in left' \cup {0} \/ (active' = active /\ left' = left)
  BY DEF Superseded
<1>3. left \subseteq left' /\ left' \subseteq 1 .. Len(tasks')
  <2>1. CASE left' = left
    BY <1>1, <2>1
  <2>2. CASE active # 0 /\ left' = left \cup {active}
    <3>1. active \in 1 .. Len(tasks')
      BY <1>1, <2>2
    <3>2. left \subseteq 1 .. Len(tasks')
      BY <1>1
    <3> QED
      BY <2>2, <3>1, <3>2
  <2> QED
    BY <2>1, <2>2 DEF Superseded
<1>4. active' \in 0 .. Len(tasks') /\ active' \notin left'
  <2>1. CASE active' = active /\ left' = left
    BY <1>1, <2>1 DEF SessionInv, SessionTypeOK
  <2>2. CASE active' = 0
    BY <1>1, <1>3, <2>2
  <2>3. CASE active' = Len(tasks) + 1 /\ Len(tasks') = Len(tasks) + 1 /\ left' = Superseded
    <3>1. n + 1 \notin left /\ n + 1 # active
      BY <1>1
    <3> QED
      BY <1>1, <2>3, <3>1 DEF Superseded
  <2> QED
    BY <2>1, <2>2, <2>3
<1>5. active' # 0 => tasks'[active'].pc # "done" /\ tasks'[active'].kind \notin {"direct", "transfer"}
  BY <1>1 DEF SessionInv, SessionTypeOK, Reserved
<1>6. SessionTypeOK'
  BY <1>1, <1>3, <1>4, <1>5 DEF SessionTypeOK, TaskType
<1>7. ASSUME NEW gen, NEW kinds, Awaits(gen, kinds)
      PROVE  /\ gen \in 1 .. Len(tasks')
             /\ \/ gen \in left'
                \/ /\ tasks'[gen].kind \in kinds
                   /\ \/ tasks'[gen].pc \in {"write", "never"}
                      \/ tasks'[gen].pc = "work" /\ gen = active'
  BY <1>1, <1>2, <1>3, <1>7 DEF Awaits
<1>8. LoadingAwaited'
  <2>1. shop'.stage \in LoadingStages => Awaits(shop.gen, Reads \ {"assets"})'
    <3>1. CASE shop' = shop /\ shop.stage \in LoadingStages
      BY <1>7, <3>1 DEF SessionInv, LoadingAwaited, Awaits
    <3>2. CASE /\ shop'.gen = n + 1 /\ Len(tasks') = n + 1
               /\ active' = n + 1 \/ tasks'[n + 1].pc = "never"
               /\ tasks'[n + 1].kind \in Reads \ {"assets"}
      BY <1>1, <3>2 DEF Awaits
    <3> QED
      BY <3>1, <3>2 DEF LoadingStages
  <2>2. wallet'.step = "loading" => Awaits(wallet.gen, {"assets"})'
    <3>1. CASE wallet' = wallet /\ wallet.step = "loading"
      BY <1>7, <3>1 DEF SessionInv, LoadingAwaited, Awaits
    <3>2. CASE /\ wallet'.gen = n + 1 /\ Len(tasks') = n + 1
               /\ active' = n + 1 \/ tasks'[n + 1].pc = "never"
               /\ tasks'[n + 1].kind = "assets"
      BY <1>1, <3>2 DEF Awaits
    <3> QED
      BY <3>1, <3>2
  <2> QED
    BY <2>1, <2>2 DEF LoadingAwaited
<1>9. PurchaseWanted'
  BY <1>1, <1>2, <1>3 DEF SessionInv, PurchaseWanted
<1>10. PurchaseShown'
  <2>1. CASE shop' = shop /\ shop.stage = "purchasing"
    BY <1>1, <1>3, <2>1 DEF SessionInv, PurchaseShown, Purchasing
  <2>2. CASE /\ shop'.gen = n + 1 /\ Len(tasks') = n + 1
             /\ tasks'[n + 1].kind = "purchase" /\ tasks'[n + 1].pc = "work"
    BY <1>1, <2>2 DEF PurchaseShown, Purchasing
  <2> QED
    BY <2>1, <2>2 DEF PurchaseShown
<1> QED
  BY <1>5, <1>6, <1>8, <1>9, <1>10 DEF SessionInv, Reserved

\* What a step of a thread may do: it changes its own entry, and the wizard
\* that waits for it is shown something else.
LEMMA TaskStep ==
  ASSUME SessionInv, NEW t \in 1 .. Len(tasks), NEW new \in TaskType,
         tasks' = [tasks EXCEPT ![t] = new], left' = left,
         active' = IF active = t /\ new.pc = "done" THEN 0 ELSE active,
         tasks[t].pc \notin {"never", "done"}, new.pc # "done" => new.kind = tasks[t].kind,
         new.pc \in {"work", "buying"} => tasks[t].pc \in {"work", "buying"},
         tasks[t].kind \in Reads => tasks[t].pc # "work" \/ new.pc = (IF active = t THEN "write" ELSE "finish"),
         shop' \in [stage : WizardStages, gen : 0 .. MaxTasks, back : ChoosingStages \cup {"none"}],
         shop' = shop \/ shop'.stage \notin LoadingStages \cup {"purchasing"},
         (/\ tasks[t].kind = "purchase"
          /\ tasks[t].outcome = "failed" \/ tasks[t].pc \in {"work", "buying"})
           => (\/ new.outcome = "failed" \/ new.pc \in {"work", "buying"}
               \/ shop'.stage # "purchasing"),
         tasks[t].kind \in Reads \ {"assets"} /\ tasks[t].pc = "write" => shop'.stage \notin LoadingStages,
         wallet' \in [step : Steps, gen : 0 .. MaxTasks],
         wallet' = wallet \/ wallet'.step # "loading",
         tasks[t].kind = "assets" /\ tasks[t].pc = "write" => wallet'.step # "loading",
         phone' \in BOOLEAN, chat' \in BOOLEAN, offered' \in BOOLEAN,
         UNCHANGED <<budget, messages>>
  PROVE  SessionInv'
<1>1. /\ tasks \in Seq(TaskType) /\ Len(tasks) \in Nat
      /\ active \in 0 .. Len(tasks) /\ left \subseteq 1 .. Len(tasks)
  BY DEF SessionInv, SessionTypeOK, TaskType
<1>2. /\ tasks' \in Seq(TaskType) /\ Len(tasks') = Len(tasks)
      /\ \A j \in 1 .. Len(tasks) : tasks'[j] = IF j = t THEN new ELSE tasks[j]
  BY <1>1, ExceptSeq
<1>3. SessionTypeOK'
  BY <1>1, <1>2 DEF SessionInv, SessionTypeOK, TaskType
<1>4. LoadingAwaited'
  <2>1. shop'.stage \in LoadingStages => Awaits(shop.gen, Reads \ {"assets"})'
    BY <1>1, <1>2 DEF SessionInv, LoadingAwaited, Awaits
  <2>2. wallet'.step = "loading" => Awaits(wallet.gen, {"assets"})'
    BY <1>1, <1>2 DEF SessionInv, LoadingAwaited, Awaits, Reads
  <2> QED
    BY <2>1, <2>2 DEF LoadingAwaited
<1>5. PurchaseWanted'
  BY <1>1, <1>2 DEF SessionInv, PurchaseWanted
<1>6. Reserved'
  BY <1>1, <1>2 DEF SessionInv, Reserved
<1>7. PurchaseShown'
  <2> SUFFICES ASSUME shop'.stage = "purchasing" PROVE Purchasing(shop.gen)'
    BY DEF PurchaseShown
  <2>1. shop' = shop /\ Purchasing(shop.gen)
    BY DEF SessionInv, PurchaseShown
  <2>2. CASE shop.gen # t
    BY <1>1, <1>2, <2>1, <2>2 DEF Purchasing
  <2>3. CASE shop.gen = t
    BY <1>1, <1>2, <2>1, <2>3 DEF Purchasing
  <2> QED
    BY <2>2, <2>3
<1> QED
  BY <1>3, <1>4, <1>5, <1>6, <1>7 DEF SessionInv

-----------------------------------------------------------------------------
\* The threads

\* An entry, and the same when it is over.
Past(t) ==
    [Ended EXCEPT !.outcome = IF tasks[t].kind = "purchase" THEN tasks[t].outcome ELSE "ok"]

LEMMA Entries ==
  ASSUME SessionInv, NEW t \in 1 .. Len(tasks)
  PROVE  /\ tasks[t] \in TaskType /\ Past(t) \in TaskType /\ Past(t).pc = "done"
         /\ tasks[t].kind = "purchase" => Past(t).outcome = tasks[t].outcome
<1>1. tasks \in Seq(TaskType)
  BY DEF SessionInv, SessionTypeOK, TaskType
<1>2. tasks[t] \in TaskType
  BY <1>1, ElementOfSeq
<1>3. tasks[t].outcome \in {"ok", "empty", "failed"}
  BY <1>2 DEF TaskType
<1> DEFINE o == IF tasks[t].kind = "purchase" THEN tasks[t].outcome ELSE "ok"
<1>4. Past(t) = [kind |-> "command", back |-> "none", outcome |-> o, pc |-> "done"]
  BY DEF Past, Ended
<1>5. o \in {"ok", "empty", "failed"} /\ (tasks[t].kind = "purchase" => o = tasks[t].outcome)
  BY <1>3
<1> HIDE DEF o
<1> QED
  BY <1>2, <1>4, <1>5 DEF TaskType, Kinds

\* An entry with another step.
LEMMA Rewritten ==
  ASSUME NEW task \in TaskType,
         NEW p \in {"work", "write", "buying", "finish", "done"}
  PROVE  /\ [task EXCEPT !.pc = p] \in TaskType
         /\ [task EXCEPT !.pc = p].pc = p /\ [task EXCEPT !.pc = p].kind = task.kind
         /\ [task EXCEPT !.pc = p].outcome = task.outcome
BY DEF TaskType

\* What a read puts in the place of "loading" is not loading.
LEMMA StageAfterType ==
  ASSUME NEW task \in TaskType, task.kind \in Reads \ {"assets"}
  PROVE  StageAfter(task) \in ChoosingStages \cup {"none"}
<1>1. task.back \in ChoosingStages \cup {"none"} /\ task.outcome \in {"ok", "empty", "failed"}
  BY DEF TaskType
<1>2. CASE task.kind = "search"
  BY <1>1, <1>2 DEF StageAfter, ChoosingStages
<1>3. CASE task.kind = "catalog"
  BY <1>1, <1>3 DEF StageAfter, ChoosingStages
<1>4. CASE task.kind = "product"
  BY <1>1, <1>4 DEF StageAfter, ChoosingStages
<1>5. CASE task.kind = "tokens"
  BY <1>1, <1>5 DEF StageAfter, ChoosingStages
<1> QED
  BY <1>2, <1>3, <1>4, <1>5 DEF Reads

\* The types a step of a thread relies on.
LEMMA SessionTypes ==
  ASSUME SessionInv
  PROVE  /\ shop \in [stage : WizardStages, gen : 0 .. MaxTasks, back : ChoosingStages \cup {"none"}]
         /\ wallet \in [step : Steps, gen : 0 .. MaxTasks]
         /\ phone \in BOOLEAN /\ chat \in BOOLEAN /\ offered \in BOOLEAN
         /\ \A stage \in ChoosingStages \cup {"none"} :
              /\ At(stage) \in [stage : WizardStages, gen : 0 .. MaxTasks, back : ChoosingStages \cup {"none"}]
              /\ At(stage).stage \notin LoadingStages \cup {"purchasing"}
         /\ \A step \in Steps :
              Step(step) \in [step : Steps, gen : 0 .. MaxTasks] /\ Step(step).step = step
<1>1. /\ shop \in [stage : WizardStages, gen : 0 .. MaxTasks, back : ChoosingStages \cup {"none"}]
      /\ wallet \in [step : Steps, gen : 0 .. MaxTasks]
      /\ phone \in BOOLEAN /\ chat \in BOOLEAN /\ offered \in BOOLEAN
  BY DEF SessionInv, SessionTypeOK
<1>2. \A stage \in ChoosingStages \cup {"none"} :
        /\ At(stage) \in [stage : WizardStages, gen : 0 .. MaxTasks, back : ChoosingStages \cup {"none"}]
        /\ At(stage).stage \notin LoadingStages \cup {"purchasing"}
  BY BoundsAssumption DEF At, WizardStages, ChoosingStages, LoadingStages
<1>3. \A step \in Steps : Step(step) \in [step : Steps, gen : 0 .. MaxTasks] /\ Step(step).step = step
  BY BoundsAssumption DEF Step
<1> QED
  BY <1>1, <1>2, <1>3

LEMMA ReadSteps ==
  ASSUME SessionInv, NEW t \in 1 .. Len(tasks), ReadReturns(t) \/ ReadWrites(t)
  PROVE  SessionInv'
<1>1. tasks[t] \in TaskType
  BY Entries
<1>2. CASE ReadReturns(t)
  <2> DEFINE p == IF active = t THEN "write" ELSE "finish"
  <2>1. PICK outcome \in {"ok", "empty", "failed"} :
          tasks' = [tasks EXCEPT ![t] = [tasks[t] EXCEPT !.outcome = outcome, !.pc = p]]
    BY <1>2 DEF ReadReturns, IsCurrent
  <2> DEFINE new == [tasks[t] EXCEPT !.outcome = outcome, !.pc = p]
  <2>2. new \in TaskType /\ new.kind = tasks[t].kind /\ new.pc = p
    <3>1. p \in {"work", "write", "buying", "finish", "done"}
      OBVIOUS
    <3> HIDE DEF p
    <3>2. PICK task \in TaskType : task = tasks[t]
      BY <1>1
    <3> QED
      BY <3>1, <3>2 DEF TaskType
  <2>3. /\ tasks[t].kind \in Reads /\ tasks[t].kind # "purchase" /\ tasks[t].pc = "work"
        /\ UNCHANGED <<active, left, shop, wallet, phone, chat, budget, offered, messages>>
    BY <1>2 DEF ReadReturns, Reads
  <2>4. tasks' = [tasks EXCEPT ![t] = new]
    BY <2>1
  <2> HIDE DEF new
  <2> QED
    BY <2>2, <2>3, <2>4, SessionTypes, TaskStep
<1>3. CASE ReadWrites(t)
  <2> DEFINE new == [tasks[t] EXCEPT !.pc = "finish"]
  <2>1. new \in TaskType /\ new.kind = tasks[t].kind /\ new.pc = "finish"
    BY <1>1, Rewritten
  <2>2. /\ tasks[t].kind \in Reads /\ tasks[t].kind # "purchase" /\ tasks[t].pc = "write"
        /\ tasks' = [tasks EXCEPT ![t] = new]
        /\ UNCHANGED <<active, left, phone, chat, budget, offered, messages>>
    BY <1>3 DEF ReadWrites, Put, Reads
  <2>3. CASE tasks[t].kind = "assets"
    <3>1. UNCHANGED shop /\ \E step \in {"token", "none"} : wallet' = Step(step)
      BY <1>3, <2>3 DEF ReadWrites
    <3>2. wallet' \in [step : Steps, gen : 0 .. MaxTasks] /\ wallet'.step # "loading"
      BY <3>1, SessionTypes DEF Steps
    <3> HIDE DEF new
    <3> QED
      BY <2>1, <2>2, <2>3, <3>1, <3>2, SessionTypes, TaskStep
  <2>4. CASE tasks[t].kind # "assets"
    <3>1. UNCHANGED wallet /\ shop' = At(StageAfter(tasks[t]))
      BY <1>3, <2>4 DEF ReadWrites
    <3>2. StageAfter(tasks[t]) \in ChoosingStages \cup {"none"}
      BY <1>1, <2>2, <2>4, StageAfterType
    <3>3. /\ shop' \in [stage : WizardStages, gen : 0 .. MaxTasks, back : ChoosingStages \cup {"none"}]
          /\ shop'.stage \notin LoadingStages \cup {"purchasing"}
      BY <3>1, <3>2, SessionTypes
    <3> HIDE DEF new
    <3> QED
      BY <2>1, <2>2, <2>4, <3>1, <3>3, SessionTypes, TaskStep
  <2> QED
    BY <2>3, <2>4
<1> QED
  BY <1>2, <1>3

\* A purchase that is over, whatever it leaves the wizard with.
LEMMA OverStep ==
  ASSUME SessionInv, NEW t \in 1 .. Len(tasks), Buys(t), InFlight(t), Over(t),
         shop' \in [stage : WizardStages, gen : 0 .. MaxTasks, back : ChoosingStages \cup {"none"}],
         shop' = shop \/ shop'.stage \notin LoadingStages, shop'.stage # "purchasing",
         offered' \in BOOLEAN,
         UNCHANGED <<active, left, wallet, phone, chat, budget, messages>>
  PROVE  SessionInv'
<1>1. tasks[t] \in TaskType /\ Past(t) \in TaskType /\ Past(t).pc = "done"
  BY Entries
<1>2. tasks[t].kind \notin Reads /\ tasks[t].pc \in {"work", "buying"}
  BY DEF Buys, InFlight, Reads
<1>3. CASE tasks[t].kind = "direct"
  <2>1. active # t
    BY <1>3 DEF SessionInv, Reserved
  <2>2. tasks' = [tasks EXCEPT ![t] = Past(t)]
    BY <1>3 DEF Over, End, Past
  <2> QED
    BY <1>1, <1>2, <2>1, <2>2, SessionTypes, TaskStep
<1>4. CASE tasks[t].kind # "direct"
  <2> DEFINE new == [tasks[t] EXCEPT !.pc = "finish"]
  <2>1. new \in TaskType /\ new.kind = tasks[t].kind /\ new.pc = "finish"
    BY <1>1, Rewritten
  <2>2. tasks' = [tasks EXCEPT ![t] = new]
    BY <1>4 DEF Over, Put
  <2> HIDE DEF new
  <2> QED
    BY <1>2, <2>1, <2>2, SessionTypes, TaskStep
<1> QED
  BY <1>3, <1>4

\* The stage a refusal brings back is one of choosing.
LEMMA RefusedShop ==
  ASSUME SessionInv, shop' = IF shop.stage = "purchasing" THEN At(shop.back) ELSE shop
  PROVE  /\ shop' \in [stage : WizardStages, gen : 0 .. MaxTasks, back : ChoosingStages \cup {"none"}]
         /\ shop' = shop \/ shop'.stage \notin LoadingStages
         /\ shop'.stage # "purchasing"
<1>1. shop.back \in ChoosingStages \cup {"none"}
  BY SessionTypes
<1> QED
  BY <1>1, SessionTypes

LEMMA PurchaseSteps ==
  ASSUME SessionInv, NEW t \in 1 .. Len(tasks),
         AskEmail(t) \/ CallGateway(t) \/ Bought(t) \/ Refused(t) \/ Breaks(t)
  PROVE  SessionInv'
<1>1. CASE AskEmail(t)
  <2>1. shop' = At("email") /\ "email" \in ChoosingStages \cup {"none"}
    BY <1>1 DEF AskEmail, ChoosingStages
  <2>2. /\ Buys(t) /\ InFlight(t) /\ Over(t)
        /\ UNCHANGED <<active, left, wallet, phone, chat, budget, offered, messages>>
    BY <1>1 DEF AskEmail, InFlight
  <2> QED
    BY <2>1, <2>2, SessionTypes, OverStep
<1>2. CASE CallGateway(t)
  <2> DEFINE new == [tasks[t] EXCEPT !.pc = "buying"]
  <2>1. new \in TaskType /\ new.kind = tasks[t].kind /\ new.pc = "buying"
    <3>1. tasks[t] \in TaskType
      BY Entries
    <3> QED
      BY <3>1, Rewritten
  <2>2. /\ tasks[t].kind \notin Reads /\ tasks[t].pc = "work" /\ tasks' = [tasks EXCEPT ![t] = new]
        /\ UNCHANGED <<active, left, shop, wallet, phone, chat, budget, offered, messages>>
    BY <1>2 DEF CallGateway, Put, Buys, Reads
  <2> HIDE DEF new
  <2> QED
    BY <2>1, <2>2, SessionTypes, TaskStep
<1>3. CASE Bought(t)
  <2>1. shop' = At("none") /\ "none" \in ChoosingStages \cup {"none"}
    BY <1>3 DEF Bought
  <2>2. /\ Buys(t) /\ InFlight(t) /\ Over(t)
        /\ UNCHANGED <<active, left, wallet, phone, chat, budget, offered, messages>>
    BY <1>3 DEF Bought, InFlight
  <2> QED
    BY <2>1, <2>2, SessionTypes, OverStep
<1>4. CASE Refused(t)
  <2>1. shop' = IF shop.stage = "purchasing" THEN At(shop.back) ELSE shop
    BY <1>4 DEF Refused
  <2>2. /\ Buys(t) /\ InFlight(t) /\ Over(t) /\ offered' \in BOOLEAN
        /\ UNCHANGED <<active, left, wallet, phone, chat, budget, messages>>
    BY <1>4 DEF Refused
  <2> QED
    BY <2>1, <2>2, RefusedShop, OverStep
<1>5. CASE Breaks(t)
  <2>1. /\ tasks[t].kind \notin Reads /\ tasks[t].pc \in {"work", "buying"}
        /\ UNCHANGED <<active, left, shop, wallet, phone, chat, budget, offered, messages>>
    BY <1>5 DEF Breaks, Buys, InFlight, Reads
  <2>2. CASE tasks[t].kind = "direct"
    <3>1. active # t
      BY <2>2 DEF SessionInv, Reserved
    <3>2. tasks' = [tasks EXCEPT ![t] = Past(t)]
      BY <1>5, <2>2 DEF Breaks, End, Past
    <3> QED
      BY <2>1, <2>2, <3>1, <3>2, Entries, SessionTypes, TaskStep
  <2>3. CASE tasks[t].kind # "direct"
    <3> DEFINE new == [tasks[t] EXCEPT !.outcome = "failed", !.pc = "finish"]
    <3>1. /\ new \in TaskType /\ new.kind = tasks[t].kind
          /\ new.pc = "finish" /\ new.outcome = "failed"
      <4>1. PICK task \in TaskType : task = tasks[t]
        BY Entries
      <4> QED
        BY <4>1 DEF TaskType
    <3>2. tasks' = [tasks EXCEPT ![t] = new]
      BY <1>5, <2>3 DEF Breaks
    <3> HIDE DEF new
    <3> QED
      BY <2>1, <2>3, <3>1, <3>2, SessionTypes, TaskStep
  <2> QED
    BY <2>2, <2>3
<1> QED
  BY <1>1, <1>2, <1>3, <1>4, <1>5

LEMMA PlainSteps ==
  ASSUME SessionInv, NEW t \in 1 .. Len(tasks),
         CommandReturns(t) \/ Finish(t) \/ Transferred(t)
  PROVE  SessionInv'
<1>1. /\ tasks[t] \in TaskType /\ Past(t) \in TaskType /\ Past(t).pc = "done"
      /\ tasks[t].kind = "purchase" => Past(t).outcome = tasks[t].outcome
  BY Entries
<1>2. CASE CommandReturns(t)
  <2> DEFINE new == [tasks[t] EXCEPT !.pc = "finish"]
  <2>1. new \in TaskType /\ new.kind = tasks[t].kind /\ new.pc = "finish"
    BY <1>1, Rewritten
  <2>2. /\ tasks[t].kind \notin Reads \cup {"purchase"} /\ tasks[t].pc = "work"
        /\ tasks' = [tasks EXCEPT ![t] = new]
        /\ UNCHANGED <<active, left, shop, wallet, budget, offered, messages>>
    BY <1>2 DEF CommandReturns, Put, Reads
  <2>3. phone' \in BOOLEAN /\ chat' \in BOOLEAN /\ offered' \in BOOLEAN
    BY <1>2, <2>2, SessionTypes DEF CommandReturns
  <2>4. /\ shop' = shop /\ wallet' = wallet /\ active' = active /\ left' = left
        /\ shop' \in [stage : WizardStages, gen : 0 .. MaxTasks, back : ChoosingStages \cup {"none"}]
        /\ wallet' \in [step : Steps, gen : 0 .. MaxTasks]
    BY <2>2, SessionTypes
  <2> HIDE DEF new
  <2> QED
    BY <2>1, <2>2, <2>3, <2>4, TaskStep
<1>3. CASE Finish(t)
  <2>1. /\ tasks[t].pc = "finish" /\ tasks' = [tasks EXCEPT ![t] = Past(t)]
        /\ active' = IF active = t THEN 0 ELSE active
        /\ UNCHANGED <<left, shop, wallet, phone, chat, budget, messages>>
    BY <1>3 DEF Finish, End, Past, Release, IsCurrent
  <2>2. offered' \in BOOLEAN
    BY <1>3 DEF Finish
  <2> QED
    BY <1>1, <2>1, <2>2, SessionTypes, TaskStep
<1>4. CASE Transferred(t)
  <2>1. /\ tasks[t].kind = "transfer" /\ tasks[t].pc = "work"
        /\ tasks' = [tasks EXCEPT ![t] = Past(t)]
        /\ UNCHANGED <<active, left, shop, wallet, phone, chat, budget, offered, messages>>
    BY <1>4 DEF Transferred, End, Past
  <2>2. active # t /\ tasks[t].kind \notin Reads
    BY <2>1 DEF SessionInv, Reserved, Reads
  <2> QED
    BY <1>1, <2>1, <2>2, SessionTypes, TaskStep
<1> QED
  BY <1>2, <1>3, <1>4

LEMMA ThreadsKeep ==
  ASSUME SessionInv, Threads
  PROVE  SessionInv'
<1>1. PICK t \in 1 .. MaxTasks : ThreadSteps(t)
  BY DEF Threads
<1>2. t \in 1 .. Len(tasks)
  BY <1>1 DEF ThreadSteps, SessionInv, SessionTypeOK
<1> QED
  BY <1>1, <1>2, ReadSteps, PurchaseSteps, PlainSteps DEF ThreadSteps

-----------------------------------------------------------------------------
\* The messages

ShopType == [stage : WizardStages, gen : 0 .. MaxTasks, back : ChoosingStages \cup {"none"}]
WalletType == [step : Steps, gen : 0 .. MaxTasks]

\* A message that starts no thread.
LEMMA QuietMessage ==
  ASSUME SessionInv, tasks' = tasks,
         \/ active' = active /\ left' = left
         \/ active' = 0 /\ left' = Superseded,
         shop' \in ShopType, shop' = shop \/ shop'.stage \notin LoadingStages \cup {"purchasing"},
         wallet' \in WalletType, wallet' = wallet \/ wallet'.step # "loading",
         phone' \in BOOLEAN, chat' \in BOOLEAN, budget' \in BOOLEAN, offered' \in BOOLEAN,
         messages' \in 0 .. MaxMessages
  PROVE  SessionInv'
<1>1. tasks' \in Seq(TaskType) /\ Len(tasks') = Len(tasks) /\ Len(tasks') <= MaxTasks
  BY DEF SessionInv, SessionTypeOK, TaskType, Reserved
<1> QED
  BY <1>1, HookStep DEF ShopType, WalletType

\* What starting a thread does to the list of threads.
LEMMA Spawned ==
  ASSUME SessionInv, NEW kind \in Kinds, NEW back \in ChoosingStages \cup {"none"},
         Spawn(kind, back)
  PROVE  /\ tasks' \in Seq(TaskType) /\ Len(tasks') = Len(tasks) + 1 /\ Len(tasks') <= MaxTasks
         /\ \A j \in 1 .. Len(tasks) : tasks'[j] = tasks[j]
         /\ tasks'[Len(tasks) + 1].pc = "work" /\ tasks'[Len(tasks) + 1].kind = kind
<1> DEFINE new == [kind |-> kind, back |-> back, outcome |-> "ok", pc |-> "work"]
<1>1. new \in TaskType /\ new.pc = "work" /\ new.kind = kind
  BY DEF TaskType
<1>2. tasks \in Seq(TaskType) /\ tasks' = Append(tasks, new) /\ Len(tasks) < MaxTasks
  BY DEF SessionInv, SessionTypeOK, TaskType, Spawn
<1> HIDE DEF new
<1> QED
  BY <1>1, <1>2, AppendProperties, BoundsAssumption

\* ... and so does an operation whose thread is not had.
LEMMA NotSpawned ==
  ASSUME SessionInv, NEW kind \in Kinds, InVain(kind)
  PROVE  /\ tasks' \in Seq(TaskType) /\ Len(tasks') = Len(tasks) + 1 /\ Len(tasks') <= MaxTasks
         /\ \A j \in 1 .. Len(tasks) : tasks'[j] = tasks[j]
         /\ tasks'[Len(tasks) + 1].pc = "never" /\ tasks'[Len(tasks) + 1].kind = kind
<1> DEFINE new == [kind |-> kind, back |-> "none", outcome |-> "ok", pc |-> "never"]
<1>1. new \in TaskType /\ new.pc = "never" /\ new.kind = kind
  BY DEF TaskType
<1>2. tasks \in Seq(TaskType) /\ tasks' = Append(tasks, new) /\ Len(tasks) < MaxTasks
  BY DEF SessionInv, SessionTypeOK, TaskType, InVain
<1> HIDE DEF new
<1> QED
  BY <1>1, <1>2, AppendProperties, BoundsAssumption

\* A message that starts a thread of its own, without a reservation.
LEMMA SpawningMessage ==
  ASSUME SessionInv, NEW kind \in {"direct", "transfer"}, Spawn(kind, "none"),
         active' = active, left' = left, shop' = shop,
         wallet' \in WalletType, wallet' = wallet \/ wallet'.step # "loading",
         phone' \in BOOLEAN, chat' \in BOOLEAN, budget' \in BOOLEAN, offered' \in BOOLEAN,
         messages' \in 0 .. MaxMessages
  PROVE  SessionInv'
<1>1. kind \in Kinds /\ kind # "purchase"
  BY DEF Kinds
<1>2. active' # Len(tasks) + 1 /\ shop' \in ShopType
  BY DEF SessionInv, SessionTypeOK, ShopType
<1> QED
  BY <1>1, <1>2, Spawned, HookStep DEF ShopType, WalletType

\* A message that reserves an operation.
LEMMA ReservingMessage ==
  ASSUME SessionInv, NEW kind \in Kinds \ {"direct", "transfer"},
         NEW back \in ChoosingStages \cup {"none"}, Start(kind, back),
         shop' \in ShopType,
         \/ shop' = shop
         \/ shop'.gen = Me /\ shop'.stage # "purchasing" /\ kind \in Reads \ {"assets"}
         \/ shop'.gen = Me /\ shop'.stage = "purchasing" /\ kind = "purchase" /\ Reserve(kind, back),
         wallet' \in WalletType,
         \/ wallet' = wallet
         \/ wallet'.gen = Me /\ kind = "assets",
         phone' \in BOOLEAN, chat' \in BOOLEAN, budget' \in BOOLEAN, offered' \in BOOLEAN,
         messages' \in 0 .. MaxMessages
  PROVE  SessionInv'
<1>1. CASE Reserve(kind, back)
  <2>1. Spawn(kind, back) /\ active' = Len(tasks) + 1 /\ left' = Superseded
    BY <1>1 DEF Reserve, Reservable, Me
  <2>2. /\ tasks' \in Seq(TaskType) /\ Len(tasks') = Len(tasks) + 1 /\ Len(tasks') <= MaxTasks
        /\ \A j \in 1 .. Len(tasks) : tasks'[j] = tasks[j]
        /\ tasks'[Len(tasks) + 1].pc = "work" /\ tasks'[Len(tasks) + 1].kind = kind
    BY <2>1, Spawned
  <2> QED
    BY <2>1, <2>2, HookStep DEF ShopType, WalletType, Me
<1>2. CASE InVain(kind) /\ ~Reserve(kind, back)
  <2>1. active' \in {0, Len(tasks) + 1} /\ left' = Superseded
    BY <1>2 DEF InVain, Reservable, Me
  <2>2. /\ tasks' \in Seq(TaskType) /\ Len(tasks') = Len(tasks) + 1 /\ Len(tasks') <= MaxTasks
        /\ \A j \in 1 .. Len(tasks) : tasks'[j] = tasks[j]
        /\ tasks'[Len(tasks) + 1].pc = "never" /\ tasks'[Len(tasks) + 1].kind = kind
    BY <1>2, NotSpawned
  <2> QED
    BY <1>2, <2>1, <2>2, HookStep DEF ShopType, WalletType, Me
<1> QED
  BY <1>1, <1>2 DEF Start

\* The number of the thread a message starts fits into the bound.
LEMMA MeFits ==
  ASSUME SessionInv, NEW kind, NEW back, Start(kind, back)
  PROVE  Me \in 0 .. MaxTasks
BY BoundsAssumption DEF Start, InVain, Reserve, Spawn, Me, SessionInv, SessionTypeOK

\* The types a message relies on; the thread it starts fits into the bound.
LEMMA MessageTypes ==
  ASSUME SessionInv, messages < MaxMessages, messages' = messages + 1
  PROVE  /\ shop \in ShopType /\ wallet \in WalletType /\ messages' \in 0 .. MaxMessages
         /\ phone \in BOOLEAN /\ chat \in BOOLEAN /\ budget \in BOOLEAN /\ offered \in BOOLEAN
         /\ \A stage \in ChoosingStages \cup {"none"} :
              At(stage) \in ShopType /\ At(stage).stage \notin LoadingStages \cup {"purchasing"}
         /\ \A step \in Steps : Step(step) \in WalletType /\ Step(step).step = step
<1>1. messages' \in 0 .. MaxMessages
  BY BoundsAssumption DEF SessionInv, SessionTypeOK
<1>2. budget \in BOOLEAN
  BY DEF SessionInv, SessionTypeOK
<1> QED
  BY <1>1, <1>2, SessionTypes DEF ShopType, WalletType

LEMMA ReadMessage ==
  ASSUME SessionInv, messages < MaxMessages, messages' = messages + 1,
         NEW kind \in Reads \ {"assets"}, StartRead(kind),
         kind \in {"product", "tokens"} => shop.stage \in ChoosingStages
  PROVE  SessionInv'
<1> DEFINE back == IF kind \in {"product", "tokens"} THEN shop.stage ELSE "none"
<1>1. kind \in Kinds \ {"direct", "transfer"} /\ back \in ChoosingStages \cup {"none"}
  BY DEF Kinds, Reads
<1>2. /\ Start(kind, back) /\ shop' = [stage |-> LoadingStage[kind], gen |-> Me, back |-> back]
      /\ UNCHANGED <<wallet, phone, chat, budget>>
  BY DEF StartRead
<1>3. offered' \in BOOLEAN
  BY DEF StartRead
<1> HIDE DEF back
<1>4. LoadingStage[kind] \in LoadingStages /\ LoadingStage[kind] # "purchasing"
  BY DEF LoadingStage, LoadingStages, Reads
<1>5. Me \in 0 .. MaxTasks
  BY <1>2, MeFits
<1>6. shop' \in ShopType /\ shop'.gen = Me /\ shop'.stage # "purchasing"
  BY <1>1, <1>2, <1>4, <1>5 DEF ShopType, WizardStages
<1> QED
  BY <1>1, <1>2, <1>3, <1>6, MessageTypes, ReservingMessage

LEMMA PurchaseMessage ==
  ASSUME SessionInv, messages < MaxMessages, messages' = messages + 1, StartPurchase,
         shop.stage \in ChoosingStages
  PROVE  SessionInv'
<1>1. "purchase" \in Kinds \ {"direct", "transfer"} /\ "none" \in ChoosingStages \cup {"none"}
  BY DEF Kinds
<1>2. Start("purchase", "none") /\ UNCHANGED <<wallet, phone, chat, budget, offered>>
  BY DEF StartPurchase, Start
<1>3. CASE UNCHANGED shop
  BY <1>1, <1>2, <1>3, MessageTypes, ReservingMessage
<1>4. CASE /\ Reserve("purchase", "none")
           /\ shop' = [stage |-> "purchasing", gen |-> Me, back |-> shop.stage]
  <2>1. Me \in 0 .. MaxTasks
    BY <1>2, MeFits
  <2>2. shop' \in ShopType /\ shop'.gen = Me /\ shop'.stage = "purchasing"
    BY <1>4, <2>1 DEF ShopType, WizardStages
  <2> QED
    BY <1>1, <1>2, <1>4, <2>2, MessageTypes, ReservingMessage
<1> QED
  BY <1>3, <1>4 DEF StartPurchase

\* Where Back leads is never a stage that waits.
LEMMA StageBeforeType ==
  ASSUME SessionInv
  PROVE  StageBefore \in ChoosingStages \cup {"none"}
<1>1. shop.back \in ChoosingStages \cup {"none"}
  BY SessionTypes
<1> QED
  BY <1>1 DEF StageBefore, ChoosingStages

\* The messages that start no thread.
Quiet ==
    \/ BudgetBack \/ LeaveChat \/ EnterChat \/ Help \/ OpenBitrefillMenu
    \/ PhoneAnswered \/ WithdrawBack \/ WithdrawOvertaken
    \/ ShopBack \/ ShopNavigates \/ CountryGiven \/ MainMenu

LEMMA QuietMessages ==
  ASSUME SessionInv, messages < MaxMessages, messages' = messages + 1, Quiet
  PROVE  SessionInv'
<1>1. tasks' = tasks
  BY DEF Quiet, NoThread, BudgetBack, LeaveChat, EnterChat, Help, OpenBitrefillMenu,
         PhoneAnswered, WithdrawBack, WithdrawOvertaken, ShopBack, ShopNavigates,
         CountryGiven, MainMenu
<1>2. \/ active' = active /\ left' = left
      \/ active' = 0 /\ left' = Superseded
  BY DEF Quiet, NoThread, Invalidate, BudgetBack, LeaveChat, EnterChat, Help,
         OpenBitrefillMenu, PhoneAnswered, WithdrawBack, WithdrawOvertaken, ShopBack,
         ShopNavigates, CountryGiven, MainMenu
<1>3. shop' = shop \/ \E stage \in ChoosingStages \cup {"none"} : shop' = At(stage)
  <2>1. {"menu", "country", "category", "search"} \subseteq ChoosingStages
    BY DEF ChoosingStages
  <2> QED
    BY <2>1, StageBeforeType
       DEF Quiet, NoThread, BudgetBack, LeaveChat, EnterChat, Help, OpenBitrefillMenu,
           PhoneAnswered, WithdrawBack, WithdrawOvertaken, ShopBack, ShopNavigates,
           CountryGiven, MainMenu
<1>4. wallet' = wallet \/ wallet' = Step("none")
  BY DEF Quiet, NoThread, BudgetBack, LeaveChat, EnterChat, Help, OpenBitrefillMenu,
         PhoneAnswered, WithdrawBack, WithdrawOvertaken, ShopBack, ShopNavigates,
         CountryGiven, MainMenu
<1>5. /\ phone' \in {phone, FALSE} /\ chat' \in {chat, TRUE, FALSE}
      /\ budget' \in {budget, TRUE, FALSE} /\ offered' = offered
  BY DEF Quiet, NoThread, BudgetBack, LeaveChat, EnterChat, Help, OpenBitrefillMenu,
         PhoneAnswered, WithdrawBack, WithdrawOvertaken, ShopBack, ShopNavigates,
         CountryGiven, MainMenu
<1>6. shop' \in ShopType /\ (shop' = shop \/ shop'.stage \notin LoadingStages \cup {"purchasing"})
  BY <1>3, MessageTypes
<1>7. wallet' \in WalletType /\ (wallet' = wallet \/ wallet'.step # "loading")
  BY <1>4, MessageTypes DEF Steps
<1>8. phone' \in BOOLEAN /\ chat' \in BOOLEAN /\ budget' \in BOOLEAN /\ offered' \in BOOLEAN
  BY <1>5, MessageTypes
<1> QED
  BY <1>1, <1>2, <1>6, <1>7, <1>8, MessageTypes, QuietMessage

LEMMA StartingMessages ==
  ASSUME SessionInv, messages < MaxMessages, messages' = messages + 1,
         BudgetChosen \/ Command \/ OpenWithdrawFlow \/ BuyDirectly \/ WithdrawAnswered
  PROVE  SessionInv'
<1> DEFINE none == "none"
<1>1. none \in ChoosingStages \cup {"none"}
  OBVIOUS
<1>2. CASE BudgetChosen
  <2>1. budget' \in BOOLEAN /\ UNCHANGED <<shop, wallet, phone, chat, offered>>
    BY <1>2 DEF BudgetChosen
  <2>2. CASE Start("policy", "none")
    <3>1. "policy" \in Kinds \ {"direct", "transfer"}
      BY DEF Kinds
    <3> QED
      BY <1>1, <2>1, <2>2, <3>1, MessageTypes, ReservingMessage
  <2>3. CASE NoThread
    BY <2>1, <2>3, MessageTypes, QuietMessage DEF NoThread
  <2> QED
    BY <1>2, <2>2, <2>3 DEF BudgetChosen
<1>3. CASE Command
  <2>1. PICK kind \in {"command", "connect"} : Start(kind, "none")
    BY <1>3 DEF Command
  <2>2. kind \in Kinds \ {"direct", "transfer"}
    BY DEF Kinds
  <2>3. UNCHANGED <<shop, wallet, phone, chat, budget, offered>>
    BY <1>3 DEF Command
  <2> QED
    BY <1>1, <2>1, <2>2, <2>3, MessageTypes, ReservingMessage
<1>4. CASE OpenWithdrawFlow
  <2>1. /\ Start("assets", "none") /\ wallet' = [step |-> "loading", gen |-> Me]
        /\ UNCHANGED <<shop, phone, chat, budget, offered>>
    BY <1>4 DEF OpenWithdrawFlow
  <2>2. "assets" \in Kinds \ {"direct", "transfer"}
    BY DEF Kinds, Reads
  <2>3. Me \in 0 .. MaxTasks
    BY <2>1, MeFits
  <2>4. wallet' \in WalletType /\ wallet'.gen = Me
    BY <2>1, <2>3 DEF WalletType, Steps
  <2> QED
    BY <1>1, <2>1, <2>2, <2>4, MessageTypes, ReservingMessage
<1>5. CASE BuyDirectly
  <2>1. Spawn("direct", "none") /\ UNCHANGED <<active, left, shop, wallet, phone, chat, budget, offered>>
    BY <1>5 DEF BuyDirectly
  <2> QED
    BY <2>1, MessageTypes, SpawningMessage
<1>6. CASE WithdrawAnswered
  <2>1. UNCHANGED <<active, left, shop, phone, chat, budget, offered>>
    BY <1>6 DEF WithdrawAnswered
  <2>2. \E step \in {"amount", "address", "none"} : wallet' = Step(step)
    BY <1>6 DEF WithdrawAnswered
  <2>3. wallet' \in WalletType /\ wallet'.step # "loading"
    BY <2>2, MessageTypes DEF Steps
  <2>4. CASE tasks' = tasks
    BY <2>1, <2>3, <2>4, MessageTypes, QuietMessage
  <2>5. CASE Spawn("transfer", "none")
    BY <2>1, <2>3, <2>5, MessageTypes, SpawningMessage
  <2> QED
    BY <1>6, <2>4, <2>5 DEF WithdrawAnswered
<1> QED
  BY <1>2, <1>3, <1>4, <1>5, <1>6

LEMMA ShoppingMessages ==
  ASSUME SessionInv, messages < MaxMessages, messages' = messages + 1,
         \/ SearchGiven \/ CatalogAsked \/ ProductChosen \/ PackageChosen \/ RecipientGiven
         \/ TokenChosen \/ EmailGiven
  PROVE  SessionInv'
<1>1. CASE SearchGiven
  BY <1>1, ReadMessage DEF SearchGiven, Reads
<1>2. CASE CatalogAsked
  BY <1>2, ReadMessage DEF CatalogAsked, Reads
<1>3. CASE ProductChosen
  BY <1>3, ReadMessage DEF ProductChosen, Reads, ChoosingStages
<1>4. CASE PackageChosen
  <2>1. CASE StartRead("tokens")
    BY <1>4, <2>1, ReadMessage DEF PackageChosen, Reads, ChoosingStages
  <2>2. CASE shop' = At("recipient") /\ NoThread /\ UNCHANGED <<wallet, phone, chat, budget, offered>>
    <3>1. "recipient" \in ChoosingStages
      BY DEF ChoosingStages
    <3> QED
      BY <2>2, <3>1, MessageTypes, QuietMessage DEF NoThread
  <2> QED
    BY <1>4, <2>1, <2>2 DEF PackageChosen
<1>5. CASE RecipientGiven
  BY <1>5, ReadMessage DEF RecipientGiven, Reads, ChoosingStages
<1>6. CASE TokenChosen
  BY <1>6, PurchaseMessage DEF TokenChosen, ChoosingStages
<1>7. CASE EmailGiven
  BY <1>7, PurchaseMessage DEF EmailGiven, ChoosingStages
<1> QED
  BY <1>1, <1>2, <1>3, <1>4, <1>5, <1>6, <1>7

LEMMA MessagesKeep ==
  ASSUME SessionInv, Message
  PROVE  SessionInv'
<1>1. messages < MaxMessages /\ messages' = messages + 1
  BY DEF Message
<1> QED
  BY <1>1, QuietMessages, StartingMessages, ShoppingMessages DEF Message, Quiet

-----------------------------------------------------------------------------

\* The invariant of the wizards, in every reachable state.
THEOREM SessionInvariance == SessionSpec => []SessionInv
<1>1. SessionInv /\ [SessionNext]_sessionVars => SessionInv'
  <2> SUFFICES ASSUME SessionInv, [SessionNext]_sessionVars
               PROVE  SessionInv'
    OBVIOUS
  <2>1. CASE Message
    BY <2>1, MessagesKeep
  <2>2. CASE Threads
    BY <2>2, ThreadsKeep
  <2>3. CASE UNCHANGED sessionVars
    BY <2>3 DEF sessionVars, SessionInv, SessionTypeOK, LoadingAwaited, Awaits,
                PurchaseShown, Purchasing, PurchaseWanted, Reserved
  <2> QED
    BY <2>1, <2>2, <2>3 DEF SessionNext
<1> QED
  BY <1>1, SessionInitially, PTL DEF SessionSpec

\* Every variable of the wizards keeps its type, and the reserved operation
\* always has a thread that is not over and that nobody turned away from.
THEOREM SessionTypeCorrect == SessionSpec => []SessionTypeOK
<1>1. SessionInv => SessionTypeOK
  BY DEF SessionInv
<1> QED
  BY <1>1, SessionInvariance, PTL

\* A wizard that shows "loading" or "purchasing" waits for a thread that will
\* still replace that stage, unless the user himself turned away from it, its
\* thread was never had, or its purchase broke off.
THEOREM LoadingIsServed == SessionSpec => []LoadingHasWorker
<1>1. SessionInv => LoadingHasWorker
  BY DEF SessionInv, LoadingAwaited, Awaits, PurchaseShown, Purchasing, LoadingHasWorker
<1> QED
  BY <1>1, SessionInvariance, PTL

\* Two wizard purchases are under way together only if the user turned away
\* from one of them, however his messages and the threads interleave.
THEOREM OnePurchaseWanted == SessionSpec => []DoubleTapBuysOnce
<1>1. SessionInv => DoubleTapBuysOnce
  <2> SUFFICES ASSUME SessionInv PROVE DoubleTapBuysOnce
    OBVIOUS
  <2>1. DOMAIN tasks = 1 .. Len(tasks)
    BY LenProperties DEF SessionInv, SessionTypeOK
  <2> QED
    BY <2>1 DEF SessionInv, PurchaseWanted, DoubleTapBuysOnce, InFlight
<1> QED
  BY <1>1, SessionInvariance, PTL
==============================================================================
