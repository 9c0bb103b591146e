---------------------------- MODULE ApprovalService ----------------------------
(***************************************************************************)
(* Asking a person over iMessage or WhatsApp                               *)
(* (sign402_gateway/imessage_approvals.py, on the links of ChannelLinks):  *)
(* a request inserts a pending approval, sends a message and polls for the *)
(* decision; the sidecar (hermes-plugins/sign402-wallet) turns the         *)
(* person's replies into record_decision calls.  Messages and replies may  *)
(* be late or lost; a reply may come after the approval it is about.       *)
(***************************************************************************)
EXTENDS ChannelLinks, FiniteSets

CONSTANTS
  Approvals,    \* approvals requested, each with an id of its own
  OwnerOf,      \* the user asked
  Tests,        \* those of create_test_approval, which does not wait
  TestTTL, ApprovalTTL,
  EchoId,       \* the iMessage sidecar sends the id it read from "pending"
  RequireId,    \* SIGN402_REQUIRE_IMESSAGE_APPROVAL_ID
  MaxCalls,     \* bound on decision calls on their way at once
  MaxCrashes    \* bound on restarts

ASSUME ApprovalAssumption ==
  /\ OwnerOf \in [Approvals -> Users]
  /\ Tests \subseteq Approvals
  /\ Nothing \notin Approvals
  /\ {TestTTL, ApprovalTTL} \subseteq Nat \ {0} 
  /\ MaxCalls \in Nat /\ MaxCrashes \in Nat
  /\ EchoId \in BOOLEAN /\ RequireId \in BOOLEAN

VARIABLES
  status,       \* imessage_approvals.status
  expiresAt,
  waiter,       \* where the requesting thread is
  answer,       \* what it returned
  addressee,    \* the link it read, to which it sends
  shown,        \* messages a person has received
  decisions,    \* decision calls on their way from the sidecar
  decidedBy,    \* the call that decided each approval
  crashes

waitVars == <<waiter, answer, addressee>>
approvalVars == <<status, expiresAt, waitVars, shown, decisions, decidedBy, crashes>>
vars == <<now, linkVars, approvalVars>>

Decision == [about : Approvals, sender : Senders, channel : Channels,
             id : Approvals \cup {Nothing}, yes : BOOLEAN]
ASSUME DecisionAssumption == Nothing \notin Decision

Init ==
  /\ LinksInit
  /\ status = [a \in Approvals |-> "none"]
  /\ expiresAt = [a \in Approvals |-> 0]
  /\ waiter = [a \in Approvals |-> "none"]
  /\ answer = [a \in Approvals |-> "none"]
  /\ addressee = [a \in Approvals |-> Nothing]
  /\ shown = {} /\ decisions = {}
  /\ decidedBy = [a \in Approvals |-> Nothing]
  /\ crashes = 0

\* _expire_approvals, which begins every method
Lapsed(a) == status[a] = "pending" /\ expiresAt[a] <= now
Swept == [a \in Approvals |-> IF Lapsed(a) THEN "expired" ELSE status[a]]
Open(u) == {a \in Approvals : OwnerOf[a] = u /\ Swept[a] = "pending"}

Goto(a, w) == waiter' = [waiter EXCEPT ![a] = w] /\ UNCHANGED <<answer, addressee>>
Return(a, r) ==
  /\ waiter' = [waiter EXCEPT ![a] = "returned"]
  /\ answer' = [answer EXCEPT ![a] = r]
  /\ UNCHANGED addressee

\* request_purchase_approval, request_hash_approval, create_test_approval: a
\* link on the active channel and no open approval, or nothing happens
Reachable(u) == {l \in LinksOf(u) : l.channel = ActiveChannel(u)}
RequestRefused(a) ==
  /\ waiter[a] = "none"
  /\ Reachable(OwnerOf[a]) = {} \/ Open(OwnerOf[a]) # {}
  /\ status' = Swept
  /\ UNCHANGED <<now, linkVars, expiresAt, waitVars, shown, decisions, decidedBy, crashes>>
Request_BesideAnother(a) ==   \* a mutant: an open approval is not looked for
  /\ waiter[a] = "none"
  /\ \E l \in Reachable(OwnerOf[a]) : addressee' = [addressee EXCEPT ![a] = l]
  /\ status' = [Swept EXCEPT ![a] = "pending"]
  /\ expiresAt' = [expiresAt EXCEPT ![a] = now + IF a \in Tests THEN TestTTL ELSE ApprovalTTL]
  /\ waiter' = [waiter EXCEPT ![a] = "sending"]
  /\ UNCHANGED <<now, linkVars, answer, shown, decisions, decidedBy, crashes>>
Request(a) ==
  /\ waiter[a] = "none"
  /\ Open(OwnerOf[a]) = {}
  /\ \E l \in Reachable(OwnerOf[a]) : addressee' = [addressee EXCEPT ![a] = l]
  /\ status' = [Swept EXCEPT ![a] = "pending"]
  /\ expiresAt' = [expiresAt EXCEPT ![a] = now + IF a \in Tests THEN TestTTL ELSE ApprovalTTL]
  /\ waiter' = [waiter EXCEPT ![a] = "sending"]
  /\ UNCHANGED <<now, linkVars, answer, shown, decisions, decidedBy, crashes>>

\* The message reaches the person, at any time, or never (external).
Arrive(a) ==
  /\ addressee[a] # Nothing
  /\ shown' = shown \cup
       {[about |-> a, sender |-> addressee[a].sender, channel |-> addressee[a].channel]}
  /\ UNCHANGED <<now, linkVars, status, expiresAt, waitVars, decisions, decidedBy, crashes>>

\* _send_approval_to_channels: the notifier's word, right or wrong
SendOk(a) ==
  /\ waiter[a] = "sending"
  /\ IF a \in Tests THEN Return(a, "pending") ELSE Goto(a, "waiting")
  /\ UNCHANGED <<now, linkVars, status, expiresAt, shown, decisions, decidedBy, crashes>>
SendFails(a) ==
  /\ waiter[a] = "sending"
  /\ Goto(a, "undelivered")
  /\ UNCHANGED <<now, linkVars, status, expiresAt, shown, decisions, decidedBy, crashes>>
\* The notifier raises (a helper that cannot be started, a response cut off):
\* the exception is the caller's answer, and the row stays pending.
SendRaises(a) ==
  /\ waiter[a] = "sending"
  /\ Return(a, "raised")
  /\ UNCHANGED <<now, linkVars, status, expiresAt, shown, decisions, decidedBy, crashes>>
MarkUndelivered_Always(a) ==   \* a mutant: a decision is overwritten
  /\ waiter[a] = "undelivered"
  /\ status' = [status EXCEPT ![a] = "delivery_failed"]
  /\ Return(a, "delivery_failed")
  /\ UNCHANGED <<now, linkVars, expiresAt, shown, decisions, decidedBy, crashes>>
MarkUndelivered(a) ==
  /\ waiter[a] = "undelivered"
  /\ status' = IF status[a] = "pending" THEN [status EXCEPT ![a] = "delivery_failed"] ELSE status
  /\ Return(a, "delivery_failed")
  /\ UNCHANGED <<now, linkVars, expiresAt, shown, decisions, decidedBy, crashes>>

\* _wait_for_approval_decision: a poll that finds a decision (one that
\* does not only sweeps, as every other method), and the deadline
Poll_AnyDecision(a) ==   \* a mutant: decided taken for approved
  /\ waiter[a] = "waiting"
  /\ status' = Swept
  /\ Swept[a] # "pending"
  /\ Return(a, IF Swept[a] = "expired" THEN "expired" ELSE "approved")
  /\ UNCHANGED <<now, linkVars, expiresAt, shown, decisions, decidedBy, crashes>>
Poll(a) ==
  /\ waiter[a] = "waiting"
  /\ status' = Swept
  /\ Swept[a] # "pending" /\ Return(a, Swept[a])
  /\ UNCHANGED <<now, linkVars, expiresAt, shown, decisions, decidedBy, crashes>>
Deadline(a) ==
  /\ waiter[a] = "waiting"
  /\ Goto(a, "leaving")
  /\ UNCHANGED <<now, linkVars, status, expiresAt, shown, decisions, decidedBy, crashes>>

\* Mutants: the row is left pending; it gets a state of its own.
ReleasePending_LeavesRow(a) ==
  /\ waiter[a] = "leaving"
  /\ Return(a, "timeout")
  /\ UNCHANGED <<now, linkVars, status, expiresAt, shown, decisions, decidedBy, crashes>>
ReleasePending_NewState(a) ==
  /\ waiter[a] = "leaving"
  /\ status' = IF status[a] = "pending" THEN [status EXCEPT ![a] = "timeout"] ELSE status
  /\ Return(a, "timeout")
  /\ UNCHANGED <<now, linkVars, expiresAt, shown, decisions, decidedBy, crashes>>

\* _release_pending_approval
ReleasePending(a) ==
  /\ waiter[a] = "leaving"
  /\ status' = IF status[a] = "pending" THEN [status EXCEPT ![a] = "expired"] ELSE status
  /\ Return(a, "timeout")
  /\ UNCHANGED <<now, linkVars, expiresAt, shown, decisions, decidedBy, crashes>>

\* The user a sender speaks for, when the channel is the active one
SpeaksFor(s, c) ==
  {l.user : l \in {m \in links : m.sender = s /\ m.channel = c /\ ActiveChannel(m.user) = c}}

Call(d) ==
  /\ Cardinality(decisions) < MaxCalls
  /\ decisions' = decisions \cup {d}

\* _handle_photon_decision: pending_for_photon_sender, then a decision call,
\* without the id in the plugin of this repository
ReplyYesNo(m, yes) ==
  /\ m.channel = "imessage"
  /\ \E a \in UNION {Open(u) : u \in SpeaksFor(m.sender, m.channel)} :
       Call([about |-> m.about, sender |-> m.sender, channel |-> m.channel,
             id |-> IF EchoId THEN a ELSE Nothing, yes |-> yes])
  /\ status' = Swept
  /\ UNCHANGED <<now, linkVars, expiresAt, waitVars, shown, decidedBy, crashes>>

\* _whatsapp_button_decision: the button carries the id of its approval
PressButton(m, yes) ==
  /\ m.channel = "whatsapp"
  /\ Call([about |-> m.about, sender |-> m.sender, channel |-> m.channel,
           id |-> m.about, yes |-> yes])
  /\ UNCHANGED <<now, linkVars, status, expiresAt, waitVars, shown, decidedBy, crashes>>

\* A mutant: the id is not compared.
Named_AnyOpen(d) == UNION {Open(u) : u \in SpeaksFor(d.sender, d.channel)}

\* record_decision: the approval it names, or the oldest one open, which is
\* the only one (OnePendingPerUser)
Named(d) ==
  {a \in UNION {Open(u) : u \in SpeaksFor(d.sender, d.channel)} :
     d.id = a \/ (d.id = Nothing /\ d.channel = "imessage" /\ ~RequireId)}
RecordDecision(d) ==
  /\ \E a \in Named(d) :
       /\ status' = [Swept EXCEPT ![a] = IF d.yes THEN "approved" ELSE "denied"]
       /\ decidedBy' = [decidedBy EXCEPT ![a] = d]
  /\ decisions' = decisions \ {d}
  /\ UNCHANGED <<now, linkVars, expiresAt, waitVars, shown, crashes>>
NoPending(d) ==
  /\ Named(d) = {}
  /\ status' = IF d.id = Nothing /\ RequireId THEN status ELSE Swept
  /\ decisions' = decisions \ {d}
  /\ UNCHANGED <<now, linkVars, expiresAt, waitVars, shown, decidedBy, crashes>>

\* The gateway stops and starts: threads and calls are gone, rows stay.
Crash ==
  /\ crashes < MaxCrashes
  /\ crashes' = crashes + 1
  /\ waiter' = [a \in Approvals |->
       IF waiter[a] \in {"none", "returned"} THEN waiter[a] ELSE "gone"]
  /\ decisions' = {}
  /\ OpenStore
  /\ UNCHANGED <<status, expiresAt, answer, addressee, shown, decidedBy>>

Thread(a) ==
  \/ SendOk(a) \/ SendFails(a) \/ SendRaises(a) \/ MarkUndelivered(a)
  \/ Poll(a) \/ Deadline(a) \/ ReleasePending(a)

Next ==
  \/ \E a \in Approvals : Request(a) \/ RequestRefused(a) \/ Arrive(a) \/ Thread(a)
  \/ \E m \in shown, yes \in BOOLEAN : ReplyYesNo(m, yes) \/ PressButton(m, yes)
  \/ \E d \in decisions : RecordDecision(d) \/ NoPending(d)
  \/ Crash
  \/ (LinksChange \/ Tick) /\ UNCHANGED approvalVars

Spec == Init /\ [][Next]_vars
-----------------------------------------------------------------------------
TypeOK ==
  /\ LinksTypeOK
  /\ status \in [Approvals -> {"none", "pending", "approved", "denied", "expired",
                               "delivery_failed"}]
  /\ expiresAt \in [Approvals -> Nat]
  /\ waiter \in [Approvals -> {"none", "sending", "undelivered", "waiting", "leaving",
                               "returned", "gone"}]
  /\ answer \in [Approvals -> {"none", "pending", "approved", "denied", "expired",
                               "delivery_failed", "timeout", "raised"}]
  /\ addressee \in [Approvals -> Link \cup {Nothing}]
  /\ shown \subseteq [about : Approvals, sender : Senders, channel : Channels]
  /\ decisions \subseteq Decision
  /\ decidedBy \in [Approvals -> Decision \cup {Nothing}]
  /\ crashes \in Nat

\* "A second approval cannot be created while one is pending": with at most one
\* open approval, a reply without an id has one reading.
OnePendingPerUser ==
  \A a, b \in Approvals :
    /\ OwnerOf[a] = OwnerOf[b]
    /\ Swept[a] = "pending" /\ Swept[b] = "pending"
    => a = b

\* A caller that was answered leaves nothing a person could still approve:
\* "nobody is waiting for this answer any more" (_wait_for_approval_decision).
\* An exception of the notifier is no answer: see NobodyAsksInVain.
AnsweredIsClosed ==
  \A a \in Approvals \ Tests :
    waiter[a] = "returned" /\ answer[a] # "raised" => Swept[a] # "pending"

\* The same for every caller that left; a notifier that raises breaks it, and
\* until the row lapses it refuses the user's next request.
NobodyAsksInVain ==
  \A a \in Approvals \ Tests : waiter[a] = "returned" => Swept[a] # "pending"

\* The caller acts on "approved" only if a reply said YES, sent from a phone
\* that received the message it is about.
ApprovedByAReply ==
  \A a \in Approvals : answer[a] = "approved" =>
    LET d == decidedBy[a] IN
    /\ d # Nothing /\ d.yes
    /\ [about |-> d.about, sender |-> d.sender, channel |-> d.channel] \in shown

\* A WhatsApp button decides the approval it was shown with and no other,
\* however late it is pressed and whatever was linked or asked since.
ButtonDecidesItsOwn ==
  \A a \in Approvals :
    decidedBy[a] # Nothing /\ decidedBy[a].channel = "whatsapp" => decidedBy[a].about = a

\* The first decision or expiry of an approval is its last.
DecisionIsFinal ==
  [][\A a \in Approvals : status[a] \notin {"none", "pending"} => status'[a] = status[a]]_vars

\* A reply that decides another approval of the user than the one it answers
\* came late: its own was over, "if the first expired and a new one was raised
\* in the meantime" (record_decision).  No overlap of requests, failing
\* deliveries and restarts lets a reply in time decide another one.
StrayReplyIsLate ==
  \A a \in Approvals :
    LET d == decidedBy[a] IN
    d # Nothing /\ d.about # a /\ OwnerOf[d.about] = OwnerOf[a]
      => status[d.about] \notin {"none", "pending"}

\* The service implements what it promises its callers.
Question(a) ==
  CASE status[a] = "none" -> "none"
    [] status[a] = "pending" /\ ~Lapsed(a) -> "open"
    [] status[a] = "approved" -> "yes"
    [] status[a] = "denied" -> "no"
    [] OTHER -> "void"
Heard(a) ==
  CASE answer[a] = "approved" -> "yes"
    [] answer[a] \in {"none", "pending"} -> "nothing"
    [] answer[a] = "raised" -> "failed"
    [] OTHER -> "no"
Consent == INSTANCE HumanConsent WITH
  question <- [a \in Approvals |-> Question(a)],
  heard <- [a \in Approvals |-> Heard(a)]
ImplementsConsent == Consent!Spec

\* What SECURITY.md says of a decision that names an approval: a stale reply
\* decides no other approval than the one it answers.
ReplyDecidesItsOwn ==
  \A a \in Approvals : decidedBy[a] # Nothing => decidedBy[a].about = a
=============================================================================
