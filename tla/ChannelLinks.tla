----------------------------- MODULE ChannelLinks -----------------------------
(***************************************************************************)
(* Which phone may approve for which user                                  *)
(* (sign402_gateway/imessage_approvals.py): pairing codes, the links they  *)
(* make, the channel each user prefers, and imessage_links, the table of   *)
(* an earlier version, which is still written and is copied back whenever  *)
(* the store is opened.  Every method holds the store's lock over one      *)
(* SQLite transaction, so every method is one action.                      *)
(***************************************************************************)
EXTENDS Integers

CONSTANTS
  Users,
  Senders,      \* phone numbers
  Codes,        \* pairing codes, each drawn once
  Nothing,      \* a row that is not there
  PairingTTL,
  MaxTime       \* bound on the clock

ASSUME LinksAssumption ==
  /\ Nothing \notin Users
  /\ PairingTTL \in Nat \ {0} /\ MaxTime \in Nat

VARIABLES
  now,
  pairings,     \* imessage_pairings, by code
  links,        \* approval_channel_links: [user, channel, sender]
  legacy,       \* imessage_links: [user, sender]
  preferred     \* approval_channel_preferences

linkVars == <<pairings, links, legacy, preferred>>

Channels == {"imessage", "whatsapp"}
Link == [user : Users, channel : Channels, sender : Senders]
NoPairing == [user |-> Nothing, channel |-> "imessage", state |-> "unused", expiresAt |-> 0]

LinksInit ==
  /\ now = 0
  /\ pairings = [k \in Codes |-> NoPairing]
  /\ links = {} /\ legacy = {}
  /\ preferred = [u \in Users |-> Nothing]

LinksOf(u) == {l \in links : l.user = u}

\* _active_channel_from_db: the preference, linked or not, else a link,
\* iMessage first
ActiveChannel(u) ==
  LET linked == {l.channel : l \in LinksOf(u)} IN
  CASE preferred[u] # Nothing -> preferred[u]
    [] preferred[u] = Nothing /\ "imessage" \in linked -> "imessage"
    [] preferred[u] = Nothing /\ linked = {"whatsapp"} -> "whatsapp"
    [] OTHER -> Nothing

\* A mutant: the older code stays good.
CreatePairing_KeepsOlder(u, c, k) ==
  /\ pairings[k].state = "unused"
  /\ pairings' = [pairings EXCEPT ![k] =
       [user |-> u, channel |-> c, state |-> "active", expiresAt |-> now + PairingTTL]]
  /\ UNCHANGED <<now, links, legacy, preferred>>

\* create_pairing
CreatePairing(u, c, k) ==
  /\ pairings[k].state = "unused"
  /\ pairings' = [j \in Codes |->
       IF j = k THEN [user |-> u, channel |-> c, state |-> "active",
                      expiresAt |-> now + PairingTTL]
       ELSE IF pairings[j].state = "active" /\ pairings[j].user = u /\ pairings[j].channel = c
            THEN [pairings[j] EXCEPT !.state = "expired"]
            ELSE pairings[j]]
  /\ UNCHANGED <<now, links, legacy, preferred>>

\* _expire_pairings
Aged == [k \in Codes |->
  IF pairings[k].state = "active" /\ pairings[k].expiresAt <= now
  THEN [pairings[k] EXCEPT !.state = "expired"] ELSE pairings[k]]
Consume(k) == pairings' = [Aged EXCEPT ![k].state = "consumed"]

\* link_sender: a code that is not good for this channel; a code whose user
\* has a link already or whose sender speaks for another; the link
Good(k, c) == Aged[k].state = "active" /\ Aged[k].channel = c
Conflict_UserOnly(k, s, c) ==   \* a mutant: the sender's other user is missed
  \E l \in links : l.channel = c /\ l.user = pairings[k].user
Conflict(k, s, c) ==
  \E l \in links : l.channel = c /\ (l.user = pairings[k].user \/ l.sender = s)
LinkFails(k, c) ==
  /\ ~Good(k, c)
  /\ pairings' = Aged
  /\ UNCHANGED <<now, links, legacy, preferred>>
LinkRefused(k, s, c) ==
  /\ Good(k, c) /\ Conflict(k, s, c)
  /\ Consume(k)
  /\ UNCHANGED <<now, links, legacy, preferred>>
LinkSender(k, s, c) ==
  LET u == pairings[k].user IN
  /\ Good(k, c) /\ ~Conflict(k, s, c)
  /\ Consume(k)
  /\ links' = links \cup {[user |-> u, channel |-> c, sender |-> s]}
  /\ legacy' = IF c = "imessage"
               THEN {l \in legacy : l.user # u} \cup {[user |-> u, sender |-> s]}
               ELSE legacy
  /\ preferred' = [preferred EXCEPT ![u] = c]
  /\ UNCHANGED now

\* select_existing_channel
SelectChannel(u, c) ==
  /\ \E l \in LinksOf(u) : l.channel = c
  /\ preferred' = [preferred EXCEPT ![u] = c]
  /\ UNCHANGED <<now, pairings, links, legacy>>

\* unlink_photon_sender, by user or by phone: the digest of a phone is the one
\* of its iMessage links, and the preference stays
UnlinkUser(u) ==
  /\ links' = links \ LinksOf(u)
  /\ legacy' = {l \in legacy : l.user # u}
  /\ preferred' = [preferred EXCEPT ![u] = Nothing]
  /\ UNCHANGED <<now, pairings>>
UnlinkPhone_KeepsLegacy(s) ==   \* a mutant: the old table is forgotten
  /\ links' = {l \in links : l.channel # "imessage" \/ l.sender # s}
  /\ UNCHANGED <<now, pairings, legacy, preferred>>
UnlinkPhone(s) ==
  /\ links' = {l \in links : l.channel # "imessage" \/ l.sender # s}
  /\ legacy' = {l \in legacy : l.sender # s}
  /\ UNCHANGED <<now, pairings, preferred>>

\* _init_db, when the gateway starts: INSERT OR IGNORE from the old table,
\* which keeps both uniqueness constraints of the new one
Missing(l) ==
  \A m \in links : m.channel = "imessage" => m.user # l.user /\ m.sender # l.sender
OpenStore ==
  /\ links' = links \cup
       {[user |-> l.user, channel |-> "imessage", sender |-> l.sender] :
          l \in {m \in legacy : Missing(m)}}
  /\ UNCHANGED <<now, pairings, legacy, preferred>>

Tick ==
  /\ now < MaxTime
  /\ now' = now + 1
  /\ UNCHANGED linkVars

LinksChange ==
  \/ \E u \in Users, c \in Channels :
       SelectChannel(u, c) \/ \E k \in Codes : CreatePairing(u, c, k)
  \/ \E k \in Codes, c \in Channels :
       LinkFails(k, c) \/ \E s \in Senders : LinkRefused(k, s, c) \/ LinkSender(k, s, c)
  \/ \E u \in Users : UnlinkUser(u)
  \/ \E s \in Senders : UnlinkPhone(s)

LinksNext == LinksChange \/ OpenStore \/ Tick
LinksSpec == LinksInit /\ [][LinksNext]_<<now, linkVars>>
-----------------------------------------------------------------------------
LinksTypeOK ==
  /\ now \in Nat
  /\ pairings \in [Codes -> [user : Users \cup {Nothing}, channel : Channels,
                             state : {"unused", "active", "expired", "consumed"},
                             expiresAt : Nat]]
  /\ links \subseteq Link
  /\ legacy \subseteq [user : Users, sender : Senders]
  /\ preferred \in [Users -> Channels \cup {Nothing}]

\* A sender speaks for one user on a channel, and a user listens to one sender
\* there: the answer record_decision takes from a phone has one meaning.
OneLinkEachWay ==
  \A l, m \in links :
    l.channel = m.channel /\ (l.user = m.user \/ l.sender = m.sender) => l = m

\* The table of the earlier version says what the new one says of iMessage,
\* through every pairing and unlinking, so that a restart adds nothing.
LegacyInSync ==
  legacy = {[user |-> l.user, sender |-> l.sender] : l \in {m \in links : m.channel = "imessage"}}

\* One code of a user and channel is good at a time.
OneActivePairing ==
  \A j, k \in Codes :
    /\ pairings[j].state = "active" /\ pairings[k].state = "active"
    /\ pairings[j].user = pairings[k].user /\ pairings[j].channel = pairings[k].channel
    => j = k

\* A link appears only by using up an unexpired code of its user for its
\* channel: never twice for a code, never by a restart after an unlink.
LinkedByPairingOnly ==
  [][\A l \in links' \ links :
       \E k \in Codes :
         /\ pairings[k].state = "active" /\ now < pairings[k].expiresAt
         /\ pairings[k].user = l.user /\ pairings[k].channel = l.channel
         /\ pairings'[k].state = "consumed"]_<<now, linkVars>>
=============================================================================
