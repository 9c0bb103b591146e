---------------------------- MODULE MCChatCredit ----------------------------
(* Two messages of one user, two payout addresses. *)
EXTENDS ChatCredit

CONSTANTS m1, m2, m3, a1, a2
=============================================================================
