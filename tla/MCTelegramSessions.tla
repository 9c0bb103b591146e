------------------------- MODULE MCTelegramSessions -------------------------
(* One user's wizards, from the start, from a list of products, from a list *)
(* of payment tokens and from the question for an address.                  *)
EXTENDS TelegramSessions
MCOpening == {"none", "package", "token"}
=============================================================================
