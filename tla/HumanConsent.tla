----------------------------- MODULE HumanConsent -----------------------------
(***************************************************************************)
(* What asking a person for approval promises the caller: one open         *)
(* question per user; a question is answered once, or becomes void; the    *)
(* caller hears "yes" only of a question answered yes, hears one answer,   *)
(* and never while the question is still open.  Asking may instead fail:   *)
(* then the question may still be open, and its answer reaches nobody.     *)
(***************************************************************************)
CONSTANTS Approvals, OwnerOf

VARIABLES
  question,   \* "none", "open", "yes", "no" or "void"
  heard       \* what the caller was told: "nothing", "yes", "no" or "failed"

vars == <<question, heard>>

Init ==
  /\ question = [a \in Approvals |-> "none"]
  /\ heard = [a \in Approvals |-> "nothing"]

Ask(a) ==
  /\ question[a] = "none"
  /\ \A b \in Approvals : OwnerOf[b] = OwnerOf[a] => question[b] # "open"
  /\ question' = [question EXCEPT ![a] = "open"]
  /\ UNCHANGED heard

Answer(a, v) ==
  /\ question[a] = "open"
  /\ question' = [question EXCEPT ![a] = v]
  /\ UNCHANGED heard

Void(S) ==
  /\ \A a \in S : question[a] = "open"
  /\ question' = [a \in Approvals |-> IF a \in S THEN "void" ELSE question[a]]
  /\ UNCHANGED heard

Hear(a, v) ==
  /\ heard[a] = "nothing"
  /\ question[a] \notin {"none", "open"}
  /\ v = "yes" => question[a] = "yes"
  /\ heard' = [heard EXCEPT ![a] = v]
  /\ UNCHANGED question

\* The caller gives up: the question is void from then on.
GiveUp(a) ==
  /\ question[a] = "open" /\ heard[a] = "nothing"
  /\ question' = [question EXCEPT ![a] = "void"]
  /\ heard' = [heard EXCEPT ![a] = "no"]

Fail(a) ==
  /\ question[a] # "none" /\ heard[a] = "nothing"
  /\ heard' = [heard EXCEPT ![a] = "failed"]
  /\ UNCHANGED question

Next ==
  \/ \E a \in Approvals :
       \/ Ask(a) \/ GiveUp(a) \/ Fail(a)
       \/ \E v \in {"yes", "no"} : Answer(a, v) \/ Hear(a, v)
  \/ \E S \in SUBSET Approvals : Void(S)

Spec == Init /\ [][Next]_vars
=============================================================================
