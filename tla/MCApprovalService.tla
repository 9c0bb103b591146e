-------------------------- MODULE MCApprovalService --------------------------
(* Small instances of ApprovalService.                                     *)
EXTENDS ApprovalService, TLC

CONSTANTS alice, bob, s1, s2, k1, k2, a1, a2, a3

\* a1 and a2 ask alice; a3 asks bob where he is a user.
MCOwnerOf == [a \in Approvals |-> IF a = a3 /\ bob \in Users THEN bob ELSE alice]

Asked == Permutations({a1, a2})
=============================================================================
