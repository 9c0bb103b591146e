--------------------------- MODULE MCSolanaPayments ---------------------------
(* A small instance of SolanaPayments: two quotes, three processes.        *)
EXTENDS SolanaPayments, TLC

CONSTANTS q1, q2, p1, p2, p3

Symmetry == Permutations(Quotes) \cup Permutations(Processes)
=============================================================================
