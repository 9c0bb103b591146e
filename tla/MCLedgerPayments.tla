--------------------------- MODULE MCLedgerPayments ---------------------------
(* Small instances of LedgerPayments: two or three requests, two threads.  *)
EXTENDS LedgerPayments, TLC

CONSTANTS r1, r2, t1, t2

Symmetry == Permutations(Requests) \cup Permutations(Threads)
=============================================================================
