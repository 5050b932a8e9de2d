--------------------------- MODULE MCHealthServer ---------------------------
(* Threads are alike, and so are requests.                                 *)
EXTENDS HealthServer, TLC

MCSymmetry == Permutations(Threads) \cup Permutations(Requests)
=============================================================================
