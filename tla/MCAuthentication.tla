--------------------------- MODULE MCAuthentication ---------------------------
(* Authentication for TLC: nonces are random, clients and threads alike.   *)
EXTENDS Authentication, TLC

Symmetry ==
  Permutations(Nonces) \cup Permutations(Clients) \cup Permutations(Threads)
=============================================================================
