----------------------------- MODULE MCSecureCopy -----------------------------
(* SecureCopy for TLC: the lengths of its names and data, on a scale where *)
(* every limit lies between two of them.                                   *)
EXTENDS SecureCopy, TLC

CONSTANTS plain, slash, dots, small, full, huge, noise

NameLengths == plain :> 1 @@ slash :> 1 @@ dots :> 2
Symmetry ==
  Permutations(Savers) \cup Permutations(Pids) \cup Permutations(Keys)

Sizes == small :> 1 @@ full :> 3 @@ huge :> 4 @@ noise :> 2
=============================================================================
