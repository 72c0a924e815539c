------------------------------ MODULE MCAclTools ------------------------------
(* AclTools for TLC.                                                       *)
EXTENDS AclTools, TLC

Symmetry == Permutations(Procs)

CONSTANTS owner, root

\* a malformed line before an entry, until a setacl replaces it; what fput
\* leaves when a run begins without the file has no flaw
MalformedFirst == <<[Entry(root, {}) EXCEPT !.valid = FALSE], Entry(owner, {"r", "w"})>>
SomeAcls == {MalformedFirst}
Reading == {{"r"}}
=============================================================================
