----------------------------- MODULE MCDirectories -----------------------------
(* Directories for TLC: a path of three names and one that leaves it.      *)
EXTENDS Directories, TLC

CONSTANTS owner, other, a, b, c

Symmetry == Permutations(Procs)

Tree == {<<a>>, <<a, b>>, <<a, b, c>>, <<a, c>>}
Arguments == {<<<<a, b, c>>>>, <<<<a, b>>>>, <<<<a>>, <<a, c>>>>}
Beginnings == {{}, {<<a>>}}
\* the owner may pass but not write; another user may do both
Restricting == {<<Entry(owner, {"x"}), Entry(other, {"w", "x"})>>}
=============================================================================
