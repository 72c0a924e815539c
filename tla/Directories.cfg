SPECIFICATION Spec
CONSTANTS
  owner = owner
  other = other
  a = a
  b = b
  c = c
  Names = {owner, other}
  Perms = {"r", "w", "x"}
  Procs = {p1, p2}
  Owner = owner
  SudoUsers = {owner}
  Paths <- Tree
  Operands <- Arguments
  Trees <- Beginnings
  SetAcls <- Restricting
  NoAcl = NoAcl
  Nobody = Nobody
  MaxRuns = 2
  MaxChanges = 1
  MaxFaults = 1
SYMMETRY Symmetry
INVARIANTS
  TypeOK
  OverlapHarmless
  PassedIsThere
  
  
\* a run ends when as many commands as MaxRuns have been typed
CHECK_DEADLOCK FALSE
