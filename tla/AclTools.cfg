SPECIFICATION Spec
CONSTANTS
  root = root
  owner = owner
  Names = {owner, root}
  Perms = {"r", "w", "x"}
  Procs = {p1, p2, p3}
  Owner = owner
  Root = root
  SudoUsers = {owner}
  Tools = {"fput", "getacl", "setacl"}
  Targets = {root}
  SetModes <- Reading
  InitialAcls <- SomeAcls
  NoInode = NoInode
  MaxRuns = 3
  MaxFailures = 1
SYMMETRY Symmetry
INVARIANTS
  TypeOK
  OneEntryPerUser
  
  AllowedOnce
  
PROPERTIES
  SetTakesEffect
\* a run ends when as many tools as MaxRuns have been started
CHECK_DEADLOCK FALSE
