SPECIFICATION Spec
CONSTANTS
  root = root
  owner = owner
  Names = {owner, root}
  Perms = {"r", "w", "x"}
  Procs = {p1, p2}
  Owner = owner
  Root = root
  SudoUsers = {owner}
  Tools = {"setacl"}
  Targets = {owner, root}
  SetModes <- Reading
  InitialAcls <- SomeAcls
  NoInode = NoInode
  MaxRuns = 2
  MaxFailures = 0
SYMMETRY Symmetry
INVARIANTS
  UpdatesKept
\* a run ends when as many tools as MaxRuns have been started
CHECK_DEADLOCK FALSE
