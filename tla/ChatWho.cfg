SPECIFICATION Spec
CONSTANTS
  Users = {alice, bob, carol}
  Names = {alice, bob, carol, ghost}
  Fds = {f1, f2, f3}
  NoUser = NoUser
  NoFd = NoFd
  MAX_CLIENTS = 3
  MAX_GROUPS = 0
  MAX_GROUP_MEMBERS = 1
  Commands = {"who", "list files", "request public key", "unknown"}
  Watched = {"piece", "key request"}
  MaxCommands = 1
  MaxAccepts = 4
SYMMETRY Symmetry
INVARIANTS
  SlotsMatchConnections
  WhoNamesDistinct
\* connections and commands are bounded: a run ends when they are used up
CHECK_DEADLOCK FALSE
