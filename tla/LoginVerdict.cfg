SPECIFICATION Spec
CONSTANTS
  Users = {alice, bob}
  Names = {alice, bob}
  Fds = {f1, f2}
  NoUser = NoUser
  NoFd = NoFd
  MAX_CLIENTS = 2
  MAX_GROUPS = 0
  MAX_GROUP_MEMBERS = 1
  Commands = {"write all"}
  Watched = {"OK", "all", "login"}
  MaxCommands = 1
  MaxAccepts = 2
SYMMETRY Symmetry
INVARIANTS
  LoginVerdictFirst
\* connections and commands are bounded: a run ends when they are used up
CHECK_DEADLOCK FALSE
