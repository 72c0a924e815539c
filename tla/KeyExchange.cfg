SPECIFICATION Spec
CONSTANTS
  Users = {alice, bob}
  Names = {alice, bob}
  Fds = {f1, f2}
  NoUser = NoUser
  NoFd = NoFd
  MAX_CLIENTS = 2
  MAX_GROUPS = 1
  MAX_GROUP_MEMBERS = 2
  Commands = {"create group", "invite", "accept", "init group"}
  Watched = {"key"}
  MaxCommands = 6
  MaxAccepts = 2
SYMMETRY Symmetry
INVARIANTS
  KeysAgree
\* connections and commands are bounded: a run ends when they are used up
CHECK_DEADLOCK FALSE
