SPECIFICATION Spec
CONSTANTS
  Users = {alice, bob, carol}
  Names = {alice, bob, carol}
  Fds = {f1, f2}
  NoUser = NoUser
  NoFd = NoFd
  MAX_CLIENTS = 2
  MAX_GROUPS = 1
  MAX_GROUP_MEMBERS = 2
  Commands = {"create group", "invite", "accept", "init group", "write group"}
  Watched = {"invite", "key", "group"}
  MaxCommands = 5
  MaxAccepts = 3
SYMMETRY Symmetry
INVARIANTS
  TypeOK
  GroupSecrecy
  MembershipByInvite
  GroupDelivery
\* connections and commands are bounded: a run ends when they are used up
CHECK_DEADLOCK FALSE
