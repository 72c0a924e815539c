SPECIFICATION FairSpec
CONSTANTS
  Users = {alice, bob}
  Names = {alice, bob}
  Fds = {f1, f2}
  NoUser = NoUser
  NoFd = NoFd
  MAX_CLIENTS = 2
  MAX_GROUPS = 0
  MAX_GROUP_MEMBERS = 1
  Commands = {"write all", "request file", "send public key"}
  Watched = {"all", "file request", "public key"}
  MaxCommands = 2
  MaxAccepts = 3
INVARIANTS
  DeliveredToAddressee
  BroadcastTotalOrder
  SenderOrder

  
\* connections and commands are bounded: a run ends when they are used up
CHECK_DEADLOCK FALSE
