SPECIFICATION FairSpec
CONSTANTS
  Users = {alice}
  Names = {alice}
  Clients = {c1, c2}
  Threads = {t1, t2}
  Nonces = {n1, n2, n3}
  NoNonce = NoNonce
  NoClient = NoClient
  NoUser = NoUser
  MAX_REPLAY = 2
  MaxSkew = 0
  TICKET_TTL = 0
  MAX_CLIENTS = 2
  MaxTime = 1
  MaxRepeats = 0
PROPERTIES
  Answered
\* nonces are bounded: a run ends when they are used up
CHECK_DEADLOCK FALSE
