SPECIFICATION Spec
CONSTANTS
  Users = {alice, bob}
  Names = {alice, bob, ghost}
  Clients = {c1, c2}
  Threads = {t1, t2}
  Nonces = {n1, n2, n3, n4}
  NoNonce = NoNonce
  NoClient = NoClient
  NoUser = NoUser
  MAX_REPLAY = 2
  MaxSkew = 0
  TICKET_TTL = 0
  MAX_CLIENTS = 2
  MaxTime = 0
  MaxRepeats = 1
SYMMETRY Symmetry
INVARIANTS
  TypeOK
  RepeatWindow
  
  

  
\* nonces are bounded: a run ends when they are used up
CHECK_DEADLOCK FALSE
