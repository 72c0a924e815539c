SPECIFICATION FairSpec
CONSTANTS
  alice = alice
  bob = bob
  file = file
  port = port
  first = first
  second = second
  Savers <- Threads
  Clients = {alice, bob}
  Pids = {alice, bob}
  Files = {file}
  Ports = {port, port2}
  Paths <- ClientFiles
  Data = {first, second}
  Size <- Lengths
  Commands <- Asks
  Room = 1
  Tries = 2
  NoData = NoData
  NoInode = NoInode
  NoClient = NoClient
  NoFile = NoFile
  MaxChanges = 1
  MaxFaults = 1
INVARIANTS
  TypeOK
  
  WholeUnlessShared

  
  
\* commands are bounded: a run ends when they are used up
CHECK_DEADLOCK FALSE
