SPECIFICATION Spec
CONSTANTS
  plain = plain
  slash = slash
  dots = dots
  small = small
  full = full
  huge = huge
  noise = noise
  Savers = {c1, c2}
  Pids = {p1, p2}
  Paths = {plain, slash, dots}
  Data = {small, full, huge, noise}
  Size <- Sizes
  NoData = NoData
  NoInode = NoInode
  Keys = {k1, k2}
  ShortKey = ShortKey
  Names = {plain, slash, dots}
  NameLen <- NameLengths
  Slashed = {slash}
  Dotted = {dots}
  Noise = noise
  SC_MAX_NAME = 2
  SC_MAX_CIPHERTEXT = 4
  INT_MAX = 6
  Block = 2
  EVP_MAX_BLOCK_LENGTH = 2
  MaxRuns = 2
  MaxFaults = 1
SYMMETRY Symmetry
INVARIANTS
  TypeOK
  OutputAuthentic
  
PROPERTIES
  AtomicSpec
\* a run ends when as many clients as MaxRuns have been started
CHECK_DEADLOCK FALSE
