CONSTANTS
  Threads = {t1, t2, t3}
  Mutexes = {m}
  Barriers = {b}
  None = none
  TripCount <- Trip
  Leader = leader
  Followers = {f1, f2, f3, f4}
  Joinable = {f1, f2, f3}
SPECIFICATION LibrarySpec
\* Of Threads, which WaitersGetOut does not mention.
SYMMETRY Symmetric
\* Threads may stop calling, block themselves by locking twice, or be out.
CHECK_DEADLOCK FALSE
INVARIANTS
  MutualExclusion
  TokensMatch
  EnoughTokens
PROPERTIES
  NeverAlreadyUnlocked
  WaitersGetOut
