SPECIFICATION FairSpec
CONSTANTS
  w1 = w1  w2 = w2
  Workers = {w1, w2}
  Nobody = nobody
INVARIANT
  OneConsumer
PROPERTIES
  HolderConsumes
  OverlapEnds
  SurvivorConsumes
\* Every process may be gone.
CHECK_DEADLOCK FALSE
