SPECIFICATION ElectionSpec
CONSTANTS
  Workers = {w1, w2}
  MinInterval = 2
  Nobody = Nobody
PROPERTIES
  LockGuardsRows
  KeptRunsAreSpaced
  LeadershipRecovers
