CONSTANTS
  Nodes = {a, b, c}
  ClusterKeys = {k1, k2}
  Founders = {c}
  FoundingKey = k1
  MaxConns = 8
  MaxJoins = 2
  MaxLeaves = 1
SPECIFICATION KSpec
CHECK_DEADLOCK FALSE
SYMMETRY Sym
INVARIANTS
  KTypeOK
  MeshWhenQuiet
  SameCluster
  JoinAnsweredOnce
