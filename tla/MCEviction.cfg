CONSTANTS
  Nodes = {a, b, c, x}
  Suspects = {x}
  Scores = {70, 90}
  M_MAX_SCORE = 100
  Settings <- MCSettings
SPECIFICATION ESpec
SYMMETRY Sym
CHECK_DEADLOCK FALSE
INVARIANTS
  VerdictsAgree
  EvictionBacked
  OpenWhenQuiet
