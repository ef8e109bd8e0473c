\* Every block a caller may offer, up to two heights past the last subsidy;
\* runs that mine up to two blocks, kills and losses of power at every point.
SPECIFICATION RegtestSpec
CONSTANTS
  INITIAL_SUBSIDY = 5
  HALVING_INTERVAL = 2
  MAX_MONEY_SATOSHIS = 20
  HALVINGS = 3
  Shifted <- MCShifted
  MAX_TEST_HEIGHT = 7
  Nonces = {0, 1, 2}
  Solutions = {1, 2}
  Runs = {p, q}
  MaxCount = 2
  Free = Free
SYMMETRY Symmetry
INVARIANTS
  ScheduleFits
  HonestBlockAccepted
  FileIsOneChain
PROPERTY StoreSpec
