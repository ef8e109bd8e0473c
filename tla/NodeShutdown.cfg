\* Two signals at any time, one remote, one outage of the Electrum server.
SPECIFICATION FairSpec
CONSTANTS
  MAX_RECONNECT_ATTEMPTS = 2
  Connections = {c1}
  MaxSignals = 2
  MaxOutages = 1
INVARIANTS
  ApiSeesLiveNode
  NothingLeftOpen
  RunningMeansServing
PROPERTY HeededSignalEnds
