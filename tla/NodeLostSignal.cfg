\* One signal at any time; the Electrum server is up or down from the start.
SPECIFICATION FairSpec
CONSTANTS
  MAX_RECONNECT_ATTEMPTS = 2
  Connections = {}
  MaxSignals = 1
  MaxOutages = 0
PROPERTY SignalShutsDown
