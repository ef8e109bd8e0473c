\* The Electrum server goes down and comes back; no signal.
SPECIFICATION FairSpec
CONSTANTS
  MAX_RECONNECT_ATTEMPTS = 2
  Connections = {}
  MaxSignals = 0
  MaxOutages = 2
PROPERTY ReconnectsToElectrum
