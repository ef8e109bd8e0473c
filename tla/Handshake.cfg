\* Both ends run this code, or a remote dials that sends up to three messages
\* of any kind; the connection may break at any point.
SPECIFICATION FairSpec
CONSTANTS
  Heights = {0, 7}
  NoHeight = NoHeight
  Casts <- MCCasts
  MaxForeign = 3
INVARIANTS
  Agreement
  FailsOnlyIfCut
  CompleteMeansGreeted
PROPERTY HandshakeEnds
