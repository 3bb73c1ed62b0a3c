SPECIFICATION Spec
CONSTANTS
  Prime = 23
  Turn = 12
  Cosine <- MCCosine
  Sine <- MCSine
  Records <- MCRecords
INVARIANTS
  DeadReckoning
  ElementaryTurns
  SameRotation
  AnglesComeBack
