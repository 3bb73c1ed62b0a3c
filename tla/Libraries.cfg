SPECIFICATION LibrariesSpec
CONSTANTS
  matrix = matrix
  vector = vector
  quat = quat
  Names = {matrix, vector, quat}
  Named <- MCNamed
  Data <- MCData
  Zero = 0
  Singular <- MCSingular
  Combine <- MCCombine
  Apply <- MCApply
  Dims = {2, 3}
  MaxDepth = 2
  MaxLost = 1
  MaxCache = 10
  MaxMixed = 3
  N = 3
  Inputs <- SmallAndCovariances
  Null = Null
  Prime = 7
  Ms <- Linears
  Models <- Quadratics
  Hs <- Outputs
  Qs <- Noises
  Rs <- Noise
  Zs <- Measured
  Us <- Efforts
  Leftover = {0, 3}
  dt = 2
  MaxCalls = 3
  Paths <- MCPaths
  Stale <- MCStale
  MaxNotes = 2
CONSTRAINT Explored
CHECK_DEADLOCK FALSE
INVARIANTS
  TypeOK
  BoundedCache
  Safety
  PivotsDistinct
  NoExchange
  Inverts
  RejectsSingular
  SymmetricP
  ScratchDead
  RoundTrip
  TornFile
  FirstLine
PROPERTIES
  ImplementsValues
  DiscreteFilter
  DiscreteModel
  Linearized
  
  WildPointers
