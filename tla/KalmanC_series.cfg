SPECIFICATION KalmanSpec
CONSTANTS
  Null = Null
  Prime = 7
  Ms <- Linears
  Models <- Quadratics
  Hs <- Outputs
  Qs <- Noises
  Rs <- Noise
  Zs <- Measured
  Us <- Efforts
  Leftover = {0, 3}
  dt = 2
  MaxCalls = 1
CHECK_DEADLOCK FALSE
PROPERTY
  ExponentialModel
