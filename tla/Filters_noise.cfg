SPECIFICATION MCSpec
CONSTANTS
  Prime = 7
  dt = 2
  Files <- Contents
  Garbage <- Unset
  Ecef <- Positions
  Rate = 3
  Gravity = 4
  Bias = 2
  Noise = 5
  SUM_LEN = 3
  Start = 1
  Last = 3
  Fs <- Systems
  Bs <- Inputs
  Hs <- Outputs
  Models <- Quadratics
  Qs <- Noises
  Rs <- NoisesOfR
  Ps <- Firsts
  Zs <- Observed
  Us <- Efforts
  MaxCalls = 3
INVARIANT NoiseUnaffected
