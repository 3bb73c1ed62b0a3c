SPECIFICATION Spec
CONSTANTS
  s1 = s1
  s2 = s2
  Senders = {s1}
  Overflow = 2
  BufSize = 4
  Modulus = 6
  Tired = 0
  Faults = {"cut"}
  Plans <- OnePacketPlans
CHECK_DEADLOCK FALSE
PROPERTY CallsReturn
