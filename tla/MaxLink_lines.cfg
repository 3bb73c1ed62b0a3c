SPECIFICATION Spec
CONSTANTS
  s1 = s1
  s2 = s2
  Senders = {s1, s2}
  Overflow = 2
  BufSize = 4
  Modulus = 6
  Tired = 0
  Faults = {"lose", "alter", "cut"}
  Plans <- MCPlans
CHECK_DEADLOCK FALSE
INVARIANTS
  CountIsTrue
  NothingLostBySender
  PacketsDelimit
  CallersMessage
PROPERTIES
  ImplementsLink
  FaultlessCallsReturn
  CountingCallsReturn
