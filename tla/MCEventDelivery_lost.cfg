\* A message sent but not confirmed is lost.
SPECIFICATION Spec
CONSTANTS
  Event = {e1}
  NoEvent = NoEvent
  Failing = {}
  Publisher = {p1}
  Instance = {n1}
  Handler = {h1}
  InstanceOf <- Apart
  MaxAttempts = 3
  QueueDeclared = TRUE
  MaxFaults <- Lost1
  MaxKinds = 1
INVARIANT AtLeastOnce
