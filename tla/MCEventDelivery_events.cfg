\* An event and one whose publishing fails, overlapping ticks, two instances of Notifications, one kind of fault.
SPECIFICATION FairSpec
CONSTANTS
  Event = {e1, e2}
  NoEvent = NoEvent
  Failing = {e2}
  Publisher = {p1, p2}
  Instance = {n1, n2}
  Handler = {h1, h2}
  InstanceOf <- Apart
  MaxAttempts = 3
  QueueDeclared = FALSE
  MaxFaults <- TwoEmails
  MaxKinds = 1
INVARIANTS TypeOK PublishedIsUnderway OnePerHandler AttemptsBound
PROPERTIES EventuallyPublished EventuallyHandled
