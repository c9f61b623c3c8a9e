SPECIFICATION PresenceSpec
CONSTANTS
  Tabs = {t1, t2}
INVARIANTS
  AwayIsReported
  ViewCurrent
PROPERTIES
  EventuallyAway
  Recovers
