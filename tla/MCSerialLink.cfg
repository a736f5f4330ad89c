\* Up to two mishaps, of which one may be a message given up halfway.
SPECIFICATION Spec
CONSTANTS
  Byte <- MCByte
  Zero = "x"
  RingSize = 8
  Message <- MCMessages
  FifoSize = 3
  Burst = 1
  MaxSent = 2
  MaxMishaps = 2
  Impatient = TRUE
INVARIANTS TypeOK NothingForged RingHasRoom
PROPERTIES ImplementsInbox ImplementsChannel AllDelivered
CHECK_DEADLOCK FALSE
