\* One byte lost in an overrun, whenever it comes.
SPECIFICATION Spec
CONSTANTS
  Byte <- MCByte
  Zero = "x"
  RingSize = 8
  Message <- MCMessages
  FifoSize = 3
  Burst = 1
  MaxSent = 3
  MaxMishaps = 1
  Impatient = FALSE
INVARIANT ForcesResync
CHECK_DEADLOCK FALSE
