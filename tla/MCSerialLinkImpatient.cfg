\* One mishap, which may be a message given up halfway.
SPECIFICATION Spec
CONSTANTS
  Byte <- MCByte
  Zero = "x"
  RingSize = 8
  Message <- MCMessages
  FifoSize = 3
  Burst = 1
  MaxSent = 3
  MaxMishaps = 1
  Impatient = TRUE
INVARIANT WholeMessages
CHECK_DEADLOCK FALSE
