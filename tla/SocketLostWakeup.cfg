\* The default m_timeout = -1, never changed by the callback: the wake-up
\* byte of terminate() can be consumed by the drain loop of a poll round
\* that had already read m_state, and the next poll blocks for ever.
CONSTANTS
  PipeCap = 2
  MaxRetry = 1
  MaxSignals = 2
  CbTimeouts <- NeverSetsTimeout
SPECIFICATION Spec
PROPERTY TerminateReturns
CHECK_DEADLOCK FALSE
