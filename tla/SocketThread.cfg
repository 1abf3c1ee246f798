\* Each start() is given a callback that never sets a timeout or one that
\* keeps a 20 ms timeout: signals are served, and terminate() returns
\* while the callback keeps a timeout; every connection on which on_check
\* ran gets on_check(terminate).
CONSTANTS
  PipeCap = 2
  MaxRetry = 1
  MaxSignals = 2
  CbTimeouts <- EitherCallback
SPECIFICATION Spec
INVARIANT CallbackSessionClosed
PROPERTIES TerminateReturnsWithTimeout SignalServed
