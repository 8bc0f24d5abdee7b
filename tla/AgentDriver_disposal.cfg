SPECIFICATION Spec
CONSTANTS
  Message = {m1, m2}
  Disposed = disposed
  NoCause = none
  Cause = {user, disposed}
  Cancels <- ClearingCancels
  Sends <- PublicSends
PROPERTY DisposalNeverLatches
