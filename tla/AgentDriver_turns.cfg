SPECIFICATION FairSpec
CONSTANTS
  Message = {m1, m2}
  Disposed = disposed
  NoCause = none
  Cause = {user, disposed}
  Cancels <- AllCancels
  Sends <- AllSends
INVARIANTS
  MessagesAccounted
  LogBalanced
  LatchJustified
PROPERTIES
  DeliveryKept
  AbortConverges
  LatchServed
  InboxServed
