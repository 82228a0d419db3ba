\* Three requests and two prompts of a draft, in any order.  No deadlock check:
\* the traffic ends, and a lost permit stops it before.
SPECIFICATION ShmemFairSpec
CONSTANTS
  MaxRequests = 3
  MaxPrompts = 2
INVARIANTS ShmemTypeOK ExclusiveBuffer ReadInOrder
PROPERTY ReplyOrLost
CHECK_DEADLOCK FALSE
