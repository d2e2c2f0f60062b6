SPECIFICATION FairSpec
CONSTANTS
  Raised = {"net", "recv_msg"}
  MaxRaise = 2
  MaxLogins = 3
  AutoLogin = TRUE
INVARIANT TypeOK
INVARIANT OnceInOrder
INVARIANT LostOnlyUnregistered
INVARIANT NetStatusNeverLost
PROPERTY StatusSettles
PROPERTY ImplementsStreams
