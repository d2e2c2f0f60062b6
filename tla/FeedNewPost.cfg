SPECIFICATION Spec
CONSTANTS
  MaxPost = 3
  Friend = {}
  Limit = 2
  MaxOffset = 4
  MaxQueue = 2
PROPERTY NewPostReachesUI
