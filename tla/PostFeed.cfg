SPECIFICATION Spec
CONSTANTS
  MaxPost = 3
  Friend = {1, 3}
  Limit = 2
  MaxOffset = 4
  MaxQueue = 2
INVARIANTS TypeOK NoDuplicates HiddenLeaves TopIsOnItsWay QuietFeedIsComplete QuietFeedIsInOrder
