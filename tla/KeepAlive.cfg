SPECIFICATION FairSpec
CONSTANTS
  MaxKills = 3
  MaxConns = 9
INVARIANT TypeOK
INVARIANT JobChain
INVARIANT DeathsDoubleConnections
PROPERTY BothRunAgain
