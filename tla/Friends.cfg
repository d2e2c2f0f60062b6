SPECIFICATION FairSpec
CONSTANTS
  User = {u}
  Person = {u, v}
  Denying = {v}
  u = u
  v = v
  MaxChange = 1
  MaxSearch = 2
  MaxAnswers = 1
INVARIANTS TypeOK ContactsCurrent ShownIsFound OnlyLateAnswersMix
PROPERTY ContactsFollow
