SPECIFICATION FairSpec
CONSTANTS
  User = {u}
  Person = {u}
  Denying = {}
  u = u
  MaxChange = 1
  MaxSearch = 1
  MaxAnswers = 1
PROPERTY AnswersARequest
