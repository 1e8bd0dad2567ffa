SPECIFICATION DocsFairSpec
CONSTANTS
  p1 = p1
  p2 = p2
  p3 = p3
  Pages = {p1, p2, p3}
  IndexPages = {p2}
  None = None
  AttemptTimeouts <- AuthoredTimeouts
  Budget = 12
  MinAttempt = 1
INVARIANT WithinBudget
INVARIANT AbsenceIsReal
PROPERTY OperationAnswers
