SPECIFICATION FairSpec
CONSTANTS
  NumModels = 2
  MaxSteps = 3
  MaxSearches = 1
  MaxExecutes = 2
  Searches = {s1}
  Executes = {e1, e2, e3}
  Outcomes <- MCFew
  NoCall = NoCall
INVARIANTS PendingIsLatest CapsHold OneCheckpoint
PROPERTIES TruncationNoteIsTrue ImplementsOneAnswer EveryTurnCloses
CHECK_DEADLOCK FALSE
