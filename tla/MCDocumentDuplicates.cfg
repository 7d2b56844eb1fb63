SPECIFICATION Spec
CONSTANTS
  Text <- MCText
  Length <- MCLength
  Before <- MCBefore
  Value = {1, 2, 3}
  SsoMax = 1
  Documents <- MCDocuments
  Missing = Missing
  Lost = Lost
  None = None
INVARIANT LastDuplicateWins
CHECK_DEADLOCK FALSE
