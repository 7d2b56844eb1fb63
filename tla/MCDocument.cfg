\* Every object of up to three members over four keys, long and short, in any order.
SPECIFICATION Spec
CONSTANTS
  Text <- MCText
  Length <- MCLength
  Before <- MCBefore
  Value = {1, 2, 3}
  SsoMax = 1
  Documents <- MCDocuments
  Missing = Missing
  Lost = Lost
  None = None
INVARIANTS
  TypeOK
  MembersKept
  SortedInOrder
  LookupExact
  LookupsAgree
  ViewsStable
PROPERTY SortKeepsLookups
CHECK_DEADLOCK FALSE
