SPECIFICATION Spec
CONSTANTS
  c1 = c1
  c2 = c2
  c3 = c3
  o1 = o1
  o2 = o2
  Calls = {c1, c2, c3}
  Orgs = {o1, o2}
  OrgOf <- MCOrgOf
  Quotes = {0, 2, 3}
  Costs = {0, 1, 3, 6}
  Amounts = {1, 2}
  Opening <- MCOpening
  MaxGrants = 1
SYMMETRY MCSymmetry
INVARIANTS
  TypeOK
  SettlementsCohere
  CallLedgerExplained
  PoolIsLedgerSum
PROPERTIES
  ClosedStaysClosed
  ShortfallDrainsPool
  PrepaidAccountRefined
CHECK_DEADLOCK FALSE
