SPECIFICATION Spec
CONSTANTS
  org = org
  Pool = 3
  Calls = {c1, c2}
  Users = {c1, c2}
  Orgs = {org}
  OrgOf <- MCOrgOf
  UserOf <- MCUserOf
  Opening <- MCOpening
  Quotes = {2}
  Costs = {0, 3}
  Amounts = {}
  MaxGrants = 0
  MaxPerUser = 1
  MaxPerOrg = 1
  MaxGlobal = 1
  EarlyWebhooks = FALSE
  LossyWebhooks = TRUE
  Faults = TRUE
  MaxCrashes = 0
SYMMETRY MCSymmetry
INVARIANTS
  CapsHold
  HoldFollowsRow
  LeaksAreBare
PROPERTIES
  CreditsRefined
  LifecycleNeverTurnsBack
CHECK_DEADLOCK FALSE
