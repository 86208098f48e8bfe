SPECIFICATION Spec
CONSTANTS
  org = org
  Pool = 3
  Calls = {c1}
  Users = {c1}
  Orgs = {org}
  OrgOf <- MCOrgOf
  UserOf <- MCUserOf
  Opening <- MCOpening
  Quotes = {2}
  Costs = {0, 1, 3}
  Amounts = {}
  MaxGrants = 0
  MaxPerUser = 1
  MaxPerOrg = 1
  MaxGlobal = 1
  EarlyWebhooks = TRUE
  LossyWebhooks = FALSE
  Faults = FALSE
  MaxCrashes = 0
PROPERTIES
  LifecycleNeverTurnsBack
CHECK_DEADLOCK FALSE
