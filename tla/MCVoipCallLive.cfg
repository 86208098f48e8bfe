SPECIFICATION FairSpec
CONSTANTS
  org = org
  Pool = 3
  Calls = {c1}
  Users = {c1}
  Orgs = {org}
  OrgOf <- MCOrgOf
  UserOf <- MCUserOf
  Opening <- MCOpening
  Quotes = {2}
  Costs = {0, 1, 3}
  Amounts = {1}
  MaxGrants = 0
  MaxPerUser = 1
  MaxPerOrg = 1
  MaxGlobal = 1
  EarlyWebhooks = FALSE
  LossyWebhooks = FALSE
  Faults = FALSE
  MaxCrashes = 1
INVARIANTS
  TypeOK
  PhoneLegHasAnOwner
  NoLegBehindAFinishedCall
PROPERTIES
  CreditsRefined
  LifecycleNeverTurnsBack
  CallSettles
CHECK_DEADLOCK FALSE
