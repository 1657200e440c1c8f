SPECIFICATION PlanSpec
CONSTANTS
  Catalog <- MCCatalog
  Rates <- MCRates
  Policies <- MCPolicies
  Loads <- MCLoads
  MaxOffers = 4
  Unknown = Unknown
INVARIANTS
  LimitsKept
  NothingAffordableLeft
  CheapestFirst
CHECK_DEADLOCK FALSE
