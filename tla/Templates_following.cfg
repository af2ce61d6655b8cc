CONSTANTS
  None = None
  ada = ada ben = ben cyn = cyn
  w1 = w1 w2 = w2 w3 = w3 v1 = v1
  acme = acme blue = blue official = official
  Callers <- MCCallers
  Workspaces = {w1, w2, w3, v1}
  Tenants = {acme, blue, official}
  TenantOf <- MCTenantOf
  Official = official
  Tenant <- MCTenant
  Admins = {ada, ben, cyn}
  Scope <- MCScope
  TemplateNames = {"one", "two"}
  Defs <- MCDefs
  BuiltIns <- TwoDefs
  Ratings = {0, 4}
  TemplateIds = {1, 2, 3}
  SchemaIds = {1, 2, 3, 4, 5, 6}
  ForkIds = {1, 2, 3}
  Budgets <- Scenarios
SYMMETRY Alike
SPECIFICATION MCSpec
INVARIANTS
    OriginsHold
    ForksAcyclic
    ForksHold
    SeedPublishesChanges

    
CHECK_DEADLOCK FALSE
