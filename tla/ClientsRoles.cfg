SPECIFICATION Spec
CHECK_DEADLOCK FALSE
CONSTANTS
    U1 = U1
    U2 = U2
    Uis <- MCUis
    Scenarios <- MCRoleScenarios
    MaxPrompts = 2
    Available <- MCAvailable
    Registry <- MCRegistry
    DefaultRoles <- MCDefaultRoles
    RoleOrder <- MCRoleOrder
    DefaultModel = "none"
    DefaultParams <- MCDefaultParams
INVARIANTS
    RolesOutliveTheHarness
