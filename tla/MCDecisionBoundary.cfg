SPECIFICATION Spec
CONSTANTS
    r1 = r1
    r2 = r2
    r3 = r3
    alice = alice
    bob = bob
    read = read
    list = list
    shell = shell
    mail = mail
    None = None
    Runs <- ThreeRuns
    Principals = {alice, bob}
    Principal <- MCPrincipal
    Budget <- MCBudget
    Tools <- MCTools
    Sensitive = {shell}
    RolesOf <- MCRolesOf
    Allowlist <- MCAllowlist
    Blocklist <- MCBlocklist
    Radii = {0, 1, 2}
    MaxIterations = 2
    MaxCalls = 2
CHECK_DEADLOCK FALSE
INVARIANT TypeOK
INVARIANT BudgetWhenAlone
INVARIANT ForbiddenToolsNeverRun
INVARIANT LedgerIsTransient
