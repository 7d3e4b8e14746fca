SPECIFICATION Spec
CONSTANTS
    r1 = r1
    r2 = r2
    r3 = r3
    alice = alice
    bob = bob
    read = read
    list = list
    shell = shell
    mail = mail
    None = None
    Runs <- TwoRuns
    Principals = {alice, bob}
    Principal <- SharedPrincipal
    Budget <- MCBudget
    Tools <- MCTools
    Sensitive = {shell}
    RolesOf <- OpenRolesOf
    Allowlist <- NoList
    Blocklist <- NoList
    Radii = {1, 2}
    MaxIterations = 2
    MaxCalls = 2
CHECK_DEADLOCK FALSE
INVARIANT BudgetPerTask
