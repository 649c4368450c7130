SPECIFICATION Spec
CONSTANTS
    None = None
    Funds = 3
    Genesis <- MCGenesis
    Policies <- MCPolicies
    Amounts = {1, 2}
    Terms <- MCTerms
    Day = 2
    Interval = 1
    MaxVesting = 1
    MaxUpdates = 1
    MaxTime = 6
INVARIANTS OnlyVested LimitPerPeriod
CHECK_DEADLOCK FALSE
