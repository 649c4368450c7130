SPECIFICATION Spec
CONSTANTS
    None = None
    ByName <- MCByName
    Blockchain = {"committee"}
    Members <- MCMembers
    Referral <- MCReferral
    Funds <- MCFunds
    MaxSupply = 16
    Hundred = 10
    NetworkPercent = 2
    LifetimePercent = 3
    ReferrerPercent = 5
    Threshold = 2
    PaySeconds = 2
    CycleRate = 1
    CycleScale = 2
    Interval = 2
    MinWitnesses = 1
    CountNonMembers = TRUE
    WeightBits = 1
    Parameters <- MCParameters
    Candidates <- MCCandidates
    Options <- MCOptions
    FirstOptions <- MCFirstOptions
    Hardfork1 = 4
    Hardfork2 = 5
    Hardfork3 = 6
    Amounts = {2}
    Fees = {2, 4}
    Forever = 1000
    MaxGap = 2
    MaxOps = 3
    MaxTime = 6
INVARIANTS SupplyAddsUp SupplyCapped ElectionFollowsStake NoCoinVotesTwice
CHECK_DEADLOCK FALSE
