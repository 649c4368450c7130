SPECIFICATION CallSpec
CONSTANTS
    Accounts <- MCAccounts
    Keys <- MCKeys
    Committee = 9
    MaxDepth = 2
    Graphs <- MCGraphs
    Requirements <- MCRequirements
    Approvals <- MCApprovals
CHECK_DEADLOCK FALSE
INVARIANTS VerifySound VerifyComplete MinimizeWorks
