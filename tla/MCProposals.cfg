SPECIFICATION Spec
CONSTANTS
    Accounts <- MCAccounts
    Keys <- MCKeys
    Committee = 0
    MaxDepth = 2
    Graphs <- MCGraphs
    Accts <- MCAccts
    Updates <- MCUpdates
    Funds <- MCFunds
    Proposers = {1}
    Proposed <- MCProposed
    Reviews <- MCReviews
    MaxLife = 2
    MinReview = 1
    MaxTxLife = 1
    Hardfork = 10
    MaxTime = 4
    MaxProposals = 1
    MaxTx = 4
CHECK_DEADLOCK FALSE
INVARIANTS NoReplay ExecutedRightly LedgerMatchesHistory
PROPERTIES  ProposalsEnd
