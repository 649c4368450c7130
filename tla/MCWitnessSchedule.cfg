SPECIFICATION Spec
CONSTANTS
    n1 = n1
    n2 = n2
    w1 = w1
    w2 = w2
    w3 = w3
    Witnesses <- MCWitnesses
    Elections <- MCElections
    Nodes = {n1, n2}
    Owner <- MCOwner
    Stale = {n1}
    Required = 0
    Window = 3
    SkipSlots = 1
    Period = 2
    Horizon = 5
    MaxElections = 2
    MaxRestarts = 1
PROPERTIES ProductionContinues NodesRejoin ScheduleFollowsElection
