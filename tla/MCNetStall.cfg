SPECIFICATION Spec
CONSTANTS
    c1 = c1
    a2 = a2
    a3 = a3
    a4 = a4
    b2 = b2
    p0 = p0
    p1 = p1
    p2 = p2
    Zero = Zero
    Garbage = Garbage
    Blocks <- MCBlocks
    Prev <- MCPrev
    Num <- MCNum
    MaxNum = 4
    Word = 256
    MaxUndo = 3
    Pending = 0
    Limit = 2
    Nodes <- StarNodes
    Dials <- StarDials
    Start <- StarStart
    Base <- StarBase
    Makes <- StarMakes
    MinPrefetch = 3
    MaxPerPeer = 1
    MaxHandled = 1
    MaxBacklog = 1
    MaxDrops = 0
CHECK_DEADLOCK FALSE
INVARIANT BeingProcessed
