SPECIFICATION DBSpec
CONSTANTS
    a1 = a1
    a2 = a2
    a3 = a3
    b2 = b2
    Blocks <- MCBlocks
    Prev <- MCPrev
    Num <- MCNum
    Zero = Zero
    MaxNum = 3
    MaxWrites = 4
    MaxCrashes = 2
INVARIANTS FetchIsSound 
PROPERTIES ImplementsBlockMap
