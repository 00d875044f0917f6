SPECIFICATION Spec
CONSTANTS
    Node <- MCNode
    Path <- MCPath
    Slots = 10
    MaxRestarts = 2
INVARIANTS
    OnionInv
    
    

    
