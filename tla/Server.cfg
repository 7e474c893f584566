SPECIFICATION ServerSpec
CONSTANTS
    Texts = {}
INVARIANTS
    DictSound
    
    KeyspaceSound
    
    ConnectionsSound
    LoopSound
    
    
CHECK_DEADLOCK FALSE
