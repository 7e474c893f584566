SPECIFICATION TypesSpec
CONSTANTS
    Texts <- StringScenarios
INVARIANTS
    RaxSound
    SetsSound
    ListSound
    StreamSound
    ZsetSound
    ValuesExact
CHECK_DEADLOCK FALSE
