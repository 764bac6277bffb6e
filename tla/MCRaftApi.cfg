SPECIFICATION ApiSpec
CONSTANTS
    Calls = {"a", "b"}
    Loads <- SomeLoads
    Dropped = {"b"}
    DropJoin = FALSE
    ApiSize = 1
    NoteSize = 1
INVARIANTS
    ReadCoversAcks

    
CHECK_DEADLOCK FALSE
