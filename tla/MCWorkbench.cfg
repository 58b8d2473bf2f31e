CONSTANTS
    Messages <- AllMessages
    Events <- AllEvents
    MaxEvents = 2
SPECIFICATION LiveSpec
INVARIANT ScreenSound
PROPERTIES
    OwnChangeShown
    
    RequestsEnd
