SPECIFICATION FairSpec
CONSTANTS
    Requests <- MCRequests
    Responses <- MCResponses
    Capacity = 6
    MaxCalls = 2
INVARIANTS
    TypeOK
    FramesParse
PROPERTIES
    IsExchange
    CallsEnd
