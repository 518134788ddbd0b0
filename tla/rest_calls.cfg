SPECIFICATION RcSpec
CONSTANTS
    Clients <- MCClients
    Servers <- MCServers
    Talks <- MCTalks
    Starts <- MCStarts
INVARIANTS
    AnsweredByName
    NothingLost
    FailureIsExplained
