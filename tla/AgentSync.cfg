CONSTANTS
    WebCalls <- AllWeb
    LocalCalls <- AllLocal
    MaxAsks = 2
    Losses <- AllLosses
SPECIFICATION AgentSpec
PROPERTIES PauseIsWanted PauseLands CancelLands
