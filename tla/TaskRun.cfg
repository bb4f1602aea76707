SPECIFICATION Spec
CONSTANTS
    Preferred <- MCPreferred
    ConfigMethods <- MCConfigMethods
    Registered <- MCRegistered
    Sources = 2
    HasResolver = TRUE
INVARIANTS  DownloadsBounded
PROPERTIES TorrentStopsAtTunnel TunnelLossIsResumable RunEnds
