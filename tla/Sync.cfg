\* Two addresses: connections refused, lost and replaced, a rescan and a disconnect at any time.
CONSTANTS
  a = a b = b
  Peer <- MCPeer
  None = None
  MaxConnectCount = 2
  MaxConnectFailures = 2
  Slack = 0
  MaxHeight = 2
  Reported <- MCReported
  MaxCalls = 2
CHECK_DEADLOCK FALSE
SPECIFICATION SpecLive
INVARIANTS DownloadPeerHeld QuietMeansStopped
 
