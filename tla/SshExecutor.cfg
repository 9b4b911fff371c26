SPECIFICATION SshFairSpec
CONSTANTS
    None = None
    Clients = {k1, k2, k3}
    MaxShutdowns = 2
    MaxRetries = 1
    RemoteCodes = {"SSH_CONNECT_FAILED"}
    Calls = {c1, c2}
    Signalled = {c1, c2}
    Retrying = {c1}
INVARIANTS
    OneConnection
PROPERTIES
    SentOverLiveClient
    ImplementsRemoteCommand
    EveryCallEnds
    ShutdownEnds
CHECK_DEADLOCK FALSE
