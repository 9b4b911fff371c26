SPECIFICATION FairSpec
CONSTANTS
    Keys = {"SSH_USERNAME", "SSH_PASSWORD", "SSH_PRIVATE_KEY", "SSH_PRIVATE_KEY_PATH"}
    Elsewhere = {"SSH_PASSWORD", "SSH_PRIVATE_KEY_PATH"}
    MaxFaults = 3
INVARIANTS
    NothingLost
    MarkerMeansDone
PROPERTY
    MigrationCompletes
