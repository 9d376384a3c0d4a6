\* Two messages each way; the handler may leave its sender behind.
CONSTANTS
    MaxMessages = 2
    MaxMetadata = 1
SPECIFICATION FairSpec
INVARIANTS
    HeaderIsFinal
    TrailerComplete
PROPERTIES
    UpstreamSpool
    DownstreamSpool
    EndReleasesAll
CHECK_DEADLOCK FALSE
