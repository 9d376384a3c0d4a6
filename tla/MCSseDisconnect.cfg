\* The same instance; a client that leaves after the deadline of its request is not heard.
CONSTANTS
    Requests = {"r1", "r2"}
    Asks <- MCAsks
    Configs <- MCConfigs
    Declarations <- MCDeclarations
    Claims <- MCClaims
    TenantAware = {"orders", "base.notification"}
    Failing = {"broken"}
    None = None
SPECIFICATION Spec
INVARIANTS
    DisconnectHeard
CHECK_DEADLOCK FALSE
