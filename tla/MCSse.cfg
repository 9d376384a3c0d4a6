\* Two requests over both ways in, five configurations, with revocations, deadlines,
\* disconnects and a server that stops.
CONSTANTS
    Requests = {"r1", "r2"}
    Asks <- MCAsks
    Configs <- MCConfigs
    Declarations <- MCDeclarations
    Claims <- MCClaims
    TenantAware = {"orders", "base.notification"}
    Failing = {"broken"}
    None = None
SPECIFICATION Spec
INVARIANTS
    SubscribersAuthorized
PROPERTIES
    SubscriptionsEnd
CHECK_DEADLOCK FALSE
