\* Two requests over every configuration at which the chain differs.
CONSTANTS
    Texts <- MCTexts
    KeyOrder <- MCKeyOrder
    Languages = {"zh-CN", "en-US"}
    None = None
    Requests = {"r1", "r2"}
    Inputs <- MCInputs
    Assignments <- MCAssignments
    Tokens = {"t7", "t8", "t10", "admin", "inner", "client", "noRole", "old", "forged"}
    Claims <- MCClaims
    Rules <- MCRules
    Revoked = {"t7"}
    Withdrawn <- MCWithdrawn
    MaxRefills = 1
SPECIFICATION Spec
INVARIANTS
    HandledIsAllowed
    TenantConfined
    LimitsSeparate
    OneTrail
    ErrorsSayEnough
CHECK_DEADLOCK FALSE
