\* Two instances, two starts, two releases and two broken ones, four configurations.
CONSTANTS
    Instances = {i1, i2}
    Releases <- MCReleases
    Configs <- MCConfigs
    Databases <- MCDatabases
    NameOrder <- MCNameOrder
    MaxStarts = 2
    None = None
    Versions = {"v1"}
    DefaultTenant = "default"
    TenantRole = "tenant"
    SuperRole = "super"
    DefaultTarget = "default"
SYMMETRY Symmetry
SPECIFICATION Spec
INVARIANTS
    RulesMatchRoles
    MemoryFollows
    DescriptionsRecorded
    NoForeignPackage
    ReleasedInReverse
CHECK_DEADLOCK FALSE
