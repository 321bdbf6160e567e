SPECIFICATION Spec
CONSTANTS
    NoRegion = NoRegion
    Region <- MCRegion
    LowerCase <- MCLower
    Types <- MCTypes
    Offered <- MCOffered
    Policies <- MCPolicies
    MaxAssignments = 3
INVARIANTS
    TypeOK
    FormatsAgreeOnLiterals
    OnlyResidentEstatesPass
PROPERTIES
    HardeningNeverHurts
    StricterNeverPassesMore
