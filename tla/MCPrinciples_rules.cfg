SPECIFICATION Spec
CONSTANTS
    NoRegion = NoRegion
    Region <- MCRegion
    AllowedRegions <- MCAllowed
    FirstDrafts <- MCDrafts
    Offered <- MCOffered
    Regions <- MCRegions
    Signatures <- MCSignatures
INVARIANTS
    FollowsCatalogue
    LockstepOnCommonDomain
PROPERTIES
    DeclaringNeverHurts
