SPECIFICATION Spec
CONSTANTS
    NoRegion = NoRegion
    c1 = c1
    c2 = c2
    Call <- TwoCalls
    Profiles <- MCProfiles
    Documents <- MCDocuments
    Region <- MCRegion
    LowerCase <- MCLower
    AllowedRegions <- MCAllowed
    DefaultRegions <- MCDefault
    ResidencyDefault <- MCResidency
    Source <- NoSource
    GoldenFiles <- MCGoldenFiles
    Rubrics <- MCRubrics
    ServiceAnswers <- MCAnswers
    MaxLines = 4
SYMMETRY Symmetry
CONSTRAINT OneThingAtATime
INVARIANTS
    TypeOK
    EntryPointsAgree
    QueuedIsTold
    PromotionIsEarned
CHECK_DEADLOCK FALSE
