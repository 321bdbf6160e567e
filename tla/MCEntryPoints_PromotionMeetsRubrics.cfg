SPECIFICATION Spec
CONSTANTS
    NoRegion = NoRegion
    c1 = c1
    c2 = c2
    Call <- OneCall
    Profiles <- OnlyGcp
    Documents <- OneDocument
    Region <- MCRegion
    LowerCase <- MCLower
    AllowedRegions <- MCAllowed
    DefaultRegions <- MCDefault
    ResidencyDefault <- MCResidency
    Source <- NoSource
    GoldenFiles <- MCGoldenFiles
    Rubrics <- MCRubrics
    ServiceAnswers <- MCAnswers
    MaxLines = 4
INVARIANT PromotionMeetsRubrics
CHECK_DEADLOCK FALSE
