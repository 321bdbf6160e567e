SPECIFICATION Spec
CONSTANTS
    NoRegion = NoRegion
    Region <- MCRegion
    Source <- MCSource
    r1 = r1
    r2 = r2
    Request <- OneRequest
    Profile <- DurableProfiles
    Submissions <- AllProjects
    Actor = {"alice"}
    Tenant = {"acme"}
    AllowedRegions <- MCAllowed
    DefaultRegions <- MCDefault
    OpaAnswers <- OddAnswers
    Retrieved <- RetrievedAny
    Sibling <- RetrievedOrNot
    ScanResult <- Scans
    ModelReplies <- RichReplies
INVARIANTS
    TypeOK
    OneRequirementPerUnmetPrinciple
    GroundedRequirements
    OnlyResidentProjectsPass
    DualControlOnOpenRisk
PROPERTIES
    Refines
