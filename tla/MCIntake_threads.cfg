SPECIFICATION Spec
CONSTANTS
    NoRegion = NoRegion
    r1 = r1
    r2 = r2
    Region <- MCRegion
    Source <- MCSource
    Request <- TwoRequests
    Profile <- GcpAndLocal
    Submissions <- TwoProjects
    Actor = {"alice", "bob"}
    Tenant = {"acme"}
    AllowedRegions <- MCAllowed
    DefaultRegions <- MCDefault
    OpaAnswers <- FewAnswers
    Retrieved <- NothingBack
    Sibling <- NothingBack
    ScanResult <- OneScan
    ModelReplies <- OneReply
SYMMETRY Symmetry
INVARIANTS
    RecordAgreesWithReview
    DisclosureIsTrue
    OneRecordOneReview
    ErrorsLeaveNoTrace
