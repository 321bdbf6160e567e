SPECIFICATION FairSpec
CONSTANTS
    NoRegion = NoRegion
    r1 = r1
    r2 = r2
    Region <- MCRegion
    Source <- MCSource
    Request <- OneRequest
    Profile <- OnlyGcp
    Submissions <- TwoProjects
    Actor = {"alice"}
    Tenant = {"acme"}
    AllowedRegions <- MCAllowed
    DefaultRegions <- MCDefault
    OpaAnswers <- FewAnswers
    Retrieved <- NothingBack
    Sibling <- NothingBack
    ScanResult <- OneScan
    ModelReplies <- OneReply
PROPERTY VerdictAlwaysProduced
