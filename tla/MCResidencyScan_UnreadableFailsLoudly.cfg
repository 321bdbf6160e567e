SPECIFICATION FairSpec
CONSTANTS
    NoRegion = NoRegion
    s1 = s1
    Region <- MCRegion
    LowerCase <- MCLower
    Scan <- OneScan
    File <- TwoFiles
    Contents <- MCContents
    Drafts <- TwoGoodFiles
    Calls <- MCCalls
    Policies <- MCPolicies
    Profile <- AllProfiles
INVARIANT UnreadableFailsLoudly
