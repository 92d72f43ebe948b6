SPECIFICATION Spec
CONSTANTS
    Size = 5
    Small = 2
    Asked <- Circumstances
    Change <- MCChange
    Message <- MCMessage
    Fixes <- MCFixes
    Wips <- MCWips
    Reverts = {}
    Rank <- Order
    Time <- Order
    Branch <- MCBranch
    LocalMain <- Main
    NoBranch = 99
    MaxFaults = 0
    Jobs <- MCJobs
    Goal <- Goals
INVARIANT
    DetachedHeadIsRefused
