SPECIFICATION Spec
CONSTANTS
    Size = 2
    Extras = {0}
    Count = 0
    Asked <- SyncRequests
    Change <- MCChange
    Message <- MCMessage
    Fixes <- MCFixes
    Rank <- Number
    Branch <- MCBranch
    NoBranch = 99
    MaxFaults = 0
    Jobs <- SyncJobs
    Goal <- Goals
INVARIANT
    BranchesOnMainFollowMain
