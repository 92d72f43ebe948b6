SPECIFICATION Spec
CONSTANTS
    Size = 6
    Extras = {}
    Count = 0
    Asked <- ForkRequests
    Change <- MCChange
    Message <- MCMessage
    Fixes <- MCFixes
    Rank <- Number
    Branch <- MCBranch
    NoBranch = 99
    MaxFaults = 0
    Jobs <- SyncJobs
    Goal <- Goals
INVARIANT
    CleanRunRestacks
