SPECIFICATION FairSpec
CONSTANTS
    Size = 3
    Extras = {}
    Count = 0
    Asked <- SyncRequests
    Change <- MCChange
    Message <- MCMessage
    Fixes <- MCFixes
    Rank <- Number
    Branch <- MCBranch
    NoBranch = 99
    MaxFaults = 1
    Jobs <- MCJobs
    Goal <- Goals
INVARIANTS
    WorktreeFollowsHead
    HeadComesBack
    CleanRunRestacks
    StacksStayStacked
    StagedChangeReachesTheStack
    NoChangeIsLost
    HookHearsFinalIds
    PlanIsSound
PROPERTIES
    StacksMoveUpwards
    Terminates
