SPECIFICATION Spec
CONSTANTS
    Size = 5
    Small = 3
    Asked <- AllRequests
    Change <- MCChange
    Message <- MCMessage
    Fixes <- MCFixes
    Wips <- MCWips
    Reverts = {}
    Rank <- Order
    Time <- Order
    Branch <- MCBranch
    LocalMain <- Main
    NoBranch = 99
    MaxFaults = 2
    Jobs <- MCJobs
    Goal <- Goals
INVARIANTS
    PlanIsSound
    CleanRunRestacks
    NoChangeIsLost
    OnlyDependentsAreBlocked
    WorkIsKept
    NothingMovesUnsaved
    DryRunTouchesNothing
    ReadyArePushed
    RepairMendsStacks
    ProtectedBranchesStay
    DevelopmentFollowsItsBase
PROPERTIES
    StacksMoveUpwards
