SPECIFICATION Spec
CONSTANTS
    Edits = 2
    Pulls = 1
    Dev = {1, 2}
    Main = 3
    NoBranch = 0
    Mine <- MCMine
    Theirs <- MCTheirs
    Change <- MCChange
    Message = {"text"}
    Plain = "text"
    Root <- MCRoot
    Fixes <- MCFixes
    Rank <- Number
    MaxTroubles = 1
PROPERTIES
    UndoBringsBack
