SPECIFICATION EditorSpec
CONSTANTS
    Selections = {"a"}
    MaxPosts = 2
    MaxChecks = 1
    MaxTaps = 2
    MaxPrice = 2
    MaxDrops = 0
INVARIANT MovedPriceIsTaken
CHECK_DEADLOCK FALSE
