SPECIFICATION FairSpec
CONSTANTS
    c1 = c1
    c2 = c2
    c3 = c3
    Child <- TwoChildren
    Parent = parent
    NoChild = none
PROPERTY ChildrenExitWithParent
CHECK_DEADLOCK FALSE
