\* Each sequential computation on all its small inputs, against its reference.
SPECIFICATION ComputationSpec
CONSTANTS
    NSource = 4
    NFile = 3
    MaxDepth = 2
    MaxFiles = 3
    MaxAdds = 2
    NNode = 4
    NComponent = 2
    MaxLine = 6
    Context = 1
    NFragment = 4
    NPath = 4
    NOwner = 1
    NNamespace = 2
    MaxSize = 4
    top = top
    left = left
    right = right
    topFile = topFile
    leftFile = leftFile
    rightFile = rightFile
    link = link
    Component <- ThreeComponents
    Root <- top
    FilePath <- FourPaths
    OwnerOf <- OwnerByPath
    Regular <- Files
    Asked <- AskedByComponent
INVARIANTS WorksetIsTrue PathsAreBest SelectionComplete
    SelectionSound EditsOwnedOnce UnitsCover RelationsExhausted PlanIsReference
PROPERTY NamespaceChoiceIsBest
CHECK_DEADLOCK FALSE
