SPECIFICATION Spec
CONSTANTS
    Windows = {w1, w2}
    NoWindow = NoWindow
    MaxKeys = 2
    MaxTurns = 2
    MaxDrops = 1
    MaxWaiting = 4
SYMMETRY Symmetry
INVARIANTS DeletesOnlyItsOwn NothingStranded NoDuplicates ParagraphsArriveInOrder
CHECK_DEADLOCK FALSE
