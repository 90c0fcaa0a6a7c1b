SPECIFICATION Spec
CONSTANTS
    Root = Root
    Group = Group
    Dataset = Dataset
    Names <- MCNames
    Upper <- MCUpper
    Uses <- MCUses
    MaxCreates = 2
INVARIANTS TypeOK OwnIntact
PROPERTIES SeesPlainFile EachCallPlain
CHECK_DEADLOCK FALSE
