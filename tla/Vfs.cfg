SPECIFICATION Spec
CONSTANTS
    Name <- MCName
    Component <- MCComponent
    Path <- MCPath
    Given <- MCGiven
    MaxNodes = 5
CHECK_DEADLOCK FALSE
INVARIANTS FoundByPath LookupMeans
