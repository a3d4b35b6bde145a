SPECIFICATION Spec
CONSTANTS
    Sections <- MCSections
    ParentOf <- MCParentOf
    TypeOf <- MCTypeOf
    ItemsOf <- MCItemsOf
    Defaulted <- MCDefaulted
    NameItem <- MCNameItem
    Values = {"v1", "v2"}
    MaxLines = 8
    MaxLoads = 2
CHECK_DEADLOCK FALSE
INVARIANTS RunsOnItsFile CopiesNamed
