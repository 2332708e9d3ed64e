SPECIFICATION Spec
CONSTANTS
    Flows <- MCFlows
    Searches <- MCSearches
    Found <- MCFound
    NbColours = 2
    MaxSteps = 6
INVARIANTS
    ControlsTellTheFilters
    TablesShowTheirRows
    UnitsFollowValues
    DiagramIsReadable
PROPERTY
    ColoursAreLasting
CHECK_DEADLOCK FALSE
