SPECIFICATION Spec
CONSTANTS
    Nodes <- MCNodes
    Groups <- MCGroups
    GroupOf <- MCGroupOf
    StatsOf <- MCStatsOf
    Programs <- MCPrograms
    MaxPeriods = 3
    Recordings <- MCRecordings
INVARIANTS
    CatchUpAgrees
    StatsShownAreSampled
    ReplayShowsItsLine
    PageAndWorkerAgree
    MirrorIsExact
    DuplicatesHaveACause
    GhostsHaveACause
PROPERTY
    ClearEndsReplay
CHECK_DEADLOCK FALSE
