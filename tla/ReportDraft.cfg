\* Two runs, two blocks, two charts: the second run may revise the report of the first.
SPECIFICATION Spec
CONSTANTS
    Charts = {"c1", "c2"}
    OverviewTitles = {"S"}
    Drafts <- MCDrafts
    Scopes <- MCScopes
    Options = {1}
    Places <- MCPlaces
    MaxBlocks = 2
    MaxRuns = 2
    MaxWrites = 3
INVARIANTS
    UniqueIds
    FinalizedIsSaved
    
    
    
    TocResolves
CHECK_DEADLOCK FALSE
