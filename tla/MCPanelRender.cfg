SPECIFICATION FairSpec
CONSTANTS
    Settings <- MCSettings
    Requests <- MCRequests
    Now = 10
    Second = 4
    Limit = 128
    SyncPanels <- MCSync
    NetworkPanels <- MCNetwork
    SystemPanels <- MCSystem
    GroupsOf <- MCGroupsOf
    WorkerCounts <- MCCounts
INVARIANTS
    PanelTypeOK
    ReportShowsWhatWasAsked
PROPERTY
    RenderEnds
CHECK_DEADLOCK FALSE
