SPECIFICATION MCSpec
CONSTANTS
    o1 = o1
    o2 = o2
    r1 = r1
    x1 = x1
    a = a
    b = b
    s1 = s1
    Requests <- MCRequests
    Old <- MCOld
    OldAt = 1
    Failing <- MCFailing
    Refused <- MCRefused
    Asked <- MCAsked
    Trimmed <- MCTrimmed
    Model <- MCModel
    Tier <- MCTier
    Context <- MCContext
    Identities <- MCIdentities
    Snapshots <- MCSnapshots
    Syncs <- MCSyncs
    Limit = 2
    Hour = 1
    Day = 2
    Days <- OneOrTwoDays
    MaxDays = 2
    MaxSeries = 1
    MaxNow = 6
INVARIANTS
    LiveSurvivesOutage
PROPERTIES
    ReportAddsUp
    UnpricedIsPriced
