CONSTANTS
    couscous = couscous
    goldberg = goldberg
    kate = kate
    chains <- MCChains
    Configured = {couscous, goldberg}
    MaxBlock <- MCMaxBlock
    MaxResets = 1
    MaxReorgs = 1
    MaxStarts = 2
SPECIFICATION EventsSpec
CHECK_DEADLOCK FALSE
INVARIANTS
    PublishedWasStored
    NothingDropped
    EventsTypeOK
PROPERTIES
    DeliveredIsPublished
    EndedIsNoticed
