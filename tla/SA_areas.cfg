SPECIFICATION FairSpec
CONSTANTS
    here = here
    both = both
    sea = sea
    m1 = m1
    m2 = m2
    op = op
    Jobs = {1, 2}
    Feeds = {1, 2}
    Operators = {op}
    OperatorOf <- TheOperatorOf
    Areas <- TheAreas
    Municipalities = {m1, m2}
    MunicipalitiesOf <- TheMunicipalitiesOf
    OffersOf <- TheOffersOf
    MaxChanges = 2
    MaxFaults = 1
INVARIANTS TypeOK KnownAreas VersionsFollowEachOther
PROPERTIES AreasAreCurrent AreasArePublished
