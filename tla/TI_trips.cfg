SPECIFICATION FairSpec
CONSTANTS
    s1 = s1
    s2 = s2
    t1 = t1
    t2 = t2
    t3 = t3
    t4 = t4
    noRoute = noRoute
    Feeds = {1, 2}
    SystemOf <- Systems
    StartHour <- StartHours
    Trips = {t1, t2, t3, t4, noRoute}
    FeedOf <- TripFeeds
    EndHour <- EndHours
    Routed = {t1, t2, t3, t4}
    BatchHours = 2
    MaxAttempts = 2
    MaxTime = 6
    MaxErrors = 1
    MaxLostAnswers = 1
    MaxBlindStarts = 1
    MaxRestarts = 1
INVARIANTS TypeOK StoredOnce NothingSkipped
PROPERTIES EveryTripIsStored
