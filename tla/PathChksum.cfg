CHECK_DEADLOCK FALSE
SPECIFICATION FairSpec
CONSTANTS
    Scrapers = {s1, s2}
    Sums = {0, 1, 2}
    MaxTime = 3
    Absent = Absent
INVARIANTS
    NotOlderThanContent
PROPERTIES
    ChecksumFollows
