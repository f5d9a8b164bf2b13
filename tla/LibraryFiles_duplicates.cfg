SPECIFICATION MCSpec
CONSTANTS
    n1 = n1
    n2 = n2
    n3 = n3
    None = None
    Track = {1, 2}
    Plan = {1, 2, 3}
    Removal = {1}
    Name = {n1, n2, n3}
    File = {1, 2, 3}
    HomeOf <- Homes
    CanonicalOf <- Canonical
    Rank <- Qualities
    MaxChanges = 0
    MaxCrashes = 0
PROPERTY OnlyDuplicatesAreDropped
CHECK_DEADLOCK FALSE
