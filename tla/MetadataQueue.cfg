SPECIFICATION FairSpec
CONSTANTS
    Artists = {a1, a2}
    Tracks = {t1}
    ArtistsOf <- TracksArtists
    BatchSize = 2
    RateMax = 2
    MaxRetries = 1
    MaxFaults = 2
INVARIANTS NothingForgotten
PROPERTIES OneCallADay PendingIsTaken
