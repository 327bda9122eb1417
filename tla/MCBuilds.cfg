SPECIFICATION FairBuildSpec
CONSTANTS
    r1 = r1
    r2 = r2
    Requests = {r1, r2}
    MaxAttempts = 2
    MaxMishaps = 2
CHECK_DEADLOCK FALSE
INVARIANTS
    TypeOK
    BuildingHasJobUnlessFault
    CompletedHasImage
    CheckpointNeedsBase
    OneBuildAtATime
PROPERTIES
    StatusFollowsBuild
    BuildSettles
