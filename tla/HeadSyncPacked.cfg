\* A branch is packed before the poll that would see its new commit.
SPECIFICATION FairSpec
CONSTANTS
    Commits = {A, B}
    Refs = {main, dev}
    Branch = main
    Retries = {r1}
    MayFail = {}
    Hidden = {"pack"}
    MaxMoves = 2
    MaxFailures = 0
    MaxDowns = 0
    MaxPrepares = 0
    TornReads = FALSE
PROPERTY FollowsHead
CHECK_DEADLOCK FALSE
