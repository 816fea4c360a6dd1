\* Three moves of HEAD, a crash, a failed reconcile and a prepare by another process.
SPECIFICATION FairSpec
CONSTANTS
    Commits = {A, B}
    Refs = {main, dev}
    Branch = main
    Retries = {r1}
    MayFail = {"reconcile", "mount"}
    Hidden = {}
    MaxMoves = 2
    MaxFailures = 1
    MaxDowns = 1
    MaxPrepares = 1
    TornReads = FALSE
INVARIANT ShownIsPublished
INVARIANT ReconciledWithShown
INVARIANT ReportedIsShown
INVARIANT StoredIsPublished
PROPERTY FollowsHead
CHECK_DEADLOCK FALSE
