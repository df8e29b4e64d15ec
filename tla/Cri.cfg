CONSTANTS
    p1 = p1
    p2 = p2
    c1 = c1
    c2 = c2
    img1 = img1
    img2 = img2
    Pods = {p1, p2}
    Names = {c1}
    Urls = {img1}
    PodName <- MCPodName
    ImageOf <- MCImageOf
    Runnable <- MCRunnable
    MaxIds = 4
    MaxImages = 2
    MaxFailures = 1
    MaxRemovals = 1

SPECIFICATION FairSpec
INVARIANT NoOrphans
INVARIANT OneDownload
INVARIANT NeverWithoutImage
PROPERTY ExitIsFinal
PROPERTY FollowsRuntime
PROPERTY PullEnds
CHECK_DEADLOCK FALSE
