SPECIFICATION Spec
CONSTANTS
    a = a  b = b  c = c  d = d
    None = None
    URL <- MCURL
    Seed = a
    Links <- MCLinks
    Sitemap <- MCSitemap
    Worker = {w1}
    MaxDepth = 2
    MaxPages = 3
    QueueCap = 1
INVARIANT CancelSticks
CHECK_DEADLOCK FALSE
