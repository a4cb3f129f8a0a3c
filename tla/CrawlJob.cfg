\* Two workers; the seed links two pages, so the queue can be full.
SPECIFICATION Spec
CONSTANTS
    a = a  b = b  c = c  d = d
    None = None
    URL <- MCURL
    Seed = a
    Links <- MCLinks
    Sitemap <- MCSitemap
    Worker = {w1, w2}
    MaxDepth = 2
    MaxPages = 2
    QueueCap = 1
INVARIANTS PageBudget CrawledOnce NothingStranded NeverSendsOnClosed
PROPERTY JobEnds
CHECK_DEADLOCK FALSE
