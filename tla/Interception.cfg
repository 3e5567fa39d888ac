SPECIFICATION Spec
CONSTANTS
    c1 = c1
    c2 = c2
    NoIntercept = NoIntercept
    Conns <- MCConns
    Names <- MCNames
    MustPass <- MCMustPass
    Registrations <- MCRegistrations
    Batches <- MCBatches
    Reactions <- MCReactions
    CompRank <- MCCompRank
    ConnRank <- MCConnRank
    MaxPublished = 3
\* The run stops when MaxPublished is reached and every connection is gone.
CHECK_DEADLOCK FALSE
INVARIANTS
    TypeOK
    EachPublishOnce
    RepliesAreMatched
    NobodyIsWedged
    HandlerOrderIsKept
PROPERTIES
    ChainIsWalked
    EveryPublishSettles
