CONSTANTS
    d1 = d1
    d2 = d2
    d3 = d3
    Dials <- MCDials
    Watched <- MCWatched
    ChanSize = 1
SPECIFICATION FairSpec
INVARIANT TypeOK
INVARIANT NoLeak
INVARIANT ScopeCoversSocket
INVARIANT UpdatesAreTrue
PROPERTY DialReturns
PROPERTY RefinesDialContract
