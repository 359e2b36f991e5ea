CONSTANTS
    c1 = c1
    c2 = c2
    c3 = c3
    a1 = a1
    k1 = k1
    k2 = k2
    Conns <- TwoConns
    Silent <- NoConns
    Acceptors <- OneAcceptor
    Closers <- TwoClosers
    QueueSize = 1
    ClosedErrRecognised = TRUE
SPECIFICATION FairSpec
PROPERTY CloseTerminates
PROPERTY ConnSettles
