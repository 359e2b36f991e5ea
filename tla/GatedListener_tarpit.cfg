CONSTANTS
    c1 = c1
    c2 = c2
    c3 = c3
    a1 = a1
    k1 = k1
    k2 = k2
    Conns <- ThreeConns
    Silent <- OneSilent
    Acceptors <- OneAcceptor
    Closers <- OneCloser
    QueueSize = 2
    ClosedErrRecognised = FALSE
SPECIFICATION TarpitSpec
PROPERTY HonestServed
