CONSTANTS
    c1 = c1
    c2 = c2
    c3 = c3
    a1 = a1
    k1 = k1
    k2 = k2
    Conns <- ThreeConns
    Silent <- NoConns
    Acceptors <- OneAcceptor
    Closers <- TwoClosers
    QueueSize = 2
    ClosedErrRecognised = TRUE
SPECIFICATION Spec
SYMMETRY Symmetry
INVARIANT TypeOK
INVARIANT IInv
INVARIANT NoLeak
INVARIANT HandshakesBounded
INVARIANT QuietAfterClose
PROPERTY NoAddAfterZero
PROPERTY RefinesContract
