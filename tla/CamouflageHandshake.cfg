CONSTANTS
    alice = alice
    bob = bob
    Ends <- MCEnds
SPECIFICATION FairSpec
INVARIANT TypeOK
INVARIANT DoneInPairs
INVARIANT OnlyServersWaitInVain
PROPERTY HandshakeEnds
PROPERTY WellMetComplete
PROPERTY RefinesHandshakeContract
