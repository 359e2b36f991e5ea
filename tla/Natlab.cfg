SPECIFICATION FairSpec
INVARIANT TypeOK
INVARIANT AcceptorOutlives
INVARIANT VerdictSound
PROPERTY LabEnds
