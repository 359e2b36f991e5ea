CONSTANT Rounds = 2
SPECIFICATION FairSpec
INVARIANT TypeOK
INVARIANT MaskingVerified
INVARIANT RoundsReal
INVARIANT ServerOutlives
PROPERTY LabEnds
