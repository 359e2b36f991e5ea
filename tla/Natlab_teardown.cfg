SPECIFICATION Spec
INVARIANT FinisherSparesPeer
