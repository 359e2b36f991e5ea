CONSTANTS
    Configs <- MCConfigs
    MaxLen = 6
    MaxStream = 9
    Names <- MCNames
    DefaultName = "www"
    Unknown = ""
    Amounts <- MCAmounts
    Default = 5
    MaxOptions = 3
    NameLen <- MCNameLen
    Sent <- MCSent
SPECIFICATION TransportSpec
INVARIANT AllTypeOK
INVARIANT CountsTheHandshake
INVARIANT DelayBudget
INVARIANT LastValidWins
PROPERTY CallsReport
 
PROPERTY HandshakeFragmented
PROPERTY RoundsMoveOn
PROPERTY HelloSplit
