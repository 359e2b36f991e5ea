CONSTANTS
    Names <- MCNames
    DefaultName = "www.googleapis.com"
    Unknown = ""
    Amounts <- MCAmounts
    Default = 5
    MaxOptions = 3
SPECIFICATION Spec
INVARIANT UnknownIsChrome
