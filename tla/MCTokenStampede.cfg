SPECIFICATION StampedeSpec
CONSTANTS
    Proc = {p1, p2}
    Identity <- MCIdentity
    Setting = {default}
    Default = default
    MaxToken = 2
    MaxFault = 0
    None = None
    Failed = Failed
PROPERTY
    FreshNotMarkedExpired
