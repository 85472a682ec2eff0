SPECIFICATION KeyStoreSpec
CONSTANTS
    Handler = {h1, h2}
    Loop = Loop
    Nobody = Nobody
    k1 = k1
    k2 = k2
    KeyId <- MCKeyId
    Stored <- MCStored
    MaxRequest = 3
    KeyLimit = {free}
    NoLimit = free
    MaxFail = 1
    MaxCrash = 1
PROPERTIES
    DeleteRolledBack
CHECK_DEADLOCK FALSE
