\* Runtimes and expiry, with two failures or crashes.
SPECIFICATION FairSpec
CONSTANTS
    s1 = s1
    h1 = h1
    Null = Null
    Sessions = {s1}
    Runs = {}
    Keys = {}
    Requests = {h1}
    MaxFaults = 2
PROPERTIES
    RuntimesReclaimed
    ExpiryRecorded
