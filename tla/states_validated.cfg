\* A stopped session becomes READY again, or an ended run changes its status.
SPECIFICATION Spec
CONSTANTS
    s1 = s1
    r1 = r1
    h1 = h1
    Null = Null
    Sessions = {s1}
    Runs = {r1}
    Keys = {}
    Requests = {h1}
    MaxFaults = 0
PROPERTIES
    StatesValidated
