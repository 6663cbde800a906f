\* Two runs with a shared key, one stop or delete, no failures.
SPECIFICATION Spec
CONSTANTS
    s1 = s1
    r1 = r1
    r2 = r2
    k1 = k1
    h1 = h1
    Null = Null
    Sessions = {s1}
    Runs = {r1, r2}
    Keys = {k1}
    Requests = {h1}
    MaxFaults = 0
SYMMETRY Symmetry
INVARIANTS
    OneActiveRun
    IdempotentRuns
    LockDiscipline
    ConversationMatchesRuns
