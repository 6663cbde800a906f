\* A failure or crash anywhere in the life of one session and one run.
SPECIFICATION RunEventsSpec
CONSTANTS
    s1 = s1
    r1 = r1
    h1 = h1
    Null = Null
    Sessions = {s1}
    Runs = {r1}
    Keys = {}
    Requests = {h1}
    MaxFaults = 1
INVARIANTS
    TypeOK
    ReconcilerSparesLive
    ConversationMatchesRuns
    TimelineMatchesRow
PROPERTIES
    RunsFinish
