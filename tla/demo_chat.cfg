\* A conversation with interruptions, both kinds of provider and image limits.
SPECIFICATION Spec
CONSTANTS
    Caching = {anthropic}
    Filtering = {bedrock}
    Limits = {0, 2}
    MaxUses = 2
    MaxTurns = 8
INVARIANTS
    TypeOK
    ShownAsTold
    ImagesFew
    BreakpointsBounded
PROPERTIES
    ConversationSpec
    ImagesLeaveInChunks
