\* Calls of the shell, of the edit tool or of the computer tool.
SPECIFICATION Spec
CONSTANTS
    MaxCommands = 2
    MaxPieces = 2
    MaxErrors = 4
    BufferSize = 2
    MaxText = 2
    MaxFile = 4
    SnippetLines = 1
    Widths = {1024, 1280, 1367, 1920, 2560}
    Heights = {761, 768, 1080, 1200, 1440}
    Probes = {0, 1, 2, 383, 500, 683, 767, 799, 1023, 1279, 1365, 1900}
INVARIANTS
    TypeOK
    OutputOfItsCommand
    ErrorsKept
    LinesNumbered
    PointerFound
PROPERTIES
    OnePlaceReplaced
