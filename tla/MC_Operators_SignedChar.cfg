\* URLs with a byte above 127, char signed or not.
CONSTANTS
    LongBits = 8
    ChunkSizes = {1}
    MaxChunks = 0
    MaxReqs = {0}
    MaskTexts = {}
    UrlBytes = {47, 233}
    Verbs = {}
    MethodSuffix = {}
    TemplateBytes = {}
    HostOpts = {}
SPECIFICATION Spec
INVARIANTS DecodeRoundTrip
