\* Host conditions in the exact mode, written or by default.
CONSTANTS
    LongBits = 8
    ChunkSizes = {1}
    MaxChunks = 0
    MaxReqs = {0}
    MaskTexts = {}
    UrlBytes = {}
    Verbs = {}
    MethodSuffix = {}
    TemplateBytes = {}
    HostOpts <- MC_HostOptsExact
SPECIFICATION Spec
INVARIANTS HostMatchesMode
