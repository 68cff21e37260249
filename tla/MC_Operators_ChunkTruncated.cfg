\* Chunked bodies that end without their last chunk.
CONSTANTS
    LongBits = 8
    ChunkSizes = {1, 2}
    MaxChunks = 2
    MaxReqs = {0}
    MaskTexts = {}
    UrlBytes = {}
    Verbs = {}
    MethodSuffix = {}
    TemplateBytes = {}
    HostOpts = {}
SPECIFICATION Spec
INVARIANTS CompleteOnSuccess
