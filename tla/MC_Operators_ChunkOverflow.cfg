\* A chunk size above LONG_MAX after a small chunk, with max_req set.
CONSTANTS
    LongBits = 8
    ChunkSizes = {1, 200}
    MaxChunks = 2
    MaxReqs = {5}
    MaskTexts = {}
    UrlBytes = {}
    Verbs = {}
    MethodSuffix = {}
    TemplateBytes = {}
    HostOpts = {}
SPECIFICATION Spec
INVARIANTS ChunkedBodyBounded
