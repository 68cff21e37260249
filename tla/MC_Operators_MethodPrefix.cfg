\* Request lines whose method word has characters after a method name.
CONSTANTS
    LongBits = 8
    ChunkSizes = {1}
    MaxChunks = 0
    MaxReqs = {0}
    MaskTexts = {}
    UrlBytes = {}
    Verbs = {0}
    MethodSuffix = {TRUE}
    TemplateBytes = {}
    HostOpts = {}
SPECIFICATION Spec
INVARIANTS RequestLineParsed
