\* CIDRs with the mask texts /200, /-1 and a bare '/'.
CONSTANTS
    LongBits = 8
    ChunkSizes = {1}
    MaxChunks = 0
    MaxReqs = {0}
    MaskTexts <- MC_MaskTexts
    UrlBytes = {}
    Verbs = {}
    MethodSuffix = {}
    TemplateBytes = {}
    HostOpts = {}
SPECIFICATION Spec
INVARIANTS MaskAsWritten
