\* Redirect templates with '$' before a letter.
CONSTANTS
    LongBits = 8
    ChunkSizes = {1}
    MaxChunks = 0
    MaxReqs = {0}
    MaskTexts = {}
    UrlBytes = {}
    Verbs = {}
    MethodSuffix = {}
    TemplateBytes = {36, 47, 49, 120}
    HostOpts = {}
SPECIFICATION Spec
INVARIANTS ExpandTerminates
