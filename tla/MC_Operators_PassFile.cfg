\* A BasicAuth condition in a Rewrite nested in a listener's request rule
\* is never given its password file's directory by the fix-up.
CONSTANTS
    LongBits = 8
    ChunkSizes = {1, 2, 3}
    MaxChunks = 3
    MaxReqs = {0, 3, 5}
    MaskTexts = {}
    UrlBytes = {32, 37, 47, 48, 97, 126}
    Verbs = {0, 2, 4}
    MethodSuffix = {FALSE}
    TemplateBytes = {}
    HostOpts <- MC_HostOptsModes
SPECIFICATION Spec
INVARIANT PassFileFixedUp
