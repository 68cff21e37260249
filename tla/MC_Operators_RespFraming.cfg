\* A backend answer with two Content-length values, a Transfer-encoding
\* beside a Content-length or not ending in chunked, a 204 with chunks, or
\* a close-delimited body not readable in time leaves the client
\* connection kept with its body copied otherwise than the client reads it.
CONSTANTS
    LongBits = 8
    ChunkSizes = {1, 2, 3}
    MaxChunks = 3
    MaxReqs = {0, 3, 5}
    MaskTexts = {}
    UrlBytes = {32, 37, 47, 48, 97, 126}
    Verbs = {0, 2, 4}
    MethodSuffix = {FALSE}
    TemplateBytes = {}
    HostOpts <- MC_HostOptsModes
SPECIFICATION Spec
INVARIANT ForwardedFramingAgrees
