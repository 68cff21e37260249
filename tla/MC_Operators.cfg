\* ACLs of one and two CIDRs, chunked bodies of up to three chunks, ASCII
\* URLs of up to three bytes and request lines of up to seven elements,
\* and Rewrite rules nested up to three deep.
CONSTANTS
    LongBits = 8
    ChunkSizes = {1, 2, 3}
    MaxChunks = 3
    MaxReqs = {0, 3, 5}
    MaskTexts = {}
    UrlBytes = {32, 37, 47, 48, 97, 126}
    Verbs = {0, 2, 4}
    MethodSuffix = {FALSE}
    TemplateBytes = {}
    HostOpts <- MC_HostOptsModes
SPECIFICATION Spec
INVARIANTS CidrMatchesPrefix ChunkedBodyBounded DecodeRoundTrip RequestLineParsed HostMatchesMode OneReplyPerRequest RewriteParsed SectionSameEffect ResponseFramingAgrees RpcInBounded
