---------------------------- MODULE MC_Operators ----------------------------
(***************************************************************************)
(* The pure functions of Acl, BodyCopy, RequestLine, Redirect, HostMatch *)
(* HeaderList and BasicAuth checked over bounded inputs.                  *)
(* The one variable holds an input, chosen in Init; each state is one     *)
(* input, and the properties compare the operators' results on it with a  *)
(* reference definition.                                                   *)
(***************************************************************************)
EXTENDS Acl, BodyCopy, RequestLine, Redirect, HostMatch, HeaderList, BasicAuth, SpecialReply, ResponseHead,
        RewriteRules
LOCAL INSTANCE SequencesExt

CONSTANTS ChunkSizes,    \* sizes a client announces for a chunk
          MaxChunks,     \* chunks in one body
          MaxReqs,       \* values of the listener's max_req (0: no limit)
          MaskTexts,     \* texts after '/' written with Base4, beyond 0..32
          UrlBytes,      \* bytes of the URLs a redirect encodes
          Verbs,         \* values of the listener's verb (highest method group)
          MethodSuffix,  \* whether a method word may have characters after the name
          TemplateBytes, \* bytes of redirect URL templates
          HostOpts       \* option words written before a Host pattern

VARIABLE input

(***************************************************************************)
(* ACL inputs.  An ACL written as one or two CIDRs (with a blank line and  *)
(* a successful Include between them), probed with the written address    *)
(* and with that address with one bit flipped, and with an address of the *)
(* other family or of no supported family.                                 *)
(***************************************************************************)
Base4 == <<192, 168, 10, 5>>
Base6 == <<32, 1, 13, 184, 0, 0, 0, 0, 0, 0, 0, 0, 0, 0, 0, 1>>

Flip(b, k) == [b EXCEPT ![k \div 8 + 1] = @ ^^ (2^(7 - (k % 8)))]
Bit(b, k) == (b[k \div 8 + 1] \div 2^(7 - (k % 8))) % 2

\* A written CIDR: its family, its address and its mask length (the
\* address length when no '/' is written).
Written(fam, b, n) == [fam |-> fam, bytes |-> b, n |-> n]
CidrTok(w, slash) ==
    [type |-> "string", addr |-> [fam |-> w.fam, bytes |-> w.bytes],
     mask |-> IF slash THEN [kind |-> "num", n |-> w.n] ELSE [kind |-> "none"]]

Nl == [type |-> "nl"]
EndTok == [type |-> "ident", str |-> "end"]
IncludeTok == [type |-> "ident", str |-> "include", ok |-> TRUE]

Written4 == {Written("inet", Base4, n) : n \in 0..32}
Written6 == {Written("inet6", Base6, n) : n \in {0, 1, 31, 32, 33, 64, 127, 128}}

Probes4 == {[fam |-> "inet", bytes |-> Flip(Base4, k)] : k \in 0..31}
               \cup {[fam |-> "inet", bytes |-> Base4]}
Probes6 == {[fam |-> "inet6", bytes |-> Flip(Base6, k)] : k \in {0, 31, 32, 33, 64, 127}}
               \cup {[fam |-> "inet6", bytes |-> Base6]}
OtherProbes == {[fam |-> "inet", bytes |-> Base4], [fam |-> "inet6", bytes |-> Base6],
                [fam |-> "unix", bytes |-> <<>>]}

AclCase(toks, ws, sa) == [kind |-> "acl", toks |-> toks, written |-> ws, sa |-> sa]

AclCases ==
    {AclCase(<<Nl, CidrTok(w, TRUE), Nl, EndTok>>, {w}, sa) : w \in Written4, sa \in Probes4 \cup OtherProbes}
    \cup {AclCase(<<Nl, CidrTok(w, TRUE), Nl, EndTok>>, {w}, sa) : w \in Written6, sa \in Probes6 \cup OtherProbes}
    \cup {AclCase(<<Nl, CidrTok(Written("inet", Base4, 32), FALSE), EndTok>>,
                  {Written("inet", Base4, 32)}, sa) : sa \in Probes4}
    \cup {AclCase(<<Nl, CidrTok(w4, TRUE), Nl, IncludeTok, CidrTok(w6, TRUE), EndTok>>, {w4, w6}, sa) :
            w4 \in {Written("inet", Base4, n) : n \in {8, 24}},
            w6 \in {Written("inet6", Base6, n) : n \in {32, 64}},
            sa \in Probes4 \cup Probes6 \cup OtherProbes}

\* The reference: an address is in a written prefix when it has the
\* family and the first n bits of the written address.
InPrefix(sa, w) == sa.fam = w.fam /\ \A k \in 0..w.n - 1 : Bit(sa.bytes, k) = Bit(w.bytes, k)

\* Masks strtoul accepts though they are no mask length of an IPv4 address.
MC_MaskTexts == {[kind |-> "num", n |-> 200], [kind |-> "neg1"], [kind |-> "empty"]}

MaskCases ==
    {[kind |-> "mask", tok |-> [type |-> "string", addr |-> [fam |-> "inet", bytes |-> Base4], mask |-> t]] :
        t \in MaskTexts}

(***************************************************************************)
(* Chunked body inputs: chunks of the sizes in a sequence, each size line *)
(* followed by the data and its CRLF, and then the end of the body: the   *)
(* last chunk with a trailer and the empty line, the stream ending, or a  *)
(* line get_line rejects.                                                  *)
(***************************************************************************)
SizeLine(v) == [k |-> "line", text |-> "hex", v |-> v]
EmptyLine == [k |-> "line", text |-> "empty"]
Trailer == [k |-> "line", text |-> "other"]
Data(n) == [k |-> "data", n |-> n]

RECURSIVE Framed(_)
Framed(sizes) ==
    IF sizes = <<>> THEN <<>>
    ELSE <<SizeLine(Head(sizes)), Data(StrtolHex(Head(sizes))), EmptyLine>> \o Framed(Tail(sizes))

Ends == [last |-> <<SizeLine(0), Trailer, EmptyLine>>,
         eof |-> <<>>,
         broken |-> <<[k |-> "broken"]>>]

RECURSIVE Total(_)
Total(s) == IF s = <<>> THEN 0 ELSE Head(s) + Total(Tail(s))

ChunkCases ==
    {[kind |-> "chunks", sizes |-> s, end |-> e, max |-> m, in |-> Framed(s) \o Ends[e]] :
        s \in UNION {[1..n -> ChunkSizes] : n \in 0..MaxChunks}, e \in DOMAIN Ends, m \in MaxReqs}

(***************************************************************************)
(* URL inputs: URLs of up to three bytes, encoded for a Location and       *)
(* decoded again, with char signed or unsigned.                            *)
(***************************************************************************)
CodecCases == {[kind |-> "codec", u |-> u, signed |-> sg] : u \in BoundedSeq(UrlBytes, 3), sg \in BOOLEAN}

(***************************************************************************)
(* Request lines: an optional leading space, a method word, and then the  *)
(* words and space runs of Tails.  URL words: "/", "/%41", "/%00", "%g".  *)
(***************************************************************************)
MethWords == {[k |-> "meth", name |-> n, extra |-> e] :
                 n \in {"GET", "HEAD", "PUT", "LOCK", "SUBSCRIBE", "RPC_IN_DATA", "FOO"}, e \in MethodSuffix}
UrlWords == {[k |-> "url", bytes |-> b] : b \in {<<47>>, <<47, 37, 52, 49>>, <<47, 37, 48, 48>>, <<37, 103>>}}
VerWords == {[k |-> "ver", v |-> v] : v \in {"HTTP/1.0", "HTTP/1.1", "HTTP/1.2", "HTTP/2"}}
Tails ==
    {<<>>, <<SP>>} \cup {<<SP, w>> : w \in UrlWords \cup VerWords} \cup {<<SP, w, SP>> : w \in UrlWords}
    \cup {<<SP, w, SP, v>> : w \in UrlWords, v \in VerWords}
    \cup {<<SP, w, SP, v, SP>> : w \in UrlWords, v \in VerWords}
    \cup {<<SP, v, SP, v2>> : v \in VerWords, v2 \in VerWords}
LineCases ==
    {[kind |-> "reqline", line |-> lead \o <<m>> \o t, verb |-> vb] :
        lead \in {<<>>, <<SP>>}, m \in MethWords, t \in Tails, vb \in Verbs}

\* The reference: method SP URL SP version, nothing else, with a method of
\* the table and a version HTTP/1.0 or HTTP/1.1; the URL is any word.
WellFormedLine(l) ==
    /\ Len(l) = 5 /\ l[2] = SP /\ l[4] = SP
    /\ l[1].k = "meth" /\ l[1].name \in DOMAIN Methods /\ ~l[1].extra
    /\ l[3].k # "sp" /\ l[5].k = "ver" /\ l[5].v \in {"HTTP/1.0", "HTTP/1.1"}

\* "%00" as three bytes of a URL word.
HasNulEscape(w) ==
    w.k = "url" /\ \E i \in 1..Len(w.bytes) - 2 : w.bytes[i] = 37 /\ w.bytes[i + 1] = 48 /\ w.bytes[i + 2] = 48

(***************************************************************************)
(* Redirect templates of up to four bytes, with the submatches "/a" (0)    *)
(* and "b" (1) and the original URL "/o".                                   *)
(***************************************************************************)
Submatches == <<<<47, 97>>, <<98>>>>
TemplateCases == {[kind |-> "template", url |-> t] : t \in BoundedSeq(TemplateBytes, 4)}

(***************************************************************************)
(* Host conditions: a pattern of one or two bytes from a, b and '.',       *)
(* after the options of HostOpts, against a Host header whose value has    *)
(* up to three such bytes.                                                 *)
(***************************************************************************)
HostBytes == {97, 98, 46}
HostCases ==
    {[kind |-> "host", opts |-> o, expr |-> e, line |-> <<HOST, SPACE>> \o v] :
        o \in HostOpts, e \in BoundedSeq(HostBytes, 2) \ {<<>>}, v \in BoundedSeq(HostBytes, 3)}

\* Option lists: with a mode word, with two, and with none (exact).
MC_HostOptsModes == {<<"beg">>, <<"end">>, <<"contain">>, <<"icase", "end">>, <<"exact", "contain">>}
MC_HostOptsExact == {<<>>, <<"exact">>, <<"contain", "exact">>}

(***************************************************************************)
(* Host conditions read from a file (-file): files of up to two lines,    *)
(* among them a line with blanks and a newline around its pattern, a      *)
(* comment and a line of a tab only.                                       *)
(***************************************************************************)
FileLines == {<<97>>, <<46>>, <<98, 97>>, <<SPACE, 98, NL>>, <<HASH, 97>>, <<TAB>>}
HostFileCases ==
    {[kind |-> "hostfile", opts |-> o \o <<"file">>, lines |-> f, line |-> <<HOST, SPACE>> \o v] :
        o \in MC_HostOptsModes, f \in BoundedSeq(FileLines, 2), v \in BoundedSeq(HostBytes, 3)}

\* The mode the options name last, exact when they name none.
RECURSIVE LastMode(_)
LastMode(o) ==
    IF o = <<>> THEN "EXACT"
    ELSE IF Last(o) \in {"exact", "beg", "end", "contain"} THEN ModeOf[Last(o)] ELSE LastMode(Front(o))

\* What spec.md says each mode matches, on the header's value.
HostModeMatches(mode, e, v) ==
    CASE mode = "EXACT"   -> v = e
      [] mode = "PREFIX"  -> IsPrefix(e, v)
      [] mode = "SUFFIX"  -> IsSuffix(e, v)
      [] mode = "CONTAIN" -> \E i \in 0..Len(v) : IsPrefix(e, SubSeq(v, i + 1, Len(v)))

(***************************************************************************)
(* Request heads: up to four results of get_line.  A line read whole is   *)
(* empty, a Host header, another header, or a text the HEADER regex does  *)
(* not match; get_line also fails (1) with a Host header or nothing read  *)
(* into buf (a control character, a lone CR, a line too long, the end of  *)
(* the stream) and returns -1 when the BIO cannot read.                   *)
(***************************************************************************)
HostV1 == Text("Host", FALSE, "v1")
OtherV2 == Text("X-Other", FALSE, "v2")
HeadLines ==
    {[res |-> 0, buf |-> b] : b \in {Blank, HostV1, OtherV2, Bad}}
      \cup {[res |-> 1, buf |-> b] : b \in {Blank, HostV1}} \cup {[res |-> -1, buf |-> Blank]}
HeadCases == {[kind |-> "head", in |-> i] : i \in BoundedSeq(HeadLines, 4)}

\* A head read whole: lines read with res 0 up to an empty line, with a
\* non-empty line before it.
HeadRead(in) ==
    \E j \in 2..Len(in) :
        /\ \A k \in 1..j : in[k].res = 0
        /\ in[j].buf = Blank
        /\ \E k \in 1..j - 1 : in[k].buf # Blank

(***************************************************************************)
(* Replies of Redirect and ACME backends: two templates (one with $1, one *)
(* without), each stringbuf_finish failing or none; ACME files that open  *)
(* or fail to, fstat failing or not, of up to two bytes, whose reads give *)
(* up to two one-byte pieces: as many as st_size, fewer (the file shrank) *)
(* or more.                                                               *)
(***************************************************************************)
Redirects == {[code |-> c, url |-> u, redir_req |-> rr] :
                 c \in {301, 302}, u \in {<<104, 47, 36, 49>>, <<104>>}, rr \in BOOLEAN}
AcmeFiles == {[open |-> o, stat |-> st, size |-> n, data |-> d] :
                 o \in {"ok", "ENOENT", "EACCES"}, st \in BOOLEAN, n \in 0..2,
                 d \in BoundedSeq({[k |-> "data", n |-> 1]}, 2)}
ReplyCases ==
    {[kind |-> "reply", r |-> RedirectReply(be, <<47, 200>>, Submatches, TRUE, fl)] :
        be \in Redirects, fl \in {"none", "expand", "url", "cont"}}
      \cup {[kind |-> "reply", r |-> AcmeReply(f)] : f \in AcmeFiles}

(***************************************************************************)
(* Authorization values: Basic or another scheme, then up to four of a    *)
(* space, a double quote and the tokens.                                  *)
(***************************************************************************)
AuthCases ==
    {[kind |-> "auth", v |-> [scheme |-> sc, rest |-> r]] :
        sc \in {"basic", "other"}, r \in BoundedSeq({SPC, QUOTE} \cup Tokens, 4)}

(***************************************************************************)
(* Rewrite rules.  A rule is written as the text the configuration would  *)
(* hold for it: its conditions, its operations (a nested Rewrite with its *)
(* own End), then Else and the Else rule, with one End for the chain.     *)
(* Rules have at most one condition (URL, Header, NOT, a Match block) and *)
(* one operation; a nested Rewrite or an Else nests two deep, and an Else  *)
(* of an Else three deep.                                                  *)
(***************************************************************************)
RECURSIVE RenderCond(_), RenderBody(_)
RenderCond(c) ==
    CASE c.k = "Not"   -> <<"Not">> \o RenderCond(c.sub[1])
      [] c.k = "Match" -> <<"Match">> \o FlattenSeq([i \in DOMAIN c.sub |-> RenderCond(c.sub[i])]) \o <<"End">>
      [] OTHER         -> <<c.k>>
RenderBody(r) ==
    FlattenSeq([i \in DOMAIN r.cond |-> RenderCond(r.cond[i])])
    \o FlattenSeq([i \in DOMAIN r.ops |-> IF r.ops[i].k = "Rewrite"
                                           THEN <<"Rewrite">> \o RenderBody(r.ops[i].sub[1]) \o <<"End">>
                                           ELSE <<r.ops[i].k>>])
    \o (IF r.else # <<>> THEN <<"Else">> \o RenderBody(r.else[1]) ELSE <<>>)
Block(top, r) == <<top>> \o RenderBody(r) \o <<"End">>

Rule(c, o, e) == [cond |-> c, ops |-> o, else |-> e]
Opt(S) == {<<>>} \cup {<<x>> : x \in S}
ReqConds == {Leaf("URL"), Leaf("Header"), [k |-> "Not", sub |-> <<Leaf("URL")>>],
             [k |-> "Match", sub |-> <<Leaf("Header")>>]}
RespConds == {Leaf("Header"), [k |-> "Not", sub |-> <<Leaf("Header")>>],
              [k |-> "Match", sub |-> <<Leaf("Header")>>]}
Sub(r) == [k |-> "Rewrite", sub |-> <<r>>]
ReqRules0 == {Rule(c, o, <<>>) : c \in Opt(ReqConds), o \in Opt({Leaf("SetURL"), Leaf("SetHeader")})}
ReqRules1 == {Rule(c, o, e) : c \in Opt(ReqConds),
                 o \in Opt({Leaf("SetURL"), Leaf("SetHeader")} \cup {Sub(r) : r \in ReqRules0}),
                 e \in Opt(ReqRules0)}
RespRules0 == {Rule(c, o, <<>>) : c \in Opt(RespConds), o \in Opt({Leaf("SetHeader")})}
RespRules1 == {Rule(c, o, e) : c \in Opt(RespConds), o \in Opt({Leaf("SetHeader")} \cup {Sub(r) : r \in RespRules0}),
                 e \in Opt(RespRules0)}
RuleCases ==
    {[kind |-> "rewrite", top |-> t, r |-> r] : t \in {"Rewrite", "RewriteRequest"},
        r \in ReqRules1 \cup {Rule(<<Leaf("URL")>>, <<Leaf("SetHeader")>>, <<e>>) : e \in ReqRules1}}
    \cup {[kind |-> "rewrite", top |-> "RewriteResponse", r |-> r] :
        r \in RespRules1 \cup {Rule(<<Leaf("Header")>>, <<>>, <<e>>) : e \in RespRules1}}

\* Sections of up to three statements: Rewrite blocks with and without a
\* condition, and statements written in the section itself.
SectionBlocks ==
    {[top |-> "Rewrite", r |-> Rule(<<>>, <<Leaf("SetURL")>>, <<>>)],
     [top |-> "Rewrite", r |-> Rule(<<Leaf("URL")>>, <<Leaf("SetHeader")>>, <<>>)],
     [top |-> "Rewrite", r |-> Rule(<<>>, <<>>, <<Rule(<<Leaf("Header")>>, <<Leaf("SetURL")>>, <<>>)>>)],
     [top |-> "RewriteResponse", r |-> Rule(<<>>, <<Leaf("SetHeader")>>, <<>>)],
     [top |-> "RewriteResponse", r |-> Rule(<<Leaf("Header")>>, <<Leaf("DeleteHeader")>>, <<>>)]}
SectionStmts == SectionBlocks \cup {[top |-> w] : w \in {"SetURL", "SetHeader", "HeaderRemove"}}
StmtText(st) == IF "r" \in DOMAIN st THEN Block(st.top, st.r) ELSE <<st.top>>
SectionCases == {[kind |-> "section", stmts |-> ss] : ss \in BoundedSeq(SectionStmts, 3)}

\* Texts a response rule may be written with: conditions and operations of
\* a request rule inside it, directly, in a NOT, in a Match block, in an
\* Else and in the Else of an Else.
RespTexts ==
    {<<"RewriteResponse", "SetURL", "End", "End">>,
     <<"RewriteResponse", "URL", "SetHeader", "End", "End">>,
     <<"RewriteResponse", "Not", "URL", "SetHeader", "End", "End">>,
     <<"RewriteResponse", "Match", "URL", "End", "SetHeader", "End", "End">>,
     <<"RewriteResponse", "Header", "Else", "SetURL", "End", "End">>,
     <<"RewriteResponse", "Header", "Else", "Header", "Else", "SetURL", "End", "End">>}
TextCases == {[kind |-> "text", toks |-> t] : t \in RespTexts}

\* Request rules with a BasicAuth condition: directly, under NOT, in a
\* Match block, in an Else rule and in a nested Rewrite.
BA == Leaf("BasicAuth")
PassFileRules ==
    {Rule(<<BA>>, <<Leaf("SetURL")>>, <<>>),
     Rule(<<[k |-> "Not", sub |-> <<BA>>]>>, <<>>, <<>>),
     Rule(<<[k |-> "Match", sub |-> <<Leaf("URL"), BA>>]>>, <<>>, <<>>),
     Rule(<<Leaf("URL")>>, <<>>, <<Rule(<<BA>>, <<>>, <<>>)>>),
     Rule(<<Leaf("URL")>>, <<Sub(Rule(<<BA>>, <<Leaf("SetHeader")>>, <<>>))>>, <<>>)}
PassFileCases == {[kind |-> "passfile", r |-> r] : r \in PassFileRules}

\* Backend answers: a final head (HTTP/1.1 or 1.0; 101, 200 or 204; up to
\* two headers), alone or after a "100 Continue", to a GET or HEAD request
\* from an HTTP/1.1 client, with or without the WebSocket request flags, for
\* RPC_OUT_DATA or not, a backend readable or not before its timeout, and
\* three noHTTPS11 settings on a TLS listener.
RespHdrs ==
    {[code |-> "Connection", val |-> "close"], [code |-> "Connection", val |-> "upgrade"],
     [code |-> "Upgrade", val |-> "websocket"], [code |-> "TE", val |-> "chunked"],
     [code |-> "TE", val |-> "gzip"]} \cup {[code |-> "CL", val |-> n] : n \in {-1, 2, 4}}
FinalHeads == [v11 : BOOLEAN, code : {101, 200, 204}, hdrs : BoundedSeq(RespHdrs, 2)]
RespCtx == [head : BOOLEAN, ws : {{}, {"REQ_GET", "REQ_CONN", "REQ_UPGRADE"}}, rpc : {-1, 0},
            readable : BOOLEAN, cl11 : {TRUE}, https11 : {0, 1, 2}, ssl : {TRUE}, msie : {FALSE}]
RespCases ==
    {[kind |-> "resp", heads |-> p \o <<h>>, ctx |-> c] :
        p \in {<<>>, <<[v11 |-> TRUE, code |-> 100, hdrs |-> <<>>]>>}, h \in FinalHeads, c \in RespCtx}

\* RPC_IN_DATA bodies: a Content-length of 2 or 3, up to three bytes
\* already buffered and up to two socket reads of one or two bytes.
RpcInCases == [kind : {"rpcin"}, cont : {0, 2, 3}, pending : 0..3, reads : BoundedSeq({1, 2}, 2),
               readable : BOOLEAN]

Init == input \in AclCases \cup MaskCases \cup ChunkCases \cup CodecCases \cup LineCases \cup TemplateCases \cup HostCases
             \cup HeadCases \cup AuthCases \cup HostFileCases \cup ReplyCases
             \cup RuleCases \cup SectionCases \cup TextCases \cup PassFileCases \cup RespCases \cup RpcInCases
Next == UNCHANGED input
Spec == Init /\ [][Next]_input

(***************************************************************************)
(* Properties                                                              *)
(***************************************************************************)

\* An ACL parsed by parse_acl matches an address (acl_match returns 0)
\* exactly when the address is in one of the CIDRs written, with its
\* family: masklen_to_netmask builds the mask from the mask length and
\* cidr_match compares the masked bytes.
CidrMatchesPrefix ==
    input.kind = "acl" =>
        LET p == ParseAcl(input.toks) IN
        /\ p.rc = "ok"
        /\ (AclMatch(p.acl, input.sa) = 0) <=> \E w \in input.written : InPrefix(input.sa, w)

\* parse_cidr accepts a CIDR only with no mask or a mask length between 0
\* and the bits of the address, so that masklen_to_netmask stays within the
\* mask buffer and the ACL covers the prefix written.
MaskAsWritten ==
    input.kind = "mask" =>
        LET c == ParseCidr(input.tok) IN
        c # NoCidr => input.tok.mask.kind = "none"
                      \/ (input.tok.mask.kind = "num" /\ input.tok.mask.n <= 8 * c.len)

\* A URL put in a Location header by redirect_reply and sent back by the
\* client decodes, with decode_url, to the URL expanded: decode(encode(u))
\* is u (spec.md, section 8).
DecodeRoundTrip ==
    input.kind = "codec" => DecodeUrl(SafeUrl(input.u, input.signed)) = [rc |-> 0, url |-> input.u]

\* parse_http_request accepts a request line exactly when it is a method of
\* the table whose group the listener's verb allows, one URL without an
\* encoded NUL, and HTTP/1.0 or HTTP/1.1, separated by spaces; it returns
\* that method and version.
RequestLineParsed ==
    input.kind = "reqline" =>
        LET l == input.line
            r == ParseHttpRequest(l, input.verb)
        IN  /\ (r.rc = 0) <=> (WellFormedLine(l) /\ Methods[l[1].name] <= input.verb
                                /\ ~HasNulEscape(l[3]))
            /\ r.rc = 0 => r.method = l[1].name /\ r.version = (IF l[5].v = "HTTP/1.0" THEN 0 ELSE 1)

\* A Host condition built by parse_cond_host and host_prefix_regex matches
\* a Host header exactly when its value, after the spaces, equals, starts
\* with, ends with or contains the pattern, as its mode says (spec.md: the
\* flavours exact, prefix, suffix and contain).
HostMatchesMode ==
    input.kind = "host" =>
        LET c == ParseCondHost(input.opts, "POSIX", input.expr)
            v == SubSeq(input.line, 3, Len(input.line))
        IN  c.rc = 0 /\ (MatchRegex(c.re, input.line) <=> HostModeMatches(LastMode(input.opts), input.expr, v))

\* A Host condition read from a file by parse_cond_matcher_0 matches a Host
\* header exactly when one of the file's patterns, blanks trimmed and
\* comments skipped, matches it as the options' mode says: every line is
\* put through host_prefix_regex with the mode of the options.
HostFileMatchesMode ==
    input.kind = "hostfile" =>
        LET c    == ParseCondHostFile(input.opts, "POSIX", input.lines)
            v    == SubSeq(input.line, 3, Len(input.line))
            kept == {p \in {TrimLine(input.lines[k]) : k \in DOMAIN input.lines} : p # <<>> /\ Head(p) # HASH}
        IN  c.rc = 0 /\ (MatchAny(c.res, input.line) <=> \E p \in kept : HostModeMatches(LastMode(input.opts), p, v))

\* For a Redirect or ACME backend the client gets exactly one reply per
\* request: the one redirect_reply or acme_reply wrote, or the error
\* do_http sends with http_err_reply when they return another status, so
\* the next reply on a kept-alive connection is the next request's.
OneReplyPerRequest ==
    input.kind = "reply" => Len(SpecialReply(input.r, 3)) = 1

\* Every reply of a Redirect or ACME backend sends as many body bytes as
\* its Content-Length says, so that the client finds the next reply of
\* the connection where it starts.
RepliesFramed ==
    input.kind = "reply" =>
        LET sent == SpecialReply(input.r, 3) IN \A i \in DOMAIN sent : sent[i].len = sent[i].body

\* expand_url returns for every template: each iteration of its loop
\* moves past a '$'.
ExpandTerminates ==
    input.kind = "template" => ExpandUrl(input.url, <<47, 111>>, Submatches, FALSE).rc # "hang"

\* expand_url reads only the bytes of its template, up to its NUL.
ExpandInBounds ==
    input.kind = "template" => ExpandUrl(input.url, <<47, 111>>, Submatches, FALSE).rc # "overread"

\* A chunked request body copied with a positive max_req (copy_chunks's
\* tot_size check) never puts more than max_req bytes of chunk data on the
\* backend connection, whatever copy_chunks returns.
ChunkedBodyBounded ==
    input.kind = "chunks" /\ input.max > 0 => CopyChunks(input.in, input.max).bytes <= input.max

\* copy_chunks reports success (0) only when it has read the whole body,
\* up to the last chunk; otherwise the caller answers 500 and closes.
CompleteOnSuccess ==
    input.kind = "chunks" => (CopyChunks(input.in, input.max).rc = 0 => CopyChunks(input.in, input.max).last)
\* http_request_read succeeds only when get_line has read the request line
\* whole: a line cut by a control character, a lone CR or its length is
\* not taken as the request (get_line reports those as 1).
RequestLineWhole ==
    input.kind = "head" => (RequestRead(input.in).rc = 0 => HeadRead(input.in))

\* get_user frees the base64 BIO chain and the memory BIO at most once
\* each, on every path.
NoDoubleFree ==
    input.kind = "auth" =>
        \A r \in GetUser(input.v) : r.chainFrees <= 1 /\ r.memFrees <= 1

\* A quoted Basic value ("Basic \"dXNlcjpwdw==\"", which get_user takes
\* the quotes off) gives the user name as the unquoted value does.
QuotedCredentials ==
    input.kind = "auth" =>
        LET v == input.v IN
        (v.scheme = "basic" /\ \E k \in 0..2 : v.rest = [i \in 1..k |-> SPC] \o <<QUOTE, "UP", QUOTE>>)
            => \E r \in GetUser(v) : r.rc = 0

\* A Rewrite rule written in a section is read back as that rule, whatever
\* nests in it: parse_rewrite, the rule tables, parse_else and
\* parse_end_else close a chain of Else rules with one End and leave the
\* statements after it to the section.
RewriteParsed ==
    input.kind = "rewrite" =>
        ParseSection(Block(input.top, input.r) \o <<"End">>, EmptyChains)
            = Res(TRUE, <<>>, [EmptyChains EXCEPT ![RewriteTarget[input.top]] = <<input.r>>])

\* The rule lists of a section do what its statements say in order, each
\* Rewrite block as a rule and each SetHeader, SetURL or HeaderRemove
\* written in the section as an unconditional operation: joining such a
\* statement to the last rule (rewrite_rule_last_uncond) changes nothing.
SectionSameEffect ==
    input.kind = "section" =>
        LET p == ParseSection(FlattenSeq([i \in DOMAIN input.stmts |-> StmtText(input.stmts[i])]) \o <<"End">>,
                              EmptyChains)
            Own(st) == IF "r" \in DOMAIN st THEN st.r ELSE Rule(<<>>, <<Leaf(BareOp[st.top])>>, <<>>)
            Want(h) == SelectSeq([i \in DOMAIN input.stmts |-> input.stmts[i]],
                                 LAMBDA st : (IF "r" \in DOMAIN st THEN RewriteTarget[st.top] ELSE "request") = h)
        IN  /\ p.ok
            /\ \A env \in [{"URL", "Header"} -> BOOLEAN], h \in {"request", "response"} :
                  ApplyChain(p.val[h], env) = ApplyChain([i \in DOMAIN Want(h) |-> Own(Want(h)[i])], env)

\* A response rule holds only what the response tables name: Header,
\* StringMatch, Match and NOT conditions over them, SetHeader and
\* DeleteHeader, in every Else and nested Rewrite.
RECURSIVE RespCond(_), RespRule(_)
RespCond(c) == c.k \in ResponseConds /\ \A i \in DOMAIN c.sub : RespCond(c.sub[i])
RespRule(r) ==
    /\ \A i \in DOMAIN r.cond : RespCond(r.cond[i])
    /\ \A i \in DOMAIN r.ops : IF r.ops[i].k = "Rewrite" THEN RespRule(r.ops[i].sub[1])
                                                        ELSE r.ops[i].k \in ResponseOps
    /\ r.else # <<>> => RespRule(r.else[1])
ResponseRulesResponseOnly ==
    input.kind = "text" =>
        LET p == ParseSection(input.toks, EmptyChains) IN
        p.ok => \A i \in DOMAIN p.val.response : RespRule(p.val.response[i])


\* Every BasicAuth condition of a listener's request rules has its
\* password file fixed up after parsing (listener_pass_file_fixup), where
\* in the rule it is: its conditions, NOT and Match, Else and nested
\* Rewrite rules.
RECURSIVE AuthCount(_)
AuthCount(r) ==
    LET RECURSIVE C(_)
        C(c) == (IF c.k = "BasicAuth" THEN 1 ELSE 0)
                  + FoldSeq(LAMBDA x, acc : C(x) + acc, 0, c.sub)
    IN  FoldSeq(LAMBDA x, acc : C(x) + acc, 0, r.cond)
        + FoldSeq(LAMBDA o, acc : (IF o.k = "Rewrite" THEN AuthCount(o.sub[1]) ELSE 0) + acc, 0, r.ops)
        + (IF r.else # <<>> THEN AuthCount(r.else[1]) ELSE 0)
PassFileFixedUp ==
    input.kind = "passfile" =>
        LET p == ParseSection(Block("Rewrite", input.r) \o <<"End">>, EmptyChains) IN
        p.ok /\ ListenerPassFileFixup(p.val) = AuthCount(input.r)


\* How a client reads the body after a forwarded head (RFC 9112, 6.3): none
\* for HEAD, 1xx, 204 and 304; chunks when Transfer-encoding ends in
\* chunked on HTTP/1.1, else until close; the Content-length when all
\* agree; otherwise the framing is bad.
ClientFraming(h, head) ==
    LET te == SelectSeq(h.hdrs, LAMBDA x : x.code = "TE")
        cl == SelectSeq(h.hdrs, LAMBDA x : x.code = "CL")
    IN  CASE head \/ h.code \in 100..199 \/ h.code \in {204, 304} -> [by |-> "none", n |-> 0]
          [] te # <<>> -> [by |-> IF h.v11 /\ Last(te).val = "chunked" THEN "chunked" ELSE "close", n |-> 0]
          [] cl # <<>> -> IF \A i \in DOMAIN cl : cl[i].val = cl[1].val /\ cl[1].val >= 0
                          THEN [by |-> "len", n |-> cl[1].val] ELSE [by |-> "bad", n |-> 0]
          [] OTHER     -> [by |-> "close", n |-> 0]
\* What pound copies after it.
CopiedFraming(r) ==
    [by |-> IF r.mode \in {"eof", "ws"} THEN "close" ELSE r.mode, n |-> IF r.mode = "len" THEN r.st.cont ELSE 0]
\* An answer whose head has at most one framing header, a Transfer-encoding
\* only as chunked on HTTP/1.1 and where a body may follow.
WellFramed(h, head) ==
    LET fr == SelectSeq(h.hdrs, LAMBDA x : x.code \in {"TE", "CL"}) IN
    /\ Len(fr) <= 1
    /\ \A i \in DOMAIN fr : fr[i].code = "TE" => fr[i].val = "chunked" /\ h.v11 /\ ~head /\ h.code \notin RespIgnCodes

\* When do_http keeps the client connection after an answer, it has copied
\* the body exactly as the client delimits it, so the next answer starts
\* where the client expects one; for every well-framed answer from a
\* backend that is readable in time (100 skipped, 101 tunnels, RPC_OUT_DATA
\* streams, noHTTPS11 and Connection: close included).
ResponseFramingAgrees ==
    input.kind = "resp" /\ input.ctx.readable /\ WellFramed(Last(input.heads), input.ctx.head) =>
        LET r == HandleResponse(input.heads, input.ctx) IN
        r.ok /\ r.keep.client => CopiedFraming(r) = ClientFraming(input.heads[r.fwd], input.ctx.head)

\* The same for every answer a backend may send: two Content-length values,
\* a Transfer-encoding with a Content-length, or one that is not chunked.
ForwardedFramingAgrees ==
    input.kind = "resp" =>
        LET r == HandleResponse(input.heads, input.ctx) IN
        r.ok /\ r.keep.client => CopiedFraming(r) = ClientFraming(input.heads[r.fwd], input.ctx.head)


\* An RPC_IN_DATA body reaches the backend whole, through EOF, when the
\* client sends at most its Content-length, however the bytes are split
\* between the input buffer and the socket reads; a longer one is cut off
\* with no byte past the Content-length written.  A body that is not
\* readable within the client time-out is not read at all.
RpcInBounded ==
    input.kind = "rpcin" =>
        LET total == input.pending + FoldLeft(LAMBDA a, b : a + b, 0, input.reads)
            r == RpcInCopy(input.pending, input.reads, input.cont, input.readable)
        IN  /\ r.bytes <= input.cont
            /\ r.copied => /\ (total <= input.cont) = r.ok
                           /\ r.ok => r.bytes = total

=============================================================================
