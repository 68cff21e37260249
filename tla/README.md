# TLA+ models of pound's request path

These modules model the parts of pound (a reverse proxy and load balancer) that decide what happens to a request:
- the header checks of `do_http`;
- the per-connection keep-alive loop of `do_http`, run by several worker threads;
- the balancer those workers share;
- the DNS resolver that turns backend host names into addresses;
- the ACLs of the configuration file;
- the copying of chunked bodies;
- the request line parser and the URL decoder;
- redirect and ACME backends: the URL template, the Location encoding and the reply;
- the I/O time-outs of the client and backend connections;
- the header list, the reading of a request head, and the Basic credentials of the log;
- the Rewrite rules of the configuration file.

All sources are under `src/src/` (`http.c`, `resolver.c`, `config.c`). `svc.c` and `pound.c` are not in the repository, so the balancer and the response regexes are modelled from `spec.md`. Those definitions are marked `spec_modelled` in `PROJECT.json`.

## The system and how its parts interact

| Part | Source | State | Operations |
|---|---|---|---|
| Worker threads | `thr_http` (http.c 2979) | one `do_http` activation per worker | dequeue a connection, run `do_http`, free it |
| Header checks | `do_http` 1814–2035 | `chunked`, `cont`, `is_rpc`, `is_ws`, `conn_closed`, the header list | one case per header code; the CL+TE guard; the `max_req` guard |
| Keep-alive loop | `do_http` 1814–2968 | `cl_11`, `be_11`, `no_cont`, `skip`, `cur_backend`, `arg->be` | read request, route, connect/retry, send, read response heads, copy body, keep or close |
| Balancer | `get_backend`, `kill_be`, ticker (svc.c; spec 4.4/4.5) | `alive` per backend, `tot_pri` per group | pick a backend by weighted random walk; kill; resurrect |
| DNS resolver | `dns_lookup`, `dns_query` (resolver.c 260–450) | the answers of the A and AAAA queries, `rc_a`, the CNAME hash, the response | query A and/or AAAA, follow the CNAME chain, merge into one address list |
| ACLs | `parse_acl` … `acl_match` (config.c 397–690) | the list of CIDRs of an ACL, the named ACLs | parse a CIDR, build its netmask, match an address |
| Host conditions | `parse_match_mode`, `host_prefix_regex`, `stringbuf_escape_regex`, `parse_cond_matcher_0`, `parse_cond_host` (config.c 1224–1401, 1448–1538, 1686) | — | read the mode options, build the POSIX regex over the `Host:` header, or one per line of a `-file` |
| Chunked body copy | `copy_chunks`, `copy_bin`, `get_line` (http.c 231–539) | `tot_size`, the bytes copied, the input stream | read a size line, copy the data, read the CRLF, read the trailers |
| Request line | `find_method`, `decode_url`, `parse_http_request` (http.c 1104–1278) | — | split the line, look the method up, check the version, decode the URL |
| Redirects and ACME | `expand_url`, `redirect_reply`, `acme_reply`, `err_reply` (http.c 64–306), their caller in `do_http` (2460–2488) | — | fill `$n` from the submatches, percent-encode the Location, send the page or the file, or an error reply |
| I/O time-outs | `bio_callback`, `set_callback` (http.c 542–689), their setup in `do_http` (1732–1756, 2148–2162) | `ba1`, `ba2` (time-out per BIO), `reneg_state` | poll before each read or write, mark the BIO timed out, abort on renegotiation |
| Header list and request head | `qualify_header`, `http_header_*`, `http_header_list_*`, `http_request_read`, `http_request_free` (http.c 708–1015) | the list of headers, each with its text, code and cached value | qualify a text, append, change, remove, locate, cache a value, read a head |
| Rewrite rules | `parse_rewrite`, the rule and Else tables, `parse_end_else`, `parse_match`, `parse_not_cond`, `rewrite_rule_last_uncond` (config.c 1966–2506) | the request and response rule lists of a section | read a Rewrite block, its conditions, operations, nested Rewrites and Else chain; join a section-level SetHeader/SetURL/HeaderRemove to the last unconditional rule; after parsing, fix up the BasicAuth password files of each listener's request rules (config.c 4988–5088) |
| Response heads | the 100 loop, the header scan and the body choice of `do_http` (http.c 2505–2733), `noHTTPS11` (2441–2457), the end of the loop (2950–2968) | `be_11`, `skip`, `no_cont`, `is_ws`, `chunked`, `cont`, `conn_closed`, `is_rpc`, `force_10` | read heads while they are 100, scan each one's headers, pick the body mode, keep or close both connections |
| RPC_IN_DATA body | `do_http` (http.c 2342–2418) | `res_bytes` | copy the buffered bytes one by one, then socket blocks until EOF, stopping past the Content-length |
| Basic credentials | `get_user` (http.c 1027–1094) | — | strip the scheme and quotes, base64-decode, cut at `:` |
| Backend servers | outside pound | the bytes on each backend connection | answer, answer late, close an idle connection |

How the parts interact:
- Workers share only the balancer. The runs use one worker: the balancer's behaviour under concurrent `kill_be` calls depends on `svc.c`, which is not in the repository (see Not modelled).
- A worker keeps its backend connection (`arg->be`) across requests of one client connection. That is where most of the hard behaviour lives:
  - the connection is checked for EOF once, before routing (2040);
  - it is closed when the new request goes to another backend (2082);
  - it is closed after the answer unless the server spoke HTTP/1.1 (2949).
- The worker reads response heads in a loop that skips only `100 Continue` (2505–2524).
- The body is copied in one of four modes: length, chunked, until EOF, or WebSocket tunnel (2689–2936).

## Modules

- **`HttpRequestCheck`** models the header loop of `do_http` as a state machine over one request.
  - **State:**
    - `i`, the header being scanned;
    - the C locals `chunked`, `cont`, `is_rpc`, `is_ws`, `conn_closed`;
    - `hdrs`, the list that will be forwarded;
    - `status`, which is scanning, ok, or the error reply;
    - `framing`, the body-copy branch chosen at 2304–2343.
  - **Actions:**
    - `ScanHeader` handles one header, using `ScanContentLength` and `ScanTransferEncoding` for those cases;
    - `CheckRequest` applies HeaderRemove, the CL+TE guard and the 413 guard, and chooses the framing.
  - **Data abstraction:**
    - a header is a record: code, value, and whether the Content-length value parses, is a list, or is junk;
    - Content-length values and the RPC window (0x20000..0x80000000) are scaled to small integers that keep their order.
- **`Balancer`** (spec-modelled) models get_backend, kill_be and the ticker.
  - **State:** `alive` and `totPri`.
  - **get_backend:**
    - `GetBackend` is the set of backends the random walk can return, one for each draw r in [0, tot_pri);
    - the group used is the normal group while any of its backends is alive and enabled, otherwise the emergency group.
  - **kill_be:** `KillBe` recomputes `tot_pri` from `alive` in the same step (spec.md 4.5; the code is in `svc.c`, not in the repository).
  - **Ticker:** `Resurrect` adds the backend's priority back.
- **`Proxy`** (EXTENDS Balancer) models the keep-alive loop of `do_http` on each worker. It has one record `frame[w]` per worker, holding the locals of `do_http` under their C names.
  - **Backend connection:** a record `[b, arrived, transit]`.
    - What the server wrote and the network has not yet delivered is in `transit`.
    - What `is_readable` and `BIO_pending` can see is in `arrived`.
  - **Items on a connection:** response heads, bodies and the server's close.
  - **Server behaviour:** the server answers each request it receives with `Replies` and may close an idle connection at any time.
  - **Worker actions** follow the code in order:
    - `Accept`, `ClientEof`;
    - `RecvRequest`: parsing, the stale-connection check, `get_service`, `get_backend` and the close of a mismatched connection;
    - `ConnectOk`, `ConnectFail` (kill_be), `Reroute` (the second get_backend);
    - `Send`: redirect backend, write failure, RPC_IN_DATA, or a request answered by the server;
    - `ReadResponse`, `ResponseTimeout`;
    - `BodyCopy`, `LenFail` (`copy_bin` meets EOF or a time-out), `ChunkedEnd` (`copy_chunks` meets EOF or a time-out at a chunk-size line, which `get_line` reports as 1 and `copy_chunks` as success), `EofNotReadable`, `EofStart`, `StreamCopy`, `StreamEnd`. A body is one item of the stream: the servers write whole bodies, so the chunk-format failures of `copy_chunks` are not reached here (`BodyCopy`'s `CopyChunks` covers them).
  - **Shared and environment actions:** `EndOfRequest` and `AfterBody` are the end of a pass of the loop. `Deliver` and `ServerClose` are the network and the server. `Revive` is the ticker.
  - **Requests** are abstracted to their class (`GET`, `HEAD`, `WS`, `RPC_IN`, and `BAD` for anything the header checks refuse), the client's version, and `Connection: close`.
- **`Resolver`** models `dns_lookup` and the `dns_query` calls it makes, as one lookup.
  - **Environment:** adns is not in the repository. Its answer to a query is computed from a zone (a map from name to CNAME target, addresses and TTL) by `Answer`. The constant `Zones` holds several versions of the zone, and each query may see any of them, because the zone can change between queries. With `Faults`, adns may also time out or return an errno.
  - **State:** `lpc` and `qpc` are the program counters of `dns_lookup` and `dns_query`. `rc_a`, `ans_a`, `ans_aaaa`, `rc` and `resp` are the locals of `dns_lookup`; `qtype`, `ans`, `qrc`, `hash` and `cname_count` are those of `dns_query`. `nq` counts adns calls.
  - **Actions:** `StartQuery`, `QueryFirst`, one action per branch of the CNAME loop (`ChainCname`, `ChainSysError`, `ChainNodata`, `ChainOther`, `ChainExit`), `QueryStatus`/`QueryAnswer`, `LookupA`, `LookupAAAAOnly`, `AfterA`, `AfterAAAA`, `Merge`, `MergeNoMem`.
  - **Uninitialised `rc_a`:** for PF_INET6 the code never sets `rc_a` and then reads it; `LookupAAAAOnly` chooses any status for it.
  - **Reference:** `Resolve` (RECURSIVE) follows the chain in a zone and gives the addresses the comment of `dns_query` promises.
- **`Acl`** models the ACL code of `config.c` as operators: `ParseAcl`/`AclBody` over a token stream, `ParseCidr`, `StrToUlMask` (what `strtoul` makes of the text after `/`), `MasklenToNetmask`, `CidrMatch`, `AclMatch`, and the named ACL list (`ParseNamedAcl`, `ParseAclRef`, `AclByName`). A mask length is given as the two numbers the code computes from it, `(int)(masklen / 8)` and `masklen % 8`, so `-1` (`ULONG_MAX`) and lengths past the buffer keep their real effect.
- **`BodyCopy`** models `copy_chunks`, `copy_bin` and `get_line` as RECURSIVE operators over a stream of items: a line `get_line` returns (a chunk-size line with its value, an empty line, other text), a line it rejects, chunk data of n bytes, and the end of the stream. `LONG` is `LongBits` wide: `StrtolHex` saturates at `LongMax` as `strtol` does, and `WrapLong` wraps `tot_size += cont`.
- **`RequestLine`** models `decode_url` byte by byte (`Decode`, `HexVal`) and `parse_http_request` (`ParseHttpRequest`, `FindMethod`, `MethodRefused`) over a line abstracted to words and runs of spaces. A method word is a name of the method table or another name, with or without characters after it. That is all `find_method`'s prefix comparison can tell apart.
- **`Redirect`** models `expand_url` (`Expand`, `ExpandUrl`) over byte strings. An iteration that leaves `url` where it was gives `"hang"`, and stepping over the terminating NUL gives `"overread"`. `SafeUrl` models the encoding loop of `redirect_reply`, including `printf("%02x")` of a `char` that may be signed (`Printf02x`).
- **`HostMatch`** models the Host condition of `config.c`. `ParseMatchMode`/`MatchMode` reads the options before the pattern, and `HostPrefixRegex` builds the regex, with `EscapeRegex` escaping the pattern. A regex is a sequence of elements: the anchors, the `Host:` text, `[[:space:]]*`, `.*`, and escaped or raw bytes. `MatchAt`/`MatchRegex` is a reference for what `regexec` does with those elements; it is libc, not pound, so it is not mapped.
  - `ParseCondHostFile` is the `-file` branch of `parse_cond_matcher_0`. `TrimLine` trims each line, empty and `#` lines are skipped, and `HostFileRegexes` builds one regex per line. It passes the `gp_type` that `host_prefix_regex` left behind on to the next line, as the C variable is shared. `MatchAny` is the OR condition of those regexes.
- **`BioTimeout`** models the time-outs of one `do_http` activation. The variable `ba` holds the time-out of `ba1` (client) and of `ba2` (backend), and whether the current BIO of each side carries the callback. `reneg` is `reneg_state`.
  - `Setup` is the start of `do_http`. `BackendConnect` is a new backend BIO, with `ba2` set only when `backend->to > 0`.
  - `Callback` is one whole call of `bio_callback`, with the outcome of `poll` chosen: the requested event, another event, a time-out, or an error. `timeout * 1000` wraps at `IntBits`, as the build's `int` does.
  - `HandshakeDone` and `HandshakeStart` stand for the TLS info callback, which is not in the repository. They are modelled from spec.md's description of renegotiation cancellation.
  - `timedOut` and `last` are history: the BIOs on which a poll timed out, and the last call's result.
- **`HeaderList`** models the header helpers of `http.c` as operators over a list of headers `[text, code, value]`.
  - A text is abstracted to its name (a name of `qualify_header`'s table or another one), whether characters follow the name, and its value; `Bad` is a text the HEADER regex does not match.
  - `Qualify` is `qualify_header`. `HeaderAlloc`, `HeaderChange`, `HeaderGetValue` and `HeaderCopyValue` are the `http_header_*` helpers. `ListAppend`, `ListAppendList`, `ListRemove`, `ListLocate` and `RequestHeaderValue` are the list operations.
  - `RequestRead` is `http_request_read` over what `get_line` returns for each line: `FirstLine` skips empty lines, and `ReadHeaders` reads header lines up to an empty one.
- **`BasicAuth`** models `get_user`. `Credentials` strips the scheme, the spaces and the quotes, with the code's index arithmetic. The base64 BIO is not in the repository, so `Decoded` gives the set of results it may return for the bytes handed to it. `GetUser` is the set of outcomes, counting the `BIO_free_all` and `BIO_free` calls.
- **`SpecialReply`** (EXTENDS Redirect, BodyCopy) models the replies `do_http` sends itself.
  - `RedirectReply` is `redirect_reply`, with a choice of which `stringbuf_finish` fails. `AcmeReply` is `acme_reply`: the file opens or not, `fstat` succeeds or not, and `copy_bin` (`CopyBin`) reads what the file gives.
  - `SpecialReply` is the caller, which adds `http_err_reply` (`ErrReply`) when the status is not OK.
  - A reply written to the client is its status, the Content-Length sent and the body bytes that follow.
- **`RewriteRules`** models the Rewrite statements of `config.c` as RECURSIVE operators over a text abstracted to its keywords. Arguments are left out. `URL` stands for the request-only conditions, `Header` for those a response rule has too, and `SetURL` for the request-only operations. `BasicAuth` is a condition of its own, for the password-file fix-up that `parse_config_file` runs on every listener's request rules after parsing (`CondFixup`, `RuleFixup`, `PassFileFixup` and `ListenerPassFileFixup` count the BasicAuth conditions each one visits).
  - **Parser tables:** there is one definition per table: `RuleTab`, `ElseTab`, `RespTab`, `RespElseTab` and `LogconTab`. Each says what `End` does there (`cfg_parse_end`, or `parse_end_else`, which puts the End back), which tables a nested Rewrite and an Else use, and which keywords its soft references admit.
  - **Parsing:** `ParseLoop` stands for `cfgparser_loop` over a table, which is not in the repository. `ParseMatch` and `ParseNot` are `parse_match` and `parse_not_cond`. `ParseSection` is a listener section's Rewrite statements. `LastUncondAppend` is `rewrite_rule_last_uncond`.
  - **Semantics** (spec-modelled, spec.md 4.2): `ApplyChain` gives the operations a rule list applies, for a choice of which basic conditions hold.
- **`ResponseHead`** models how `do_http` takes a backend's answer, as operators over the heads the backend sends. A head is `[v11, code, hdrs]`: `v11` is the byte at offset 7 of its line, and each header is its `qualify_header` code with an abstract value (a Content-length is the number `ATOL` reads).
  - `ReadHead` is one pass of the `for (skip = 1; skip;)` loop: `be_11`, `skip`, `no_cont` (set by RESP_IGN, cleared by chunked), the 101 flag, then `ScanRespHeader` folded over the headers in order (Connection, Upgrade, Transfer-encoding, Content-length with the RPC_OUT_DATA window; Location and Content-location only change text). `ReadResponses` is the loop.
  - `RespBodyMode` is the branch after the head is sent: chunked (HTTP/1.1 only), `cont` bytes, until EOF when the backend is readable in time, the WebSocket tunnel, or nothing. `NoHttps11Force` is the `noHTTPS11` switch and `KeepAfter` the end of the loop: which of the client and backend connections stay open. `HandleResponse` puts them together.
  - RESP_SKIP, RESP_IGN and CONN_UPGRD are compiled outside `src/` and are spec-modelled: an HTTP/1.1 100 is skipped; 1xx other than 100, 204 and 304 have no content (the comment at their use). A skipped head's body is read and discarded when the state after it selects chunks or a length (`dropped` counts them); each head stands for itself and its body.
- **`BodyCopy`** also has `RpcInCopy`, the `RPC_IN_DATA` branch of `do_http`: `RpcInCopy` enters the branch only for `cont > 0` and a client readable within its time-out; `RpcInPending` counts the buffered bytes one by one and `RpcInReads` the socket blocks, each stopping before writing what takes `res_bytes` past `cont`.
- **`ClientSession`** is the abstract specification of one client connection per worker.
  - **State:** `open`, `n` (the requests read) and `ans` (the request the last answer was for).
  - **Actions:** `Open`, `Request` (only the first request or one after an answer), `Answer` (once per request), `Close` (at any point).
  - **Refinement:** `Proxy` instantiates it as `Session` with `open` ← the worker is not idle, `n` ← `nreq`, and `ans` ← `fwd`, the request whose answer was forwarded. `SessionRefined` is `Session!Spec`, checked as a property.
- **`MC_HttpRequestCheck`**, **`MC_Proxy`** and **`MC_Resolver`** instantiate the models for TLC. **`MC_Operators`** checks `Acl`, `BodyCopy`, `RequestLine`, `Redirect`, `HostMatch`, `HeaderList`, `BasicAuth`, `RewriteRules` and `SpecialReply`. Its one variable holds an input chosen in `Init`: an ACL and an address; a chunked body and a `max_req`; a URL; a request line and a `verb`; a redirect template; Host options, a pattern or a file of patterns, and a Host header; the lines of a request head; a sequence of calls on a header list; an Authorization value; the reply of a Redirect or ACME backend; or a Rewrite rule, a section of Rewrite statements, a response-rule text, a request rule with a BasicAuth condition, the heads of a backend's answer with the request's context, or an RPC_IN_DATA body split between the buffer and the socket. Its properties compare the operators' results with reference definitions.

## Runs

| Run | cfg | Expect | What it shows |
|---|---|---|---|
| request_check | MC_HttpRequestCheck.cfg | pass | For all 21,696 requests of ≤3 headers from an alphabet that reaches every branch: an accepted request never carries both chunked and a Content-length (`NoDualFraming`); a length-copied body has exactly the length forwarded (`CopiedLengthIsAnnounced`); a body bypasses `max_req` only inside the RPC window (`BodyBounded`). |
| keepalive | MC_Proxy.cfg | pass | One worker and two connections of two requests each. Requests cover every class; servers are HTTP/1.0 or 1.1, keep or close, and may send 100 Continue; two connect failures occur and the ticker runs. Each request goes to the backend chosen for it (`ReqOnChosenBackend`), and every head passed to the client answers the current request (`ResponseMatchesRequest`). The worker keeps the promise of `ClientSession`: requests one at a time, each answered at most once, by its own answer (`SessionRefined`). |
| early_hints | MC_Proxy_EarlyHints.cfg | violation | A `103` head ends the response loop. The final answer arrives after the next request's EOF check and is passed to the client as the answer to that request. With `SessionRefined` as its property instead, TLC finds that the same configuration breaks the `ClientSession` promise. |
| head_chunked | MC_Proxy_Head.cfg | violation | A server answers HEAD with `Transfer-encoding: chunked` and no body, as RFC 9110 allows. The header scan clears `no_cont`, so `do_http` enters `copy_chunks` for a body that never comes (`HeadResponseHasNoBody`, the comment on `if (!no_cont)`); the backend read time-out ends the wait, `copy_chunks` reports it as success, and the connection goes on. Each such HEAD holds a worker for the whole time-out. |
| eof_keepalive | MC_Proxy_EofKeepAlive.cfg | violation | A close-delimited body that is not readable within the backend timeout is skipped, and both connections are kept for another request. |
| resolver | MC_Resolver.cfg | pass | Lookups of every family while the zone changes between queries and adns may time out or fail: A is queried only when the family asks for it (`FamilyRespected`), and one lookup makes at most `MaxCnameChain + 3` adns calls (`QueriesBounded`). |
| resolver_aaaa_overwrite | MC_Resolver_Overwrite.cfg | violation | A PF_UNSPEC lookup of a name with A and AAAA records stores the AAAA addresses from index 0 over the A addresses and returns zeroed entries in their place. |
| bio_timeout | MC_BioTimeout.cfg | pass | A client BIO and two backend connections sharing `ba2`, with every poll outcome and a rejected client renegotiation. ETIMEDOUT is reported only for a BIO on which a poll timed out (`NoSpuriousTimeout`): a time-out of 0 never fails an operation, and the `err_to` that a timed-out backend connection leaves in the shared `ba2` never fails the next one, since `ba2` is reset by the same test that installs the callback. |
| operators | MC_Operators.cfg | pass | For 71,311 inputs: an ACL of one or two CIDRs (IPv4 with every mask length 0..32, IPv6 with lengths at and around byte edges, with blank lines and an Include) matches exactly the addresses within the prefixes written, of their family (`CidrMatchesPrefix`); a chunked body of up to three chunks of sizes 1..3 never copies more than `max_req` bytes (`ChunkedBodyBounded`); every ASCII URL of up to three bytes, encoded by `redirect_reply` with char signed or not, decodes back to itself (`DecodeRoundTrip`, spec.md §8); `parse_http_request` accepts a line exactly when it is METHOD SP URL SP HTTP/1.0 or 1.1, with a method the `verb` allows and no `%00`, and returns that method and version (`RequestLineParsed`); a Host condition with `-beg`, `-end` or `-contain` (and `-icase`) matches exactly the headers whose value begins with, ends with or contains the pattern, with `.` taken literally (`HostMatchesMode`); a Redirect or ACME backend sends exactly one reply per request, whatever fails (`OneReplyPerRequest`); a Rewrite rule with nested Rewrites, NOT, Match and an Else chain closed by one End is read back as written (`RewriteParsed`); and a section's rule lists apply what its statements say, in order, when `rewrite_rule_last_uncond` joins a section-level statement to the last rule (`SectionSameEffect`); whenever `do_http` keeps the client connection after a well-framed answer (one framing header; 100 skipped, 101, 204, HEAD, RPC_OUT_DATA, `noHTTPS11` and Connection: close included), it has copied the body exactly as the client delimits it (`ResponseFramingAgrees`); and an RPC_IN_DATA body reaches the backend whole when it is no longer than its Content-length, and otherwise no byte past it is written, and nothing is read when the client is not readable in time (`RpcInBounded`). |
| chunk_max_overflow | MC_Operators_ChunkOverflow.cfg | violation | A chunk of size 1 followed by one above `LONG_MAX` wraps `tot_size` negative, passes the `max_req` check, and copies `LONG_MAX` bytes. |
| host_exact | MC_Operators_HostExact.cfg | violation | A Host condition without options, or with `-exact`, is anchored only at the start: the pattern `.` matches the Host header `..`, so `Host "a.example"` also selects `a.example.evil`. |
| double_free | MC_Operators_DoubleFree.cfg | violation | An `Authorization: Basic` header with nothing decodable after it makes `get_user` free the base64 BIO chain twice (`NoDoubleFree`). A client can send it to any listener that logs the user name. |

Other disagreements are kept as cfgs that reproduce them. They are not among the runs, whose number is capped, and `PROJECT.json` records them as hazard notes:
- `MC_HttpRequestCheck_MultipleCLRejected.cfg`: `Content-length: -1` then `Content-length: 0` is accepted, because -1 is the `L_1` sentinel and the duplicate test misses it (`MultipleCLRejected`);
- `MC_Operators_MethodPrefix.cfg`: `GETX / HTTP/1.1` is parsed as GET, since `find_method` compares only the length of the table's name;
- `MC_Operators_ExpandOverread.cfg`: a template ending in `$` steps past its NUL (`ExpandInBounds`);
- `MC_Operators_SignedChar.cfg`: where char is signed, the byte 0xe9 is encoded as `%ffffffe9` and does not decode back to itself;
- `MC_HttpRequestCheck_ChunkedBodyForwarded.cfg`: an HTTP/1.0 request with `Transfer-encoding: chunked` is accepted and the header forwarded, but the body is never copied;
- `MC_Proxy_Retries.cfg`: the ticker revives a killed backend between failures, so one request tries three connects in a group of two;
- `MC_Resolver_Chain.cfg`: n0 → n1 → n2 is reported as resolved with no addresses. Each round of the CNAME loop queries the original name again, finds the same target, and takes it for a loop (`ResolvedAddresses`; the `resolver_aaaa_overwrite` run keeps that property among the runs);
- `MC_BioTimeout_Overflow.cfg`: a client time-out whose value times 1000 leaves the `int` range makes every operation fail with ETIMEDOUT at once (`NoSpuriousTimeout`). `int` is narrowed to 16 bits there, where 40 s wraps; with 32 bits the limit is 2147483 s;
- `MC_Resolver_NxDomain.cfg`: a name whose CNAME target does not exist is reported as found, with no addresses;
- `MC_Resolver_Expires.cfg`: a PF_INET6 lookup gets expiry 0, since only the A answer's expiry is used;
- `MC_Resolver_UninitRcA.cfg`: with the uninitialised `rc_a`, a failed AAAA query can still be merged;
- `MC_Operators_ChunkTruncated.cfg`: a chunked body that ends (or has a rejected line) where a chunk-size line is expected is reported as copied successfully (`CompleteOnSuccess`);
- `MC_Operators_Mask.cfg`: `/200` writes past the mask buffer, `/-1` is taken as `/7`, and a bare `/` as `/0` (`MaskAsWritten`).
- `MC_Operators_ExpandHang.cfg`: a redirect template with `$` before anything other than a digit, `$` or its end (`$/` here) makes `expand_url` loop forever (`ExpandTerminates`);
- `MC_Operators_RequestLineCut.cfg`: a request line that `get_line` rejects (result 1) is taken as read, so a head cut off there is parsed as complete (`RequestLineWhole`);
- `MC_Operators_QuotedAuth.cfg`: `Basic "UP"` is refused, because `get_user` looks for the closing quote one byte past it (`QuotedCredentials`);
- `MC_Operators_HostFile.cfg`: in a `-end` file of two patterns, the second is compiled as a raw POSIX regex, since `host_prefix_regex` set the shared `gp_type` to POSIX on the first line; its `.` then matches any byte and the suffix anchor is gone (`HostFileMatchesMode`). With `gp_type` kept per line, the property holds;
- `MC_Operators_ResponseRules.cfg`: a response rule is refused with `SetURL` or a URL condition written directly in it, but accepted with `SetURL` in the Else of an Else, with `Not URL`, or with URL in a Match block. `response_else_rule_parsetab` names `parse_else`, the request Else, and NOT and Match read their operands with the request tables (`ResponseRulesResponseOnly`);
- `MC_Operators_RespFraming.cfg`: for answers with any headers, the client connection is kept after a body copied otherwise than the client delimits it. Two Content-length values are copied by the last; Transfer-encoding gzip beside a Content-length is copied by the length while the client reads to the close; HTTP/1.0 chunked with a Content-length is copied by the length; chunked followed by gzip is copied as chunks; a 204 with chunked waits for chunks; and a close-delimited body not readable in time copies nothing but keeps both connections (`ForwardedFramingAgrees`). The next answer is then read from the wrong offset;
- `MC_Operators_PassFile.cfg`: a BasicAuth condition is fixed up directly in a request rule, under NOT, in a Match block and in an Else rule, but not in a Rewrite nested in the rule. `rule_pass_file_fixup` walks the conditions and the Else chain, never the operations, so that condition keeps no password-file directory (`PassFileFixedUp`);
- `MC_Operators_AcmeShort.cfg`: an ACME file that is shorter when read than `fstat` said gets its full Content-Length but fewer bytes, and `acme_reply` still returns OK, so the connection is kept (`RepliesFramed`).

Each property of a passing run has a mutant in `PROJECT.json`, a plausible slip in the code it is about, and TLC finds that mutant's violation. The mutants are defined in the modules just before the definition they replace:
- a missing `cur_backend` comparison (`CloseIfOtherBackend_Never`);
- 100 not skipped (`IsSkip_Never`);
- connecting to `cur_backend` (`ConnectOk_Cur`);
- the Content-length slips (`ScanContentLength_*`), among them an RPC window one wider at each end (`ScanContentLength_RpcWindowWide`, breaks `BodyBounded`);
- a counting `chunked` flag (`ScanTransferEncoding_Count`);
- adns status passed through unconverted (`AdnsToDnsStatus_Raw`), A queried for every family (`LookupA_Any`), the CNAME loop not left on EEXIST (`ChainCname_NoBreak`);
- the partial mask byte shifted by `7 - r` (`MasklenToNetmask_Shift`);
- `tot_size` compared before the new chunk is added (`TooLarge_Before`);
- lowercase hex digits taken without the `- 6` (`HexVal_NoAdjust`);
- the method group compared with `>=` (`MethodRefused_Ge`);
- a time-out of 0 taken as one already occurred (`TimedOutArg_Le`), `set_callback` moved out of the `backend->to > 0` test, so a new backend BIO carries the stale `ba2` (`BackendConnect_AlwaysInstall`), and the backend BIO numbered off by one (`BioOf_Next`);
- `.` left out of the escaped characters (`RegexSpecials_NoDot`);
- `acme_reply` returning an error after a failed copy, so the caller sends a second reply (`AcmeReply_ErrOnCopy`);
- an Else table ending at End as a rule table does, so the End closing an Else chain is consumed by the innermost Else (`ElseTab_End`, breaks `RewriteParsed`), and a section-level statement joined to the last rule even when that rule has a condition (`LastUncondAppend_Any`, breaks `SectionSameEffect`); a copy until EOF that leaves `cl_11` and `be_11` set (`KeepAfter_NoEof`, breaks `ResponseFramingAgrees`); the buffered RPC_IN_DATA bytes tested with `>=` (`RpcInPending_Ge`, breaks `RpcInBounded`);
- a response time-out that keeps the connection and reads the next request, leaving the current one unanswered (`ResponseTimeout_Keep`, breaks `SessionRefined`).

## Bounds and why they are enough

- **Header checks:** three headers are the fewest that combine:
  - a duplicate Content-length;
  - Content-length with Transfer-encoding;
  - either of those with a removed header (Expect, negative Content-length), which shifts the positions that follow.

  Content-length values cover the sentinel, another negative, zero, a value within `max_req` (4), both ends of the RPC window (8 and 16) and the values just outside them (7 and 17). `max_req` lies below the window, as 0x20000 lies above usual limits, so a value let into the window by an off-by-one is one `max_req` refuses.
- **Keep-alive (one worker):**
  - `MaxReqs = 2` is the smallest bound where a backend connection is reused.
  - `MaxConns = 2` lets balancer state carry over from one client connection to the next.
  - `MaxFails = 2` reaches the emergency group after both normal backends are killed.
- **Priorities:** b1 = 2 and b2 = 1, so the weighted walk has draws that pick each normal backend.
- **Resolver:** four names and five zone versions. The versions include chains that go through different names, so a chain seen across queries can change under the loop. `MaxCnameChain = 2` in the pass run lets the loop hit its bound; the violation runs use 3, so the bound is not what stops them.
- **Time-outs:** a client time-out of 0 (none) or 2 s, backends with no time-out or 1 s, and two backend connections. That is the fewest where `ba2` is reused: after a time-out, and by a backend that installs no callback. `IntBits = 16` keeps `timeout * 1000` in range for these values; `MC_BioTimeout_Overflow.cfg` shows what happens beyond it.
- **ACLs:** every IPv4 mask length 0..32, probed with each of the 32 one-bit changes of the address, so each mask bit is tested at its edge. IPv6 lengths 0, 1, 31, 32, 33, 64, 127, 128 with flips at 0, 31, 32, 33, 64, 127 cover the first, middle and last bytes.
- **Chunked bodies:** up to three chunks of sizes 1..3 with `max_req` 0, 3 or 5, so bodies fall below, at and above the limit, and a chunk crosses it. `LongBits = 8` keeps the `LONG` arithmetic's shape (saturation, wrap) at numbers TLC enumerates easily. The pass run keeps sizes far below `LongMax`, and `chunk_max_overflow` shows what happens beyond.
- **URLs and request lines:** the URL alphabet has bytes that are kept (`/`, `a`, `0`), bytes encoded with a digit-only escape (space, `%`) and one with a letter (`~` is `%7e`), so both hex paths of `decode_url` are used. Request lines cover a leading space, a missing URL or version, the URL slot holding a version, a trailing space, versions 1.2 and 2, unknown methods, and methods of groups 0, 1, 2, 3, 4 against `verb` 0, 2 and 4.
- **Host conditions:** patterns of one or two bytes and headers of up to three bytes over `a`, `b` and `.`. A pattern can then be a proper prefix, suffix or infix of the header, and `.` is the one byte an unescaped copy would treat as a wildcard. The pass run takes the options `-beg`, `-end`, `-contain`, `-icase -end` and `-exact -contain`, where the last option wins; `host_exact` takes no options, `-exact`, and `-contain -exact`.
- **Host files:** files of up to two lines from `a`, `.`, `ba`, ` b\n` (blanks and a newline to trim), `#a` (a comment) and a tab alone (blank after trimming). Two lines are the fewest where a line follows another, which is where the shared `gp_type` matters.
- **Request heads:** heads of up to four `get_line` results (empty, Host, another header, a text the regex refuses, and the failures 1 and -1), so a failure can come before, at or after the request line and after some headers.
- **Authorization values:** Basic or another scheme, then up to four of a space, a quote and three base64 tokens (a name with `:`, a name without, nothing), which covers an opening and a closing quote with a token between.
- **Rewrite rules:** rules of at most one condition (URL, Header, `Not URL`, a Match block) and one operation. A nested Rewrite or an Else goes two deep, and an Else of an Else three deep. That is the fewest where an End is put back through two Else tables and a nested Rewrite's Else ends inside its parent. Sections have up to three statements from five Rewrite blocks (with and without a condition, one with only an Else, two response rules) and the three section-level statements. So a statement follows a conditional rule, an unconditional rule, and another statement. Every assignment of truth to the two basic conditions is compared. The fix-up is tried on five request rules, one for each place a BasicAuth condition can sit: directly, under NOT, in a Match block, in an Else rule and in a nested Rewrite.
- **Response heads:** a final head of HTTP/1.1 or 1.0 with code 101, 200 or 204 and up to two headers out of Connection close/upgrade, Upgrade websocket, Transfer-encoding chunked/gzip and Content-length -1, 2 or 4 (4 is inside the scaled RPC_OUT_DATA window 3..5), alone or after a bare 100. That is the fewest where two framing headers meet in one head. The request is GET or HEAD, with or without the WebSocket flags, RPC_OUT_DATA or not, the backend readable in time or not, and `noHTTPS11` 0, 1 or 2 on TLS.
- **RPC_IN_DATA bodies:** Content-length 2 or 3, 0..3 buffered bytes and up to two socket reads of 1 or 2 bytes, so a body ends below, at and above the length in either phase, and a block crosses it.
- **Special replies:** both templates, the 301 and 302 codes, each `stringbuf_finish` failing; ACME files of 0..2 bytes whose reads give 0..2 bytes, with `open` failing with ENOENT or another errno and `fstat` failing.
- **Terminal states:** the bounded runs end in `Terminated` (or `Done`), a stuttering step. Deadlock is checked in every run.

## Fairness and liveness

No run checks a liveness property. Every wait of `do_http` ends by a time-out that `bio_callback` enforces (http.c 641–653): the client's `to`, the backend's `to`, and `ws_to` for the tunnel. Each is an action of the model (`ResponseTimeout`, `LenFail`, `ChunkedEnd`, `EofNotReadable`, `StreamEnd`), so "every connection a worker takes is eventually finished" holds under weak fairness of the worker by those time-outs alone, whatever the code does between them, and shows nothing about the code. The model has no clock, so how long a worker waits (the HEAD stall of `head_chunked`, the EINTR retries of `bio_callback`) is not a state a property can bound. The runs check safety under `Spec`.

## Not modelled, and why

- **Body copying:** the writes to the peer and their errors (`copy_chunks` returns -3, -6, -8 and the flush failures). The properties are about what is read.
- **String rewriting:** Location, Content-location, Destination.
- **Other `do_http` code:** the SSL headers (`add_ssl_headers` formats OpenSSL's certificate fields) and logging. In `Proxy`, `force_10` is 0 and RPC_OUT_DATA is not a request kind; `ResponseHead` covers both for one answer. The bytes of the WebSocket tunnel are not modelled, only whether it is entered.
- **Missing sources:** the session table and the hash balancers are in `svc.c`, which is not in the repository. So are `kill_be` and `get_backend`: `Balancer` follows spec.md 4.4/4.5 and kills a backend in one atomic step, while spec.md 9 leaves open a window where `tot_pri` is stale during health flaps. What concurrent kills do to the balancer therefore depends on code that is not here, and no property about it is claimed.
- **The rest of the resolver:** the cache and the adns library.
- **The rest of the config parser:** the lexer, the other sections, file inclusion, and `cfgparser_loop`, which is not in the repository. The arguments of the Rewrite statements are not modelled: their patterns and templates are data. PCRE patterns and conditions other than Host read with `-file` are not modelled.
- **TLS, control and metrics.**
- **`http_header_list_filter`:** the `head_off` patterns it applies are never filled by `config.c`.
- **Resolver allocation defects that TLC cannot show:** `cname_install` copies a name into a one-byte array; `dns_get_state` returns a pointer into a NULL state when `dns_state_create` fails; `adns_init_logfn` is given NULL as the data `dns_log_cb` uses as its string buffer. Each is visible in the code itself, with no interleaving or input needed to show it.

`PROJECT.json` lists each of these with the reason.

## Plan for later sittings

In order of importance:
1. **Compose `ResponseHead` with `Proxy`.** `ReadResponse` in `Proxy` abstracts a head to its framing; driving it with `HandleResponse` would let the keep-alive run reach the misframed answers of `MC_Operators_RespFraming.cfg` on a reused backend connection. `parse_header_options` is the other operator left.
2. **Concurrent `kill_be`.** Should `svc.c` become part of the repository, `KillBe` and `GetBackend` can be translated from it, split into the steps its locking allows, and a two-worker run can check that `get_backend` answers NULL only when no backend is alive.
